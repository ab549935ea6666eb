----------------------------- MODULE MCCDDAModel -----------------------------
(* Instances of CDDAModel for model checking.                              *)
EXTENDS CDDAModel, TLC

CONSTANTS A, B

(* An audio disc, and an enhanced one: its second track holds data.        *)
TwoTracksOf == A :> {1} @@ B :> {1, 2}
TwoAudioOf  == A :> {1} @@ B :> {1}

(* At the start one drive at most holds a disc (always the same one: the   *)
(* drives are alike); the other disc is inserted later, into either.       *)
First == CHOOSE d \in Drives : TRUE

MCInit == Init /\ \A d \in Drives \ {First} : tray[d] = None

MCSpec == MCInit /\ [][Next]_vars /\ Fairness
=============================================================================
