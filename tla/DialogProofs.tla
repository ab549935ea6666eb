----------------------------- MODULE DialogProofs -----------------------------
(***************************************************************************)
(* Proofs about ExtractingProgressDialog, for any disc, any selection and  *)
(* any naming scheme, under the hypothesis Regular of AudexProofs.  They   *)
(* rest on the inductive invariant Inv of the rip proved there.            *)
(***************************************************************************)
EXTENDS ExtractingProgressDialog, AudexProofs, SequenceTheorems

(* Only the two questions are asked, the timeout at most once, and it may  *)
(* come on top of the other; either is asked of a rip that was started.    *)
BoxesInv ==
  /\ boxes \in {<<>>, <<"cancel">>, <<"timeout">>, <<"cancel", "timeout">>}
  /\ boxes \in {<<"timeout">>, <<"cancel", "timeout">>} => asked
  /\ boxes # <<>> => rip.started

DInv ==
  /\ Inv
  /\ BoxesInv
  /\ button \in {"cancel", "disabled", "stop", "close"}
  /\ canceled \in BOOLEAN /\ timer \in BOOLEAN /\ asked \in BOOLEAN
  /\ ejected \in BOOLEAN /\ closed \in BOOLEAN
  /\ CloseButtonStays
  /\ ButtonComesBack
  /\ canceled => rip.finished
  /\ closed => rip.concluded > 0

-----------------------------------------------------------------------------
(* The rip's steps as the dialog sees them.                                *)

LEMMA ConcludedIsOne ==
  ASSUME NEW s, Good(s)
  PROVE  /\ s.concluded \in {0, 1}
         /\ s.concluded # 0 => s.finished /\ s.reading = 0 /\ s.proc = 0
BY DEF Good, Conclusive, N

(* Nothing happens in the rip after its conclusion.                        *)
LEMMA NoStepAfterConclusion ==
  ASSUME Inv, AudexStep
  PROVE  rip.concluded = 0
<1> SUFFICES ASSUME rip.concluded # 0 PROVE FALSE
  OBVIOUS
<1>1. /\ rip.finished /\ rip.reading = 0 /\ rip.proc = 0
      /\ rip.started /\ rip.events = <<>>
  BY ConcludedIsOne, Zenon DEF Inv, Good, Consistent, ThreadInv
<1>2. ~PrepareFails /\ ~(\E bad \in Bad : Start(bad))
  BY <1>1, Zenon DEF PrepareFails, Start
<1>3. ~ThreadStep /\ ~LoopStep
  BY <1>1, Zenon DEF ThreadStep, ThreadChecks, ThreadResets, ThreadEnds, LoopStep, Deliver
<1>4. ~EncoderOpens /\ ~EncoderStep
  BY <1>1, Zenon DEF EncoderOpens, EncoderStep, EncoderExits, EncoderCrashes
<1>5. QED
  BY <1>2, <1>3, <1>4, Zenon DEF AudexStep

(* A step of the rip keeps what is known of it, and a rip that is to       *)
(* finish stays so.                                                        *)
LEMMA RipStepKeeps ==
  ASSUME Regular, Inv, AudexStep
  PROVE  /\ Inv'
         /\ rip.finished => rip'.finished
         /\ rip.started => rip'.started
<1>1. Next
  BY Zenon DEF AudexStep, Next
<1>2. QED
  BY <1>1, NextKeeps, NextInv, Zenon DEF Keeps

(* The user's cancellation, from whichever box it comes.                   *)
LEMMA RequestKeeps ==
  ASSUME Inv, rip.started, rip' = RequestFinish(rip, FALSE),
         cancelled' = (cancelled \/ rip.concluded = 0),
         UNCHANGED <<config, encoded>>
  PROVE  /\ Inv'
         /\ rip'.finished /\ rip'.started
         /\ rip.concluded # 0 => rip'.concluded = rip.concluded
<1>1. Good(rip) /\ TypeOK
  BY Zenon DEF Inv
<1>2. Good(rip') /\ RequestsFinish(rip, rip')
  BY <1>1, RequestFinishGood, Zenon
<1>3. cancelled' \in BOOLEAN
  BY <1>1, Zenon DEF TypeOK
<1>4. TypeOK'
  BY <1>1, <1>2, <1>3, Zenon DEF TypeOK, Good, Consistent
<1>5. rip'.started /\ rip'.finished
  BY <1>2, Zenon DEF RequestsFinish, SameProcesses
<1>6. rip.concluded # 0 => rip' = rip
  BY <1>1, <1>2, ConcludedIsOne, Zenon DEF RequestsFinish
<1>7. QED
  BY <1>2, <1>4, <1>5, <1>6, Zenon DEF Inv

-----------------------------------------------------------------------------
(* Every action of the dialog preserves the invariant.                     *)

(* What the boxes look like after one is opened or closed.                 *)
LEMMA BoxOpened == Append(<<"cancel">>, "timeout") = <<"cancel", "timeout">>
<1> DEFINE s == Append(<<"cancel">>, "timeout")
           t == <<"cancel", "timeout">>
           S == {"cancel", "timeout"}
<1>1. s \in Seq(S) /\ Len(s) = 2 /\ s[1] = "cancel" /\ s[2] = "timeout"
  OBVIOUS
<1>2. t \in Seq(S) /\ Len(t) = 2 /\ t[1] = "cancel" /\ t[2] = "timeout"
  OBVIOUS
<1> HIDE DEF s, t, S
<1>3. \A i \in 1..2 : s[i] = t[i]
  BY <1>1, <1>2
<1>4. s = t
  BY <1>1, <1>2, <1>3, SeqEqual
<1>5. QED
  BY <1>4 DEF s, t

LEMMA BoxClosed == SubSeq(<<"cancel", "timeout">>, 1, 1) = <<"cancel">>
<1> DEFINE s == SubSeq(<<"cancel", "timeout">>, 1, 1)
           t == <<"cancel">>
           S == {"cancel", "timeout"}
<1>1. s \in Seq(S) /\ Len(s) = 1 /\ s[1] = "cancel"
  BY SubSeqProperties
<1>2. t \in Seq(S) /\ Len(t) = 1 /\ t[1] = "cancel"
  OBVIOUS
<1> HIDE DEF s, t, S
<1>3. s = t
  BY <1>1, <1>2, SeqEqual
<1>4. QED
  BY <1>3 DEF s, t

LEMMA BoxSequences ==
  /\ Len(<<"cancel">>) = 1 /\ Len(<<"timeout">>) = 1 /\ Len(<<"cancel", "timeout">>) = 2
  /\ SubSeq(<<"cancel">>, 1, 0) = <<>> /\ SubSeq(<<"timeout">>, 1, 0) = <<>>
  /\ SubSeq(<<"cancel", "timeout">>, 1, 1) = <<"cancel">>
  /\ Append(<<>>, "timeout") = <<"timeout">>
  /\ Append(<<"cancel">>, "timeout") = <<"cancel", "timeout">>
<1>1. SubSeq(<<"cancel">>, 1, 0) = <<>> /\ SubSeq(<<"timeout">>, 1, 0) = <<>>
  OBVIOUS
<1>2. Append(<<>>, "timeout") = <<"timeout">>
  OBVIOUS
<1>3. /\ Len(<<"cancel">>) = 1 /\ Len(<<"timeout">>) = 1
      /\ Len(<<"cancel", "timeout">>) = 2
  OBVIOUS
<1>4. QED
  BY <1>1, <1>2, <1>3, BoxOpened, BoxClosed

(* An answer closes the topmost box.                                       *)
LEMMA AnswerCloses ==
  ASSUME BoxesInv, boxes # <<>>, boxes' = SubSeq(boxes, 1, Len(boxes) - 1),
         asked' = asked, rip'.started
  PROVE  BoxesInv'
<1>1. boxes' \in {<<>>, <<"cancel">>}
  BY BoxSequences DEF BoxesInv
<1>2. QED
  BY <1>1 DEF BoxesInv

(* The conclusion brings the Close button, and nothing else does.          *)
LEMMA ConclusionShows ==
  ASSUME Inv, Inv', CloseButtonStays, ButtonComesBack, timer' = timer,
         button \in {"cancel", "disabled", "stop", "close"},
         rip.concluded # 0 => rip'.concluded = rip.concluded,
         Conclusion
  PROVE  /\ CloseButtonStays' /\ ButtonComesBack'
         /\ button' \in {"cancel", "disabled", "stop", "close"}
         /\ rip.concluded > 0 => rip'.concluded > 0
<1>1. rip.concluded \in {0, 1} /\ rip'.concluded \in {0, 1}
  BY ConcludedIsOne, Zenon DEF Inv
<1>2. CASE rip'.concluded > rip.concluded
  BY <1>1, <1>2 DEF Conclusion, CloseButtonStays, ButtonComesBack
<1>3. CASE ~(rip'.concluded > rip.concluded)
  BY <1>1, <1>3 DEF Conclusion, CloseButtonStays, ButtonComesBack
<1>4. QED
  BY <1>2, <1>3

LEMMA DInitInv ==
  ASSUME DInit
  PROVE  DInv
<1>1. Inv
  BY InitInv, Zenon DEF DInit
<1>2. PICK f : rip = NewRip(f)
  BY Zenon DEF DInit, Init
<1>3. rip.concluded = 0
  BY <1>2, ZenonT(60) DEF NewRip
<1>4. ~(rip.concluded > 0)
  BY <1>3
<1>5. BoxesInv
  BY DEF DInit, BoxesInv
<1>6. QED
  BY <1>1, <1>4, <1>5, Zenon DEF DInit, DInv, CloseButtonStays, ButtonComesBack

LEMMA RipStepInv ==
  ASSUME Regular, DInv, RipStep
  PROVE  DInv'
<1>1. /\ Inv'
      /\ rip.finished => rip'.finished
      /\ rip.started => rip'.started
      /\ rip.concluded = 0
  BY RipStepKeeps, NoStepAfterConclusion, Zenon DEF DInv, RipStep
<1>2. /\ CloseButtonStays' /\ ButtonComesBack'
      /\ button' \in {"cancel", "disabled", "stop", "close"}
      /\ rip.concluded > 0 => rip'.concluded > 0
  BY <1>1, ConclusionShows, Zenon DEF DInv, RipStep
<1>3. BoxesInv'
  BY <1>1, Zenon DEF DInv, RipStep, BoxesInv
<1>4. QED
  BY <1>1, <1>2, <1>3, Zenon DEF DInv, RipStep

(* The actions of the dialog that leave the rip alone.                     *)
LEMMA DialogStepInv ==
  ASSUME DInv, PressCancel \/ PressStop \/ EmergencyTimer \/ AskTimeout \/ Close
  PROVE  DInv'
<1>1. UNCHANGED vars
  BY Zenon DEF PressCancel, PressStop, EmergencyTimer, AskTimeout, Close
<1>2. Inv'
  BY <1>1, Zenon DEF vars, DInv, Inv, TypeOK
<1>3. rip' = rip
  BY <1>1, Zenon DEF vars
<1>4. CASE PressCancel
  <2>1. BoxesInv'
    BY <1>3, <1>4 DEF PressCancel, BoxesInv
  <2>2. QED
    BY <1>2, <1>3, <1>4, <2>1, Zenon
       DEF DInv, PressCancel, CloseButtonStays, ButtonComesBack
<1>5. CASE PressStop
  BY <1>2, <1>3, <1>5, Zenon
     DEF DInv, PressStop, BoxesInv, CloseButtonStays, ButtonComesBack
<1>6. CASE EmergencyTimer
  <2>1. /\ CloseButtonStays' /\ ButtonComesBack'
        /\ button' \in {"cancel", "disabled", "stop", "close"}
    BY <1>3, <1>6 DEF DInv, EmergencyTimer, HasCancelButton, CloseButtonStays,
                      ButtonComesBack
  <2>2. QED
    BY <1>2, <1>3, <1>6, <2>1, Zenon DEF DInv, EmergencyTimer, BoxesInv
<1>7. CASE AskTimeout
  <2>1. BoxesInv'
    BY <1>3, <1>7, BoxSequences DEF DInv, AskTimeout, Alive, BoxesInv
  <2>2. QED
    BY <1>2, <1>3, <1>7, <2>1, Zenon
       DEF DInv, AskTimeout, CloseButtonStays, ButtonComesBack
<1>8. CASE Close
  BY <1>2, <1>3, <1>8, Zenon
     DEF DInv, Close, BoxesInv, CloseButtonStays, ButtonComesBack
<1>9. QED
  BY <1>4, <1>5, <1>6, <1>7, <1>8, Zenon

(* A box with a question is only answered once the rip was started.        *)
LEMMA AnswerNoInv ==
  ASSUME DInv, AnswerCancel(FALSE) \/ AnswerTimeout(FALSE)
  PROVE  DInv'
<1>1. /\ boxes # <<>> /\ boxes' = SubSeq(boxes, 1, Len(boxes) - 1)
      /\ UNCHANGED <<vars, button, canceled, timer, asked, ejected, closed>>
  BY Zenon DEF AnswerCancel, AnswerTimeout, vars
<1>2. Inv' /\ rip' = rip
  BY <1>1, Zenon DEF vars, DInv, Inv, TypeOK
<1>3. BoxesInv'
  BY <1>1, <1>2, AnswerCloses, Zenon DEF DInv, BoxesInv
<1>4. QED
  BY <1>1, <1>2, <1>3, Zenon DEF DInv, CloseButtonStays, ButtonComesBack

LEMMA AnswerTimeoutInv ==
  ASSUME DInv, AnswerTimeout(TRUE)
  PROVE  DInv'
<1>1. /\ boxes # <<>> /\ boxes' = SubSeq(boxes, 1, Len(boxes) - 1)
      /\ rip' = RequestFinish(rip, FALSE)
      /\ cancelled' = (cancelled \/ rip.concluded = 0)
      /\ Conclusion
      /\ UNCHANGED <<config, encoded, canceled, timer, asked, ejected, closed>>
  BY Zenon DEF AnswerTimeout
<1>2. Inv /\ rip.started
  BY <1>1, Zenon DEF DInv, BoxesInv
<1>3. /\ Inv' /\ rip'.finished /\ rip'.started
      /\ rip.concluded # 0 => rip'.concluded = rip.concluded
  BY <1>1, <1>2, RequestKeeps, Zenon
<1>4. BoxesInv'
  BY <1>1, <1>3, AnswerCloses, Zenon DEF DInv
<1>5. /\ CloseButtonStays' /\ ButtonComesBack'
      /\ button' \in {"cancel", "disabled", "stop", "close"}
      /\ rip.concluded > 0 => rip'.concluded > 0
  BY <1>1, <1>3, ConclusionShows, Zenon DEF DInv
<1>6. QED
  BY <1>1, <1>3, <1>4, <1>5, Zenon DEF DInv

LEMMA AnswerCancelInv ==
  ASSUME DInv, AnswerCancel(TRUE)
  PROVE  DInv'
<1>1. /\ boxes # <<>> /\ boxes' = SubSeq(boxes, 1, Len(boxes) - 1)
      /\ rip' = RequestFinish(rip, FALSE)
      /\ cancelled' = (cancelled \/ rip.concluded = 0)
      /\ button' = IF rip'.concluded > rip.concluded THEN "close"
                   ELSE IF HasCancelButton THEN "disabled" ELSE button
      /\ canceled' = TRUE /\ timer' = TRUE
      /\ UNCHANGED <<config, encoded, asked, ejected, closed>>
  BY Zenon DEF AnswerCancel
<1>2. Inv /\ rip.started
  BY <1>1, Zenon DEF DInv, BoxesInv
<1>3. /\ Inv' /\ rip'.finished /\ rip'.started
      /\ rip.concluded # 0 => rip'.concluded = rip.concluded
  BY <1>1, <1>2, RequestKeeps, Zenon
<1>4. BoxesInv'
  BY <1>1, <1>3, AnswerCloses, Zenon DEF DInv
<1>5. /\ rip.concluded \in {0, 1} /\ rip'.concluded \in {0, 1}
      /\ rip.concluded > 0 <=> button = "close"
      /\ button \in {"cancel", "disabled", "stop", "close"}
  BY <1>2, <1>3, ConcludedIsOne, Zenon DEF Inv, DInv, CloseButtonStays
<1>6. /\ CloseButtonStays' /\ ButtonComesBack'
      /\ button' \in {"cancel", "disabled", "stop", "close"}
      /\ rip.concluded > 0 => rip'.concluded > 0
  <2>1. CASE rip'.concluded > rip.concluded
    <3>1. rip'.concluded > 0
      BY <1>5, <2>1
    <3>2. button' = "close"
      BY <1>1, <2>1, Zenon
    <3>3. QED
      BY <3>1, <3>2, Zenon DEF CloseButtonStays, ButtonComesBack
  <2>2. CASE ~(rip'.concluded > rip.concluded)
    <3>1. rip'.concluded = rip.concluded /\ (rip.concluded > 0 \/ rip.concluded = 0)
      BY <1>3, <1>5, <2>2
    <3>2. button' = IF button # "close" THEN "disabled" ELSE button
      BY <1>1, <2>2, Zenon DEF HasCancelButton
    <3>3. timer' = TRUE
      BY <1>1
    <3>4. QED
      BY <1>5, <3>1, <3>2, <3>3, Zenon DEF CloseButtonStays, ButtonComesBack
  <2>3. QED
    BY <2>1, <2>2
<1>7. QED
  BY <1>1, <1>3, <1>4, <1>6, Zenon DEF DInv

LEMMA DNextInv ==
  ASSUME Regular, DInv, [DNext]_dvars
  PROVE  DInv'
<1>1. CASE UNCHANGED dvars
  BY <1>1, Zenon DEF dvars, dialog, vars, DInv, Inv, TypeOK, BoxesInv,
                     CloseButtonStays, ButtonComesBack
<1>2. ASSUME NEW yes \in BOOLEAN, AnswerCancel(yes) \/ AnswerTimeout(yes)
      PROVE  DInv'
  <2>1. CASE yes = TRUE
    BY <1>2, <2>1, AnswerCancelInv, AnswerTimeoutInv, Zenon
  <2>2. CASE yes = FALSE
    BY <1>2, <2>2, AnswerNoInv, Zenon
  <2>3. QED
    BY <2>1, <2>2
<1>3. QED
  BY <1>1, <1>2, RipStepInv, DialogStepInv, Zenon DEF DNext

-----------------------------------------------------------------------------
(* The types, at most two boxes being open.                                *)
THEOREM DialogTypeCorrect ==
  ASSUME Regular
  PROVE  DSpec => []DTypeOK
<1>1. DInit => DInv
  BY DInitInv
<1>2. DInv /\ [DNext]_dvars => DInv'
  BY DNextInv
<1>3. DInv => DTypeOK
  <2> DEFINE Boxes(b) == b \in Seq({"cancel", "timeout"}) /\ Len(b) <= 2
  <2>1. Boxes(<<>>) /\ Boxes(<<"cancel">>) /\ Boxes(<<"timeout">>)
    OBVIOUS
  <2>2. Boxes(<<"cancel", "timeout">>)
    OBVIOUS
  <2> HIDE DEF Boxes
  <2>3. DInv => Boxes(boxes)
    BY <2>1, <2>2, Zenon DEF DInv, BoxesInv
  <2>4. QED
    BY <2>3, Zenon DEF DInv, DTypeOK, Boxes
<1>4. QED
  BY <1>1, <1>2, <1>3, PTL DEF DSpec

(* The dialog is closed, and Audex deleted, only when nothing runs.        *)
THEOREM ClosesOnlyWhenIdle ==
  ASSUME Regular
  PROVE  DSpec => []ClosedWhenIdle
<1>1. DInit => DInv
  BY DInitInv
<1>2. DInv /\ [DNext]_dvars => DInv'
  BY DNextInv
<1>3. DInv => ClosedWhenIdle
  <2>1. SUFFICES ASSUME DInv, closed PROVE Running(rip) = {}
    BY DEF ClosedWhenIdle
  <2>2. rip.concluded \in {0, 1} /\ rip.concluded > 0
    BY <2>1, ConcludedIsOne, Zenon DEF DInv, Inv
  <2>3. rip.reading = 0 /\ rip.proc = 0
    BY <2>1, <2>2, ConcludedIsOne DEF DInv, Inv
  <2>4. QED
    BY <2>3 DEF Running
<1>4. QED
  BY <1>1, <1>2, <1>3, PTL DEF DSpec

(* The Close button is there exactly from the conclusion on.               *)
THEOREM CloseButtonIsThere ==
  ASSUME Regular
  PROVE  DSpec => []CloseButtonStays
<1>1. DInit => DInv
  BY DInitInv
<1>2. DInv /\ [DNext]_dvars => DInv'
  BY DNextInv
<1>3. DInv => CloseButtonStays
  BY Zenon DEF DInv
<1>4. QED
  BY <1>1, <1>2, <1>3, PTL DEF DSpec

(* A disabled button is always about to become Stop.                       *)
THEOREM NeverLockedOut ==
  ASSUME Regular
  PROVE  DSpec => []ButtonComesBack
<1>1. DInit => DInv
  BY DInitInv
<1>2. DInv /\ [DNext]_dvars => DInv'
  BY DNextInv
<1>3. DInv => ButtonComesBack
  BY Zenon DEF DInv
<1>4. QED
  BY <1>1, <1>2, <1>3, PTL DEF DSpec

(* The medium is ejected under a running rip only when that was told to    *)
(* stop.                                                                   *)
THEOREM EjectsOnlyWhenStopping ==
  ASSUME Regular
  PROVE  DSpec => EjectOnlyWhenStopping
<1>1. DInit => DInv
  BY DInitInv
<1>2. DInv /\ [DNext]_dvars => DInv'
  BY DNextInv
<1>3. DInv /\ [DNext]_dvars =>
        [ejected' /\ ~ejected => canceled /\ rip.finished /\ rip.concluded = 0]_dvars
  <2>1. SUFFICES ASSUME DInv, DNext, ejected', ~ejected
                 PROVE  canceled /\ rip.finished /\ rip.concluded = 0
    OBVIOUS
  <2>2. PressStop
    BY <2>1, Zenon DEF DNext, RipStep, PressCancel, AnswerCancel, EmergencyTimer,
                       AskTimeout, AnswerTimeout, Close
  <2>3. rip.concluded \in {0, 1} /\ ~(rip.concluded > 0)
    BY <2>1, <2>2, ConcludedIsOne DEF DInv, Inv, PressStop, CloseButtonStays
  <2>4. QED
    BY <2>1, <2>2, <2>3 DEF DInv, PressStop
<1>4. QED
  BY <1>1, <1>2, <1>3, PTL DEF DSpec, EjectOnlyWhenStopping
=============================================================================
