------------------------------ MODULE MCAudex -------------------------------
(* Instances of Audex for model checking.                                  *)
EXTENDS Audex

(* Every track has a file of its own.                                      *)
OwnFile == [t \in Tracks |-> t]
=============================================================================
