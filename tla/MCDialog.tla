------------------------------ MODULE MCDialog ------------------------------
(* Instances of ExtractingProgressDialog for model checking.               *)
EXTENDS ExtractingProgressDialog

OwnFile == [t \in Tracks |-> t]
=============================================================================
