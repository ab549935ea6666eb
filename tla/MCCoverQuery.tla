---------------------------- MODULE MCCoverQuery ----------------------------
(* Instances of CoverQuery for model checking: searches and albums are     *)
(* model values of the configurations.                                     *)
EXTENDS CoverQuery
=============================================================================
