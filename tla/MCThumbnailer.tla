---------------------------- MODULE MCThumbnailer ----------------------------
(* Instances of Thumbnailer for model checking: the requests are the model *)
(* values of the configurations.  No symmetry: EveryRequestAnswered is a   *)
(* liveness property.                                                      *)
EXTENDS Thumbnailer
=============================================================================
