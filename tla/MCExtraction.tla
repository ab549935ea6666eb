---------------------------- MODULE MCExtraction -----------------------------
(* Instances of Extraction for model checking.                             *)
EXTENDS Extraction

(* Two tracks, of three and two sectors.                                   *)
ShortDisc == <<0, 3, 5>>
=============================================================================
