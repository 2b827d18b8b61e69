--------------------------- MODULE MCDeltaReview ---------------------------
(* Instances of DeltaReview. *)
EXTENDS DeltaReview
=============================================================================
