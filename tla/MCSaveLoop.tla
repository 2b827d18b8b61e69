----------------------------- MODULE MCSaveLoop -----------------------------
(* Instances of SaveLoop for TLC: the requests are model values. *)
EXTENDS SaveLoop
=============================================================================
