---------------------------- MODULE MCIngestIndex ----------------------------
(* Instances of IngestIndex for TLC: rows and requests are model values. *)
EXTENDS IngestIndex
=============================================================================
