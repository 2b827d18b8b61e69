------------------------- MODULE MCServerInstances -------------------------
(* Instances of ServerInstances: two starts, and a stop and a client        *)
(* command that may be run again and again.                                 *)
EXTENDS ServerInstances
=============================================================================
