---------------------------- MODULE MCDeepEnrich ----------------------------
(* d2 and d3 are like d1 and not like each other, or d3 has no topics.  Two *)
(* of the documents d1 and d2 fit a batch, d3 overflows one.  The model     *)
(* leaves d2 out and names documents that are not in the batch.             *)
EXTENDS DeepEnrich

CONSTANTS d1, d2, d3, x, y, z

MCFirstTags == (d1 :> {{x, y}}) @@ (d2 :> {{x}}) @@ (d3 :> {{y}, {}})
MCTokens == (d1 :> 2) @@ (d2 :> 2) @@ (d3 :> 5)

MCAnswer == {[docs |-> {d1, d3}, topics |-> {z}, refs |-> {d1, d3}]}
=============================================================================
