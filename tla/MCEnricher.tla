---------------------------- MODULE MCEnricher ----------------------------
(* Two records of one source and two of others; a question that is like     *)
(* all of them, an entity that occurs in two, and an empty one.             *)
EXTENDS Enricher

CONSTANTS a1, a2, b, c, q, e, o, A, B, C

MCSourceOf == (a1 :> A) @@ (a2 :> A) @@ (b :> B) @@ (c :> C)
MCSimilarity ==
  (q :> ((a1 :> 9) @@ (a2 :> 9) @@ (b :> 6) @@ (c :> 2)))
  @@ (e :> ((a1 :> 4) @@ (a2 :> 3) @@ (b :> 8) @@ (c :> 7)))
  @@ (o :> ((a1 :> 1) @@ (a2 :> 5) @@ (b :> 1) @@ (c :> 5)))
MCRelevance ==
  (q :> ((a1 :> 0) @@ (a2 :> 0) @@ (b :> 2) @@ (c :> 5)))
  @@ (e :> ((a1 :> 3) @@ (a2 :> 0) @@ (b :> 0) @@ (c :> 3)))
  @@ (o :> ((a1 :> 0) @@ (a2 :> 0) @@ (b :> 0) @@ (c :> 0)))
MCTokens == (a1 :> 2) @@ (a2 :> 1) @@ (b :> 2) @@ (c :> 1)

(* The intent gives a ratio, or leaves it to the strategy. *)
MCRatio == ("vector_only" :> {}) @@ ("hybrid" :> {4})
MCNoRatio == ("keyword_heavy" :> {})

MCThreshold == 3 * RankUnit
MCModelScore == {4 * RankUnit, 8 * RankUnit}
=============================================================================
