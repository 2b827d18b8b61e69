------------------------- MODULE MCQueryCacheRing -------------------------
(* Two queries alike above the threshold, with a topic each. *)
EXTENDS QueryCacheRing, TLC

CONSTANTS p, q, go, swim

MCQuery == {p, q}
MCSimilarity == [x \in MCQuery \X MCQuery |-> IF x[1] = x[2] THEN 3 ELSE 2]
MCTopicsOf == [x \in MCQuery |-> IF x = p THEN {go} ELSE {swim}]

(* The requests are alike. *)
Symmetry == Permutations(Reader)
=============================================================================
