--------------------------- MODULE MCProfileCache ---------------------------
(* Instances of ProfileCache for TLC. *)
EXTENDS ProfileCache, TLC

(* Two wordings of one question: each is a semantic match for the other. *)
AllSimilar == Query \X Query

(* What the feedback worker applies; nightly deltas of fields, and of both. *)
AllDeltas ==
  {[prefs |-> TRUE, fields |-> 0], [prefs |-> FALSE, fields |-> 2], [prefs |-> TRUE, fields |-> 1]}

(* A nightly delta with a preference and a field. *)
TwoWriteDeltas == {[prefs |-> TRUE, fields |-> 1]}

(* The requests are alike, and so are the writers. *)
Symmetry == Permutations(Request) \cup Permutations(Writer)
=============================================================================
