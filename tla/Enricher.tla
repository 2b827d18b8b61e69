------------------------------ MODULE Enricher ------------------------------
(***************************************************************************)
(* The context part of the pipeline (Enricher.Enrich in internal/pipeline/ *)
(* enrichment.go, Composer.buildEnrichment in internal/composer/prompt.go):*)
(* more candidates are retrieved than are needed, the reranker scores      *)
(* them, the best are kept, and as many of these as fit go into the        *)
(* prompt.  Composes HybridSearch and Reranker.  What the pipeline takes   *)
(* from the profile and from the cache is in ProfileCache.                 *)
(***************************************************************************)
EXTENDS HybridSearch, Reranker

CONSTANTS
  ChunkTokens,   \* [Record -> Nat]: tokens of a chunk in the prompt
  ContextBudget  \* what preferences and profile leave of MaxContextTokens

ASSUME EnrichAssumption ==
  /\ ChunkTokens \in [Record -> Nat] /\ ContextBudget \in Nat
  /\ KeepK > 0 /\ RetrieveK <= MaxChunks

VARIABLES
  stage,     \* "search", "rerank" or "done"
  used,      \* meta.ChunksUsed, with the scores
  selected   \* the chunks of the prompt

enrichVars == <<searchVars, rerankVars, stage, used, selected>>

EnrichTypeOK ==
  /\ SearchTypeOK /\ RerankTypeOK
  /\ stage \in {"search", "rerank", "done"}
  /\ used \in Seq(Scored) /\ selected \in Seq(Scored)

EnrichInit == SearchInit /\ RerankInit /\ stage = "search" /\ used = <<>> /\ selected = <<>>

Retrieval == stage = "search" /\ SearchNext /\ UNCHANGED <<rerankVars, stage, used, selected>>

(* The goroutines of the search and what they worked with are gone. *)
BeginRerank ==
  /\ stage = "search" /\ retrieved
  /\ Rerank(candidates)
  /\ stage' = "rerank"
  /\ at' = [t \in Query |-> [kind \in Kind |-> "scan"]]
  /\ hits' = [t \in Query |-> [kind \in Kind |-> {}]] /\ found' = hits'
  /\ fused' = [t \in Query |-> {}]
  /\ steady' = {} /\ gone' = 0 /\ writes' = 0 /\ failures' = 0
  /\ UNCHANGED <<table, strategy, candidates, retrieved, used, selected>>

(* Goroutines of the reranker may outlive its call. *)
Reranking == RerankNext /\ UNCHANGED <<searchVars, stage, used, selected>>

Cut(q) == SubSeq(q, 1, Min({Len(q), KeepK}))

(* Chunks in the order of their scores, each taken if it still fits. *)
TakeIfFits(s, c) ==
  IF FoldLeft(LAMBDA n, d : n + ChunkTokens[d.id], ChunkTokens[c.id], s) <= ContextBudget
    THEN Append(s, c) ELSE s

Select(q) == FoldLeft(TakeIfFits, <<>>, q)

Use(q) ==
  /\ used' = Cut(q)
  /\ \E s \in {p \in SetToSeqs(ToSet(used')) : \A i, j \in DOMAIN p : i < j => p[i].score >= p[j].score} :
       selected' = Select(s)
  /\ stage' = "done"
  /\ UNCHANGED <<searchVars, rerankVars>>

UseReranked ==
  /\ stage = "rerank" /\ rerank = "returned"
  /\ \E q \in Ranked : Use([i \in DOMAIN q |-> [id |-> chunks[q[i]].id, score |-> score[q[i]]]])

(* Seeded bug: the error is logged and its empty result used. *)
FallBack_Empty ==
  /\ stage = "rerank" /\ rerank = "failed"
  /\ Use(<<>>)

(* The reranker failed: the original order. *)
FallBack ==
  /\ stage = "rerank" /\ rerank = "failed"
  /\ Use(candidates)

EnrichNext == Retrieval \/ BeginRerank \/ Reranking \/ UseReranked \/ FallBack

EnrichSpec == EnrichInit /\ [][EnrichNext]_enrichVars

(* Goroutines that can go on do. *)
EnrichFairSpec ==
  /\ EnrichSpec
  /\ \A n \in Chunk : WF_enrichVars(n \in Goroutine /\ ScorerNext(n) /\ UNCHANGED <<searchVars, stage, used, selected>>)

-----------------------------------------------------------------------------
(* What the code must achieve *)

(* The context of a prompt is sound whichever way the reranker ended: it is *)
(* a part of the candidates without repetition; after a failure their best  *)
(* ones in the order of retrieval; otherwise all chunks have a score, or as *)
(* many as are kept, or the time was up, and no chunk scored above the      *)
(* threshold was passed over for a worse one.                               *)
ContextIsSound ==
  stage = "done" =>
    LET ids == {used[i].id : i \in DOMAIN used}
        all == {scored[i] : i \in DOMAIN scored}
    IN /\ Len(used) <= KeepK /\ Cardinality(ids) = Len(used)
       /\ ids \subseteq {candidates[i].id : i \in DOMAIN candidates}
       /\ ToSet(selected) \subseteq ToSet(used)
       /\ rerank = "failed" => used = Cut(candidates)
       /\ rerank = "returned" =>
            /\ Cardinality(all) >= Min({KeepK, Len(chunks)}) \/ ctx = "timedOut"
            /\ Len(used) = Min({KeepK, Cardinality(Filtered)})
            /\ \A n \in Filtered, i \in DOMAIN used :
                 chunks[n].id \in ids \/ score[n] <= used[i].score

(* "On failure: returns originalScore so the chunk is not penalised": a     *)
(* chunk the model gave no score is not dropped by the threshold.           *)
FailureNotPenalised ==
  rerank = "returned" => \A i \in DOMAIN scored : scored[i] \in answered \cup Filtered
=============================================================================
