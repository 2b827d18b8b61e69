------------------------------ MODULE Reranker ------------------------------
(***************************************************************************)
(* LLMReranker.Rerank (internal/reranking/reranker.go): a goroutine for    *)
(* each chunk, of which some at a time may ask the model, a buffered       *)
(* channel for their scores, and a loop that collects the scores until all *)
(* goroutines have ended, enough chunks are scored, or the time is up.     *)
(* Where Go's select finds several cases ready it takes any of them.       *)
(***************************************************************************)
EXTENDS Integers, Sequences, FiniteSets

CONSTANTS
  MaxChunks,      \* bound: chunks of one call
  Concurrency,    \* 3: defaultConcurrency
  KeepK,          \* topK: the early return; 0 for none
  ScoreThreshold, \* threshold
  ModelScore      \* scores the model gives

ASSUME RerankAssumption ==
  /\ MaxChunks \in Nat /\ Concurrency \in Nat \ {0}
  /\ KeepK \in Nat /\ ScoreThreshold \in Nat /\ ModelScore \subseteq Nat

VARIABLES
  chunks,    \* the argument: sequence of [id, score]
  scorer,    \* [1 .. MaxChunks -> where the goroutine of a chunk is]
  score,     \* the score it got, or that of retrieval
  results,   \* the channel: numbers of chunks
  scored,    \* collected: numbers of chunks
  ctx,       \* timeoutCtx: "live", "timedOut" or "cancelled"
  rerank,    \* "off", "collect", "returned" or "failed"
  answered   \* history: chunks the model gave a score

rerankVars == <<chunks, scorer, score, results, scored, ctx, rerank, answered>>

Chunk == 1 .. MaxChunks
Goroutine == DOMAIN chunks

RerankTypeOK ==
  /\ scorer \in [Chunk -> {"none", "waiting", "scoring", "sending", "ended"}]
  /\ score \in [Chunk -> Nat]
  /\ results \in Seq(Chunk) /\ scored \in Seq(Chunk)
  /\ ctx \in {"live", "timedOut", "cancelled"}
  /\ rerank \in {"off", "collect", "returned", "failed"}
  /\ answered \subseteq Chunk

RerankInit ==
  /\ chunks = <<>>
  /\ scorer = [n \in Chunk |-> "none"] /\ score = [n \in Chunk |-> 0]
  /\ results = <<>> /\ scored = <<>>
  /\ ctx = "live" /\ rerank = "off" /\ answered = {}

(* No chunks, nothing to do. *)
Rerank(c) ==
  /\ rerank = "off"
  /\ chunks' = c
  /\ scorer' = [n \in Chunk |-> IF n \in DOMAIN c THEN "waiting" ELSE "none"]
  /\ score' = [n \in Chunk |-> IF n \in DOMAIN c THEN c[n].score ELSE 0]
  /\ rerank' = IF c = <<>> THEN "returned" ELSE "collect"
  /\ UNCHANGED <<results, scored, ctx, answered>>

(* Early return at topK, unless that is all. *)
earlyReturnAt == IF KeepK < Len(chunks) THEN KeepK ELSE 0

-----------------------------------------------------------------------------
(* A goroutine *)

Goes(n, state) == scorer' = [scorer EXCEPT ![n] = state]

(* The slot may be taken after the context has ended. *)
Acquire(n) ==
  /\ scorer[n] = "waiting"
  /\ Cardinality({m \in Chunk : scorer[m] \in {"scoring", "sending"}}) < Concurrency
  /\ Goes(n, "scoring")
  /\ UNCHANGED <<chunks, score, results, scored, ctx, rerank, answered>>

GiveUpWaiting(n) ==
  /\ scorer[n] = "waiting" /\ ctx # "live"
  /\ Goes(n, "ended")
  /\ UNCHANGED <<chunks, score, results, scored, ctx, rerank, answered>>

(* An answer; the context is looked at before the result is sent. *)
Answered(n, s) ==
  /\ scorer[n] = "scoring" /\ ctx = "live"
  /\ score' = [score EXCEPT ![n] = s]
  /\ answered' = answered \cup {n}
  /\ Goes(n, "sending")
  /\ UNCHANGED <<chunks, results, scored, ctx, rerank>>

(* The call fails or its answer is not JSON: the score of retrieval stays.  *)
ScoreFails(n) ==
  /\ scorer[n] = "scoring" /\ ctx = "live"
  /\ Goes(n, "sending")
  /\ UNCHANGED <<chunks, score, results, scored, ctx, rerank, answered>>

(* A JSON object without the key counts as the score 0. *)
ScoreMissing(n) ==
  /\ scorer[n] = "scoring" /\ ctx = "live"
  /\ score' = [score EXCEPT ![n] = 0]
  /\ Goes(n, "sending")
  /\ UNCHANGED <<chunks, results, scored, ctx, rerank, answered>>

Interrupted(n) ==
  /\ scorer[n] = "scoring" /\ ctx # "live"
  /\ Goes(n, "ended")
  /\ UNCHANGED <<chunks, score, results, scored, ctx, rerank, answered>>

(* Seeded bug: the channel has no buffer, a send waits for the loop. *)
Send_Unbuffered(n) ==
  /\ scorer[n] = "sending" /\ rerank = "collect" /\ results = <<>>
  /\ results' = Append(results, n)
  /\ Goes(n, "ended")
  /\ UNCHANGED <<chunks, score, scored, ctx, rerank, answered>>

(* The channel has room for all; the context may have ended meanwhile. *)
Send(n) ==
  /\ scorer[n] = "sending" /\ Len(results) < Len(chunks)
  /\ results' = Append(results, n)
  /\ Goes(n, "ended")
  /\ UNCHANGED <<chunks, score, scored, ctx, rerank, answered>>

-----------------------------------------------------------------------------
(* The loop *)

(* The function returns: cancel runs. *)
Returns(how) == rerank' = how /\ ctx' = IF ctx = "live" THEN "cancelled" ELSE ctx

Collect ==
  /\ rerank = "collect" /\ results # <<>>
  /\ scored' = Append(scored, Head(results))
  /\ results' = Tail(results)
  /\ IF earlyReturnAt > 0 /\ Len(scored') >= earlyReturnAt
       THEN Returns("returned")
       ELSE UNCHANGED <<rerank, ctx>>
  /\ UNCHANGED <<chunks, scorer, score, answered>>

(* All goroutines have ended: the channel is closed and empty. *)
Closed ==
  /\ rerank = "collect" /\ results = <<>> /\ \A n \in Goroutine : scorer[n] = "ended"
  /\ Returns("returned")
  /\ UNCHANGED <<chunks, scorer, score, results, scored, answered>>

(* The time is up, or the request was cancelled. *)
Timeout ==
  /\ rerank = "collect" /\ ctx = "live"
  /\ ctx' = "timedOut"
  /\ UNCHANGED <<chunks, scorer, score, results, scored, rerank, answered>>

TimedOut ==
  /\ rerank = "collect" /\ ctx = "timedOut"
  /\ rerank' = "failed"
  /\ UNCHANGED <<chunks, scorer, score, results, scored, ctx, answered>>

(* Chunks below the threshold are dropped, the others sorted by score; any  *)
(* of equal scores may come first.                                          *)
Filtered == {n \in {scored[i] : i \in DOMAIN scored} : score[n] >= ScoreThreshold}

Ranked ==
  {q \in [1 .. Cardinality(Filtered) -> Filtered] :
     /\ \A n \in Filtered : \E i \in DOMAIN q : q[i] = n
     /\ \A i, j \in DOMAIN q : i < j => score[q[i]] >= score[q[j]]}

ScorerNext(n) ==
  \/ Acquire(n) \/ GiveUpWaiting(n) \/ ScoreFails(n) \/ ScoreMissing(n)
  \/ Interrupted(n) \/ Send(n)
  \/ \E s \in ModelScore : Answered(n, s)

RerankNext == (\E n \in Goroutine : ScorerNext(n)) \/ Collect \/ Closed \/ Timeout \/ TimedOut

-----------------------------------------------------------------------------
(* Whatever ends the loop, the goroutines end: nobody reads the channel any *)
(* more, and none of them waits for that.                                   *)
EveryScorerEnds ==
  \A n \in Chunk : scorer[n] = "waiting" ~> scorer[n] = "ended"
=============================================================================
