---------------------------- MODULE HybridSearch ----------------------------
(***************************************************************************)
(* Retrieval of context for a question (internal/retrieval/store.go,       *)
(* retriever.go).  The question and each entity found in it is searched    *)
(* for on its own goroutine, by similarity of embeddings and, unless the   *)
(* intent asks for vectors only or the text is empty, by keywords; the two *)
(* rankings are fused, and the results of all texts are reduced to the     *)
(* best record of each source.  A search is two queries, a scan that ranks *)
(* ids and a fetch of their records; ingestion, deletion and feedback      *)
(* write in between.                                                       *)
(*                                                                         *)
(* Scores are integers: One stands for 1.0.  Similarities, qualities and   *)
(* weights come in tenths.  Of equal scores any may come first: heap, map  *)
(* and sort promise no order.                                              *)
(***************************************************************************)
EXTENDS Integers, SequencesExt, FiniteSetsExt

CONSTANTS
  Record,      \* ids of context_vectors that may exist
  SourceOf,    \* [Record -> its source_id]
  Stored,      \* records there at the beginning
  Query,       \* the texts searched for: the question and its entities
  Empty,       \* those that are the empty string
  Similarity,  \* [Query -> [Record -> 0 .. 10]]: cosine
  Relevance,   \* [Query -> [Record -> Nat]]: BM25, 0 without a match
  Quality,     \* values of quality_score
  RetrieveK,   \* the topK of RetrieveForIntent
  Widen,       \* 4: candidates per search for one result
  Strategy,    \* strategies the intent may ask for
  HybridRatio, \* [Strategy -> {} or {the ratio the intent gives with it}]
  MaxWrites, MaxFailures  \* bounds

ASSUME SearchAssumption ==
  /\ IsFiniteSet(Record) /\ IsFiniteSet(Query)
  /\ Stored \subseteq Record /\ Empty \subseteq Query
  /\ Similarity \in [Query -> [Record -> 0 .. 10]]
  /\ Relevance \in [Query -> [Record -> Nat]]
  /\ Quality \subseteq 1 .. 20 /\ 10 \in Quality
  /\ RetrieveK \in Nat \ {0} /\ Widen \in Nat \ {0}
  /\ Strategy \subseteq {"vector_only", "hybrid", "keyword_heavy"}
  /\ HybridRatio \in [Strategy -> SUBSET Int]
  /\ MaxWrites \in Nat /\ MaxFailures \in Nat

VARIABLES
  records,     \* context_vectors
  quality,     \* quality_score of each record
  strategy,    \* of the request, or "none" before it
  at,          \* [Query -> [Kind -> where a search is]]
  hits,        \* what its scan found: set of [id, score]
  found,       \* its result: set of [id, score]
  fused,       \* [Query -> {} or the result for the text, as {result}]
  candidates,  \* what RetrieveForIntent returned
  retrieved,   \* it has returned
  writes, failures,
  steady,      \* history: records there since the request began
  gone         \* history: number of deletions since

table == <<records, quality>>
searching == <<at, hits, found, fused>>
searchVars == <<table, strategy, searching, candidates, retrieved, writes, failures, steady, gone>>

Kind == {"vector", "keyword"}
Scored == [id : Record, score : Nat]

SearchTypeOK ==
  /\ records \subseteq Record /\ quality \in [Record -> Quality]
  /\ strategy \in Strategy \cup {"none"}
  /\ at \in [Query -> [Kind -> {"scan", "fetch", "done", "failed"}]]
  /\ hits \in [Query -> [Kind -> SUBSET Scored]]
  /\ found \in [Query -> [Kind -> SUBSET Scored]]
  /\ fused \in [Query -> SUBSET SUBSET Scored]
  /\ candidates \in Seq(Scored) /\ retrieved \in BOOLEAN
  /\ writes \in 0 .. MaxWrites /\ failures \in 0 .. MaxFailures
  /\ steady \subseteq records /\ gone \in Nat

SearchInit ==
  /\ records = Stored /\ quality = [r \in Record |-> 10]
  /\ strategy = "none"
  /\ at = [t \in Query |-> [kind \in Kind |-> "scan"]]
  /\ hits = [t \in Query |-> [kind \in Kind |-> {}]] /\ found = hits
  /\ fused = [t \in Query |-> {}]
  /\ candidates = <<>> /\ retrieved = FALSE
  /\ writes = 0 /\ failures = 0
  /\ steady = Stored /\ gone = 0

-----------------------------------------------------------------------------
(* Ranking *)

(* 61 * 62 * 63 * 64: the shares of the first four ranks are whole numbers. *)
RankUnit == 15249024
One == 10 * RankUnit

(* The sets of the k best; more than one when scores are equal. *)
TopSets(S, k) ==
  {T \in kSubset(Min({k, Cardinality(S)}), S) : \A a \in T, b \in S \ T : a.score >= b.score}

(* The orders sort.Slice may leave: descending scores. *)
Sorted(S) ==
  {q \in SetToSeqs(S) : \A i, j \in DOMAIN q : i < j => q[i].score >= q[j].score}

VectorScore(t, r) == Similarity[t][r] * quality[r] * (RankUnit \div 10)

(* Ranks are normalized over the matches the query returned, twice as many  *)
(* as are kept: the best is 1, the worst 0, all are 1 if they are equal.    *)
Normalized(M, m) ==
  LET low == Min({n.score : n \in M})
      high == Max({n.score : n \in M})
  IN IF low = high THEN RankUnit ELSE (RankUnit * (m.score - low)) \div (high - low)

(* The ratio of the intent, clamped to 0 and 1, or that of the strategy.    *)
VectorWeight ==
  IF HybridRatio[strategy] # {}
    THEN LET ratio == CHOOSE h \in HybridRatio[strategy] : TRUE
         IN IF ratio < 0 THEN 0 ELSE IF ratio > 10 THEN 10 ELSE ratio
    ELSE IF strategy = "keyword_heavy" THEN 3 ELSE 7

(* Reciprocal rank fusion with k = 60: a record has its place in each of    *)
(* the rankings it is in.                                                   *)
Share(q, weight, r) ==
  LET P == {i \in DOMAIN q : q[i].id = r}
  IN IF P = {} THEN 0 ELSE weight * (RankUnit \div (60 + CHOOSE i \in P : TRUE))

Fusion(v, k) ==
  {[id |-> r, score |-> Share(v, VectorWeight, r) + Share(k, 10 - VectorWeight, r)] :
     r \in {v[i].id : i \in DOMAIN v} \cup {k[i].id : i \in DOMAIN k}}

(* Seeded bug: the list is cut before duplicates are removed. *)
deduplicateAndTrim_CutFirst(S) ==
  LET best(T) == {a \in T : \A b \in T : SourceOf[b.id] = SourceOf[a.id] => a.score >= b.score}
      one(T) == {U \in SUBSET T : \A a, b \in U : SourceOf[a.id] = SourceOf[b.id] => a = b}
      most(T) == {U \in one(T) : \A V \in one(T) : Cardinality(V) <= Cardinality(U)}
  IN UNION {UNION {Sorted(U) : U \in most(best(T))} : T \in TopSets(S, RetrieveK)}

(* The best record of each source, sorted and cut. *)
deduplicateAndTrim(S) ==
  LET best == {a \in S : \A b \in S : SourceOf[b.id] = SourceOf[a.id] => a.score >= b.score}
      one == {U \in SUBSET best : \A a \in best : \E b \in U : SourceOf[b.id] = SourceOf[a.id]
                                                   /\ \A c \in U : SourceOf[c.id] = SourceOf[b.id] => c = b}
  IN UNION {UNION {Sorted(T) : T \in TopSets(U, RetrieveK)} : U \in one}

-----------------------------------------------------------------------------
(* The request *)

RetrieveForIntent(s) ==
  /\ strategy = "none"
  /\ strategy' = s
  /\ steady' = records /\ gone' = 0
  /\ UNCHANGED <<table, searching, candidates, retrieved, writes, failures>>

Searching == strategy # "none" /\ ~retrieved

(* Twice the results with entities and vectors only, else Widen times as    *)
(* many, of which each of the two searches gets Widen times as many again.  *)
PerSearchK ==
  IF strategy = "vector_only"
    THEN IF Cardinality(Query) > 1 THEN 2 * RetrieveK ELSE RetrieveK
    ELSE Widen * RetrieveK

OnlyVectors(t) == strategy = "vector_only" \/ t \in Empty

SearchK(t) == IF OnlyVectors(t) THEN PerSearchK ELSE Widen * PerSearchK

Scan(t, kind) ==
  /\ Searching /\ fused[t] = {} /\ at[t][kind] = "scan"
  /\ at' = [at EXCEPT ![t][kind] = "fetch"]
  /\ UNCHANGED <<table, strategy, found, fused, candidates, retrieved, writes, failures, steady, gone>>

VectorScan(t) ==
  /\ Scan(t, "vector")
  /\ \E H \in TopSets({[id |-> r, score |-> VectorScore(t, r)] : r \in records}, SearchK(t)) :
       hits' = [hits EXCEPT ![t]["vector"] = H]

KeywordScan(t) ==
  /\ ~OnlyVectors(t) /\ Scan(t, "keyword")
  /\ LET All == {[id |-> r, score |-> Relevance[t][r]] : r \in {q \in records : Relevance[t][q] > 0}}
     IN \E M \in TopSets(All, 2 * SearchK(t)) : \E H \in TopSets(M, SearchK(t)) :
          hits' = [hits EXCEPT ![t]["keyword"] =
                     {[id |-> m.id, score |-> Normalized(M, m)] : m \in H}]

(* Of the ids, those that still have a record. *)
Fetch(t, kind, S) ==
  /\ Searching /\ at[t][kind] = "fetch"
  /\ at' = [at EXCEPT ![t][kind] = "done"]
  /\ found' = [found EXCEPT ![t][kind] = S]
  /\ UNCHANGED <<table, strategy, hits, fused, candidates, retrieved, writes, failures, steady, gone>>

VectorFetch(t) == Fetch(t, "vector", {h \in hits[t]["vector"] : h.id \in records})

(* The keyword score takes the quality of the moment of the fetch. *)
KeywordFetch(t) ==
  Fetch(t, "keyword", {[h EXCEPT !.score = @ * quality[h.id]] :
                         h \in {g \in hits[t]["keyword"] : g.id \in records}})

(* An error, or, of a search for vectors, an embedding whose norm is zero:  *)
(* nothing is found.                                                        *)
SearchFails(t, kind) ==
  /\ Searching /\ at[t][kind] \in {"scan", "fetch"} /\ fused[t] = {}
  /\ OnlyVectors(t) => kind = "vector"
  /\ failures < MaxFailures /\ failures' = failures + 1
  /\ at' = [at EXCEPT ![t][kind] = "failed"]
  /\ UNCHANGED <<table, strategy, hits, found, fused, candidates, retrieved, writes, steady, gone>>

(* A text that cannot be embedded is skipped. *)
EmbedFails(t) ==
  /\ Searching /\ fused[t] = {} /\ \A kind \in Kind : at[t][kind] = "scan"
  /\ failures < MaxFailures /\ failures' = failures + 1
  /\ fused' = [fused EXCEPT ![t] = {{}}]
  /\ at' = [at EXCEPT ![t] = [kind \in Kind |-> "failed"]]
  /\ UNCHANGED <<table, strategy, hits, found, candidates, retrieved, writes, steady, gone>>

Ended(t, kind) == at[t][kind] \in {"done", "failed"}

SearchDone(t, S) ==
  /\ Searching /\ fused[t] = {}
  /\ fused' = [fused EXCEPT ![t] = {S}]
  /\ UNCHANGED <<table, strategy, at, hits, found, candidates, retrieved, writes, failures, steady, gone>>

(* One ranking is enough; a search that failed has found nothing. *)
SearchHybrid(t) ==
  /\ ~OnlyVectors(t) /\ \A kind \in Kind : Ended(t, kind)
  /\ \E v \in Sorted(found[t]["vector"]), k \in Sorted(found[t]["keyword"]) :
       \E S \in TopSets(Fusion(v, k), PerSearchK) : SearchDone(t, S)

SearchVectorOnly(t) ==
  /\ OnlyVectors(t) /\ Ended(t, "vector")
  /\ SearchDone(t, found[t]["vector"])

Merge ==
  /\ Searching /\ \A t \in Query : fused[t] # {}
  /\ \E c \in deduplicateAndTrim(UNION {UNION fused[t] : t \in Query}) : candidates' = c
  /\ retrieved' = TRUE
  /\ UNCHANGED <<table, strategy, searching, writes, failures, steady, gone>>

-----------------------------------------------------------------------------
(* Writes while the request searches; later ones do not reach it.           *)

Write ==
  /\ Searching /\ writes < MaxWrites /\ writes' = writes + 1
  /\ UNCHANGED <<strategy, searching, candidates, retrieved, failures>>

Insert(r) == r \notin records /\ records' = records \cup {r} /\ Write /\ UNCHANGED <<quality, steady, gone>>

DeleteRecord(r) ==
  /\ r \in records /\ records' = records \ {r}
  /\ steady' = steady \ {r} /\ gone' = gone + 1
  /\ Write /\ UNCHANGED quality

AdjustQualityScores(r, q) ==
  /\ r \in records /\ quality[r] # q /\ quality' = [quality EXCEPT ![r] = q]
  /\ Write /\ UNCHANGED <<records, steady, gone>>

SearchNext ==
  \/ \E s \in Strategy : RetrieveForIntent(s)
  \/ \E t \in Query : \/ VectorScan(t) \/ KeywordScan(t) \/ VectorFetch(t) \/ KeywordFetch(t)
                      \/ EmbedFails(t) \/ SearchHybrid(t) \/ SearchVectorOnly(t)
                      \/ \E kind \in Kind : SearchFails(t, kind)
  \/ Merge
  \/ \E r \in Record : Insert(r) \/ DeleteRecord(r) \/ \E q \in Quality : AdjustQualityScores(r, q)

-----------------------------------------------------------------------------
Sources(S) == {SourceOf[r] : r \in S}

(* No source is returned twice, the best come first, and the list is as     *)
(* long as it can be: it is shorter than asked for only by records deleted  *)
(* between scan and fetch, by second records of one source that took places *)
(* of other sources in a search, and by failed searches, of which a         *)
(* successful one over vectors makes up for all.                            *)
CandidatesComplete ==
  retrieved =>
    LET ids == {candidates[i].id : i \in DOMAIN candidates}
        doubles == Cardinality(Record) - Cardinality(Sources(Record))
    IN /\ Cardinality(Sources(ids)) = Len(candidates) /\ Len(candidates) <= RetrieveK
       /\ \A i, j \in DOMAIN candidates : i < j => candidates[i].score >= candidates[j].score
       /\ (\E t \in Query : at[t]["vector"] = "done") =>
            Len(candidates) + gone >= Min({RetrieveK, Cardinality(Sources(steady)), PerSearchK - doubles})
=============================================================================
