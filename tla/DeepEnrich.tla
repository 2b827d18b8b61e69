----------------------------- MODULE DeepEnrich -----------------------------
(***************************************************************************)
(* The second pass over ingested documents (internal/synthesis/            *)
(* deep_worker.go, grouper.go, batcher.go).  A document is stored with a   *)
(* job ingest_deep_enrich.  A pass puts back the jobs an earlier pass left *)
(* running for too long, claims a number of pending ones, loads their      *)
(* documents, groups these by topic, packs each group into batches, asks a *)
(* model once for a batch, and updates document and job one by one.  Every *)
(* call may fail, documents may be deleted under the pass, the server may  *)
(* be told to stop (the context is cancelled) and may crash.               *)
(*                                                                         *)
(* A job is named by its document, as each document gets one.  The backoff *)
(* and the order of claims are in JobQueue: here any pending jobs may be   *)
(* claimed, in any order.  The ticker, the idle detector and the scheduled *)
(* hour decide when a pass begins: here it may begin whenever none is on.  *)
(***************************************************************************)
EXTENDS Integers, SequencesExt, FiniteSetsExt

CONSTANTS
  Doc,          \* context documents; a document is its own id
  Topic,        \* tags of documents
  FirstTags,    \* [Doc -> sets of topics the document may come with]
  Tokens,       \* [Doc -> Nat]: estimateDocTokens
  MaxTokens,    \* budget of a batch
  ClaimLimit,   \* claimLimit
  Answer,       \* what the model may return: [docs, topics, refs]
  MaxAttempts,  \* max_attempts of the jobs
  MaxFaults     \* bound: failed calls, deletions, stops and crashes, together

ASSUME DeepAssumption ==
  /\ IsFiniteSet(Doc)
  /\ FirstTags \in [Doc -> SUBSET (SUBSET Topic)]
  /\ Tokens \in [Doc -> Nat] /\ MaxTokens \in Nat \ {0}
  /\ ClaimLimit \in Nat \ {0}
  /\ Answer \subseteq [docs : SUBSET Doc, topics : SUBSET Topic, refs : SUBSET Doc]
  /\ MaxAttempts \in Nat \ {0}
  /\ MaxFaults \in Nat

VARIABLES
  docs,        \* documents in the table
  tags,        \* column tags
  deep,        \* column deep_metadata: {} or the cross references, as {refs}
  job,         \* [Doc -> [state, attempts]]
  old,         \* running jobs whose updated_at is more than 30 minutes ago
  cancelled,   \* ctx.Err() # nil
  pc,          \* where Run is
  claimed,     \* jobs still to be loaded, in the order of the claim
  loaded,      \* documents as they were read: sequence of [id, tags]
  unresolved,  \* refByDocID
  groups,      \* groups not yet begun
  batches,     \* batches of the current group not yet begun
  batch,       \* documents of the current batch without outcome
  answer,      \* what the model returned for it, cut to the batch
  faults,
  stranded,    \* history: jobs a pass left running
  unanswered   \* history: documents the model returned nothing for

tables == <<docs, tags, deep, job, old>>
work == <<claimed, loaded, unresolved, groups, batches, batch, answer>>
history == <<stranded, unanswered>>
vars == <<tables, cancelled, pc, work, faults, history>>

Snapshot == [id : Doc, tags : SUBSET Topic]
Ids(s) == {s[n].id : n \in DOMAIN s}

TypeOK ==
  /\ docs \subseteq Doc /\ tags \in [Doc -> SUBSET Topic]
  /\ deep \in [Doc -> SUBSET (SUBSET Doc)]
  /\ job \in [Doc -> [state : {"none", "pending", "running", "completed", "failed"},
                      attempts : 0 .. MaxAttempts]]
  /\ old \subseteq {d \in Doc : job[d].state = "running"}
  /\ cancelled \in BOOLEAN
  /\ pc \in {"idle", "claim", "load", "group", "batch", "call", "apply", "fail", "leftover"}
  /\ claimed \in Seq(Doc) /\ loaded \in Seq(Snapshot)
  /\ unresolved \subseteq Doc
  /\ groups \subseteq Seq(Snapshot) /\ batches \in Seq(Seq(Snapshot))
  /\ batch \in Seq(Snapshot)
  /\ answer \in [docs : SUBSET Doc, topics : SUBSET Topic, refs : SUBSET Doc]
  /\ faults \in 0 .. MaxFaults
  /\ stranded \subseteq Doc /\ unanswered \subseteq Doc

NoAnswer == [docs |-> {}, topics |-> {}, refs |-> {}]

Init ==
  /\ docs = {} /\ tags = [d \in Doc |-> {}]
  /\ deep = [d \in Doc |-> {}]
  /\ job = [d \in Doc |-> [state |-> "none", attempts |-> 0]]
  /\ old = {} /\ cancelled = FALSE /\ pc = "idle"
  /\ claimed = <<>> /\ loaded = <<>> /\ unresolved = {}
  /\ groups = {} /\ batches = <<>> /\ batch = <<>> /\ answer = NoAnswer
  /\ faults = 0 /\ stranded = {} /\ unanswered = {}

-----------------------------------------------------------------------------
(* GroupByTopics and BatchDocuments *)

(* Jaccard similarity above three tenths. *)
jaccard(A, B) == 10 * Cardinality(A \cap B) > 3 * Cardinality(A \cup B)

Similar(a, b) == a.tags # {} /\ b.tags # {} /\ jaccard(a.tags, b.tags)

(* Seeded bug: of the two elements only one moves, not what was united with *)
(* it before.                                                               *)
Union_Element(P, i, j) == {IF j \in X THEN X \cup {i} ELSE X \ {i} : X \in P} \ {{}}

(* The union-find forest as the partition it stands for. *)
Union(P, i, j) ==
  {X \in P : {i, j} \cap X = {}} \cup {UNION {X \in P : {i, j} \cap X # {}}}

SimilarPairs(s) ==
  {p \in (DOMAIN s) \X (DOMAIN s) : p[1] < p[2] /\ Similar(s[p[1]], s[p[2]])}

(* groupID after the two loops over all pairs i < j. *)
GroupID(s) ==
  LET Unite(p, P) == Union(P, p[1], p[2])
  IN FoldSet(Unite, {{i} : i \in DOMAIN s}, SimilarPairs(s))

(* The members of a group keep the order of the documents; those without    *)
(* topics are one group, the mixed one.                                     *)
Members(s, I) ==
  [k \in 1 .. Cardinality(I) |-> s[CHOOSE i \in I : Cardinality({j \in I : j <= i}) = k]]

Mixed(s) == {i \in DOMAIN s : s[i].tags = {}}

GroupByTopics(s) ==
  {Members(s, I) : I \in {J \in GroupID(s) : ~(J \subseteq Mixed(s))}}
  \cup {Members(s, I) : I \in {Mixed(s)} \ {{}}}

Sum(s) == FoldLeft(LAMBDA n, d : n + Tokens[d.id], 0, s)

(* The list of batches, with the open one if there is something in it.      *)
Close(p) == IF p.current = <<>> THEN p.done ELSE Append(p.done, p.current)

(* Seeded bug: a document that overflows the budget pushes the open batch   *)
(* out of the list.                                                         *)
Pack_Drops(p, d) ==
  IF Tokens[d.id] >= MaxTokens
    THEN [done |-> Append(p.done, <<d>>), current |-> <<>>]
    ELSE [p EXCEPT !.current = Append(@, d)]

(* A document that overflows the budget is a batch of its own; one that no  *)
(* longer fits closes the open batch.                                       *)
Pack(p, d) ==
  IF Tokens[d.id] >= MaxTokens
    THEN [done |-> Append(Close(p), <<d>>), current |-> <<>>]
    ELSE IF Sum(p.current) + Tokens[d.id] > MaxTokens
      THEN [done |-> Close(p), current |-> <<d>>]
      ELSE [p EXCEPT !.current = Append(@, d)]

BatchDocuments(s) == Close(FoldLeft(Pack, [done |-> <<>>, current |-> <<>>], s))

-----------------------------------------------------------------------------
(* Jobs *)

Fault == faults < MaxFaults /\ faults' = faults + 1

(* Seeded bug: the attempt is not counted. *)
Failed_NotCounted(j) == [attempts |-> j.attempts, state |-> "pending"]

Failed(j) ==
  [attempts |-> j.attempts + 1,
   state |-> IF j.attempts + 1 >= MaxAttempts THEN "failed" ELSE "pending"]

FailJob(d) == job' = [job EXCEPT ![d] = Failed(@)] /\ UNCHANGED <<stranded, faults>>

CompleteJob(d) == job' = [job EXCEPT ![d].state = "completed"] /\ UNCHANGED <<stranded, faults>>

(* The error of CompleteJob and FailJob is dropped: the row stays running. *)
VerdictLost(d) == Fault /\ stranded' = stranded \cup {d} /\ UNCHANGED job

FailJobOrNot(d) == FailJob(d) \/ VerdictLost(d)
CompleteJobOrNot(d) == CompleteJob(d) \/ VerdictLost(d)

-----------------------------------------------------------------------------
(* The user and the machine *)

(* The ingest handler: the document, then its job.  That the second insert  *)
(* fails is only logged; such a document plays no part here.                *)
Ingest(d) ==
  /\ job[d].state = "none"
  /\ docs' = docs \cup {d}
  /\ \E T \in FirstTags[d] : tags' = [tags EXCEPT ![d] = T]
  /\ job' = [job EXCEPT ![d].state = "pending"]
  /\ UNCHANGED <<deep, old, cancelled, pc, work, faults, history>>

Delete(d) ==
  /\ d \in docs /\ Fault
  /\ docs' = docs \ {d}
  /\ UNCHANGED <<tags, deep, job, old, cancelled, pc, work, history>>

(* Half an hour passes for a job that no pass holds. *)
GrowsOld(d) ==
  /\ d \in stranded /\ d \notin old
  /\ old' = old \cup {d}
  /\ UNCHANGED <<docs, tags, deep, job, cancelled, pc, work, faults, history>>

Stop ==
  /\ ~cancelled /\ Fault
  /\ cancelled' = TRUE
  /\ UNCHANGED <<tables, pc, work, history>>

WorkIsOver ==
  /\ pc' = "idle"
  /\ claimed' = <<>> /\ loaded' = <<>> /\ unresolved' = {}
  /\ groups' = {} /\ batches' = <<>> /\ batch' = <<>> /\ answer' = NoAnswer

Restart ==
  /\ cancelled /\ pc = "idle"
  /\ cancelled' = FALSE
  /\ UNCHANGED <<tables, pc, work, faults, history>>

(* Jobs in the hands of the pass. *)
InHand == ToSet(claimed) \cup (IF pc = "load" THEN Ids(loaded) ELSE unresolved)

Crash ==
  /\ pc # "idle" /\ Fault
  /\ stranded' = stranded \cup InHand
  /\ cancelled' = FALSE
  /\ WorkIsOver
  /\ UNCHANGED <<tables, unanswered>>

-----------------------------------------------------------------------------
(* Run: reset, claim, load *)

(* Seeded bug: no row is old enough. *)
ResetStaleJobs_None ==
  /\ pc = "idle" /\ ~cancelled
  /\ pc' = "claim"
  /\ UNCHANGED <<tables, cancelled, work, faults, history>>

(* An error is logged and the pass goes on. *)
ResetStaleJobs ==
  /\ pc = "idle" /\ ~cancelled
  /\ \/ /\ job' = [d \in Doc |-> IF d \in old THEN Failed(job[d]) ELSE job[d]]
        /\ old' = {} /\ stranded' = stranded \ old
        /\ UNCHANGED faults
     \/ Fault /\ UNCHANGED <<job, old, stranded>>
  /\ pc' = "claim"
  /\ UNCHANGED <<docs, tags, deep, cancelled, work, unanswered>>

Pending == {d \in Doc : job[d].state = "pending"}

ClaimJobs ==
  /\ pc = "claim"
  /\ \E S \in SUBSET Pending :
       /\ S # {} /\ (Cardinality(S) = ClaimLimit \/ (S = Pending /\ Cardinality(S) < ClaimLimit))
       /\ \E s \in SetToSeqs(S) : claimed' = s
       /\ job' = [d \in Doc |-> IF d \in S THEN [job[d] EXCEPT !.state = "running"] ELSE job[d]]
  /\ pc' = "load"
  /\ UNCHANGED <<docs, tags, deep, old, cancelled, loaded, unresolved, groups, batches, batch, answer,
                 faults, history>>

NothingClaimed ==
  /\ pc = "claim" /\ ((Pending = {} /\ UNCHANGED faults) \/ Fault)
  /\ pc' = "idle"
  /\ UNCHANGED <<tables, cancelled, work, history>>

LoadUnchanged == UNCHANGED <<docs, tags, deep, old, cancelled, unresolved, groups, batches, batch, answer>>

GetContextDoc ==
  /\ pc = "load" /\ claimed # <<>> /\ ~cancelled /\ Head(claimed) \in docs
  /\ loaded' = Append(loaded, [id |-> Head(claimed), tags |-> tags[Head(claimed)]])
  /\ claimed' = Tail(claimed)
  /\ UNCHANGED <<job, pc, faults, history>> /\ LoadUnchanged

(* The document is gone, or reading it fails. *)
GetContextDocFails ==
  /\ pc = "load" /\ claimed # <<>> /\ ~cancelled
  /\ \/ Head(claimed) \notin docs /\ FailJobOrNot(Head(claimed))
     \/ Head(claimed) \in docs /\ Fault
        /\ job' = [job EXCEPT ![Head(claimed)] = Failed(@)] /\ UNCHANGED stranded
  /\ claimed' = Tail(claimed)
  /\ UNCHANGED <<loaded, pc, unanswered>> /\ LoadUnchanged

(* Told to stop while loading: the jobs not yet loaded are failed, ... *)
FailUnloaded ==
  /\ pc = "load" /\ claimed # <<>> /\ cancelled
  /\ FailJobOrNot(Head(claimed))
  /\ claimed' = Tail(claimed)
  /\ UNCHANGED <<loaded, pc, unanswered>> /\ LoadUnchanged

(* ... and the loaded ones are left as they are. *)
CancelledInLoad ==
  /\ pc = "load" /\ claimed = <<>> /\ cancelled
  /\ stranded' = stranded \cup Ids(loaded)
  /\ WorkIsOver
  /\ UNCHANGED <<tables, cancelled, faults, unanswered>>

NothingLoaded ==
  /\ pc = "load" /\ claimed = <<>> /\ ~cancelled /\ loaded = <<>>
  /\ WorkIsOver
  /\ UNCHANGED <<tables, cancelled, faults, history>>

FormGroups ==
  /\ pc = "load" /\ claimed = <<>> /\ ~cancelled /\ loaded # <<>>
  /\ groups' = GroupByTopics(loaded)
  /\ unresolved' = Ids(loaded)
  /\ pc' = "group"
  /\ UNCHANGED <<tables, cancelled, claimed, loaded, batches, batch, answer, faults, history>>

-----------------------------------------------------------------------------
(* Run: batches *)

IsMixed(g) == g[1].tags = {}

(* The groups of a map come in any order, the mixed one last. *)
NextGroup(g) ==
  /\ pc = "group" /\ ~cancelled /\ g \in groups /\ (IsMixed(g) => groups = {g})
  /\ groups' = groups \ {g}
  /\ batches' = BatchDocuments(g)
  /\ pc' = "batch"
  /\ UNCHANGED <<tables, cancelled, claimed, loaded, unresolved, batch, answer, faults, history>>

GroupsDone ==
  /\ pc = "group" /\ (cancelled \/ groups = {})
  /\ pc' = "leftover"
  /\ UNCHANGED <<tables, cancelled, work, faults, history>>

NextBatch ==
  /\ pc = "batch" /\ ~cancelled /\ batches # <<>>
  /\ batch' = Head(batches) /\ batches' = Tail(batches)
  /\ pc' = "call"
  /\ UNCHANGED <<tables, cancelled, claimed, loaded, unresolved, groups, answer, faults, history>>

BatchesDone ==
  /\ pc = "batch" /\ (cancelled \/ batches = <<>>)
  /\ pc' = "group"
  /\ UNCHANGED <<tables, cancelled, work, faults, history>>

(* Ids outside the batch are ignored, as results and as references. *)
EnrichBatch(a) ==
  /\ pc = "call"
  /\ answer' = [a EXCEPT !.docs = @ \cap Ids(batch), !.refs = @ \cap Ids(batch)]
  /\ pc' = "apply"
  /\ UNCHANGED <<tables, cancelled, claimed, loaded, unresolved, groups, batches, batch, faults, history>>

(* The call fails, times out, is cancelled, or the answer cannot be parsed. *)
EnrichFails ==
  /\ pc = "call"
  /\ IF cancelled THEN UNCHANGED faults ELSE Fault
  /\ pc' = "fail"
  /\ UNCHANGED <<tables, cancelled, work, history>>

(* The code passes over a document that refByDocID no longer holds: there   *)
(* is none, as PassLosesNothing says.                                       *)
This == Head(batch).id

Resolve ==
  /\ unresolved' = unresolved \ {This}
  /\ batch' = Tail(batch)
  /\ UNCHANGED <<docs, old, cancelled, claimed, loaded, groups, batches, answer, pc>>

FailBatch ==
  /\ pc = "fail" /\ batch # <<>>
  /\ FailJobOrNot(This)
  /\ Resolve /\ UNCHANGED <<tags, deep, unanswered>>

(* A document without a result is done with. *)
NoResult ==
  /\ pc = "apply" /\ batch # <<>> /\ This \notin answer.docs
  /\ CompleteJobOrNot(This)
  /\ unanswered' = unanswered \cup {This}
  /\ Resolve /\ UNCHANGED <<tags, deep>>

(* Additive, with the tags that were loaded. *)
mergeTags(existing, topics) == existing \cup topics

Update ==
  /\ pc = "apply" /\ batch # <<>> /\ This \in answer.docs /\ This \in docs
  /\ tags' = [tags EXCEPT ![This] = mergeTags(Head(batch).tags, answer.topics)]
  /\ deep' = [deep EXCEPT ![This] = {answer.refs}]
  /\ CompleteJobOrNot(This)
  /\ Resolve /\ UNCHANGED unanswered

(* Seeded bug: the error of the update is logged and the job completed. *)
UpdateFails_Completes ==
  /\ pc = "apply" /\ batch # <<>> /\ This \in answer.docs
  /\ \/ This \notin docs /\ CompleteJobOrNot(This)
     \/ This \in docs /\ Fault /\ job' = [job EXCEPT ![This].state = "completed"] /\ UNCHANGED stranded
  /\ Resolve /\ UNCHANGED <<tags, deep, unanswered>>

(* The row was deleted after it was loaded, or the store fails. *)
UpdateFails ==
  /\ pc = "apply" /\ batch # <<>> /\ This \in answer.docs
  /\ \/ This \notin docs /\ FailJobOrNot(This)
     \/ This \in docs /\ Fault /\ job' = [job EXCEPT ![This] = Failed(@)] /\ UNCHANGED stranded
  /\ Resolve /\ UNCHANGED <<tags, deep, unanswered>>

BatchDone ==
  /\ pc \in {"apply", "fail"} /\ batch = <<>>
  /\ pc' = "batch" /\ answer' = NoAnswer
  /\ UNCHANGED <<tables, cancelled, claimed, loaded, unresolved, groups, batches, batch, faults, history>>

(* Documents the pass did not come to: their jobs are failed. *)
FailLeftover(d) ==
  /\ pc = "leftover" /\ d \in unresolved
  /\ FailJobOrNot(d)
  /\ unresolved' = unresolved \ {d}
  /\ UNCHANGED <<docs, tags, deep, old, cancelled, pc, claimed, loaded, groups, batches, batch, answer,
                 unanswered>>

(* Seeded bug: the jobs not processed are forgotten. *)
RunEnds_Forgets ==
  /\ pc = "leftover"
  /\ WorkIsOver
  /\ UNCHANGED <<tables, cancelled, faults, history>>

RunEnds ==
  /\ pc = "leftover" /\ unresolved = {}
  /\ WorkIsOver
  /\ UNCHANGED <<tables, cancelled, faults, history>>

-----------------------------------------------------------------------------
RunNext ==
  \/ ResetStaleJobs \/ ClaimJobs \/ NothingClaimed
  \/ GetContextDoc \/ GetContextDocFails \/ FailUnloaded \/ CancelledInLoad \/ NothingLoaded
  \/ FormGroups \/ GroupsDone \/ NextBatch \/ BatchesDone
  \/ \E g \in groups : NextGroup(g)
  \/ \E a \in Answer : EnrichBatch(a)
  \/ EnrichFails \/ FailBatch \/ NoResult \/ Update \/ UpdateFails \/ BatchDone
  \/ \E d \in Doc : FailLeftover(d)
  \/ RunEnds

Next ==
  \/ RunNext
  \/ \E d \in Doc : Ingest(d) \/ Delete(d) \/ GrowsOld(d)
  \/ Stop \/ Restart \/ Crash

Spec == Init /\ [][Next]_vars

(* A pass goes on, and another one is begun: the detector counts a machine  *)
(* it cannot measure as idle, and the scheduled hour comes each day.        *)
FairSpec ==
  /\ Spec
  /\ WF_vars(RunNext) /\ WF_vars(Restart)
  /\ \A d \in Doc : WF_vars(GrowsOld(d))

-----------------------------------------------------------------------------
(* What the code must achieve *)

(* A running job is in the hands of the pass or was left behind in one of   *)
(* three ways: a verdict the store did not take, a crash, a stop while      *)
(* loading.  No other path out of Run forgets a job it claimed.             *)
RunningIsAccounted ==
  /\ {d \in Doc : job[d].state = "running"} = InHand \cup stranded
  /\ InHand \cap stranded = {}

(* From grouping on, the documents still without outcome are the ones of    *)
(* the current batch, the batches and the groups to come, each of them      *)
(* once; a batch keeps to the budget unless it is one document.             *)
PassLosesNothing ==
  pc \in {"group", "batch", "call", "apply", "fail"} =>
    LET parts == {batch} \cup ToSet(batches) \cup groups
    IN /\ UNION {Ids(g) : g \in parts} = unresolved
       /\ \A g, h \in parts : g # h => Ids(g) \cap Ids(h) = {}
       /\ \A g \in parts : IsInjective(g)
       /\ \A b \in ToSet(batches) : Len(b) = 1 \/ Sum(b) <= MaxTokens

(* Chains of similar documents: y is in every set that holds x and is       *)
(* closed under similarity.                                                 *)
Connected(S, x, y) ==
  \A C \in SUBSET S :
    x \in C /\ (\A a \in C, b \in S : Similar(a, b) => b \in C) => y \in C

(* The groups are the connected components of similarity, whatever the      *)
(* order of the pairs, and one more for documents without topics.           *)
GroupsAreComponents ==
  pc = "group" /\ unresolved = Ids(loaded) /\ batches = <<>> =>
    LET S == ToSet(loaded)
    IN \A x, y \in S :
         (\E g \in groups : {x, y} \subseteq ToSet(g))
           <=> IF x.tags = {} THEN y.tags = {} ELSE Connected(S, x, y)

(* A completed job means an enriched document or one the model had nothing  *)
(* to say about: a failed call, a failed or refused update, a deletion      *)
(* under the pass or a stop never end in a completed job.                   *)
CompletedMeansEnriched ==
  \A d \in Doc : job[d].state = "completed" => deep[d] # {} \/ d \in unanswered

(* Every job has its verdict in the end, those left behind included.        *)
DeepJobSettles ==
  \A d \in Doc : job[d].state # "none" ~> job[d].state \in {"completed", "failed"}

(* The promise of the queue, kept by this loop through its claims of many   *)
(* jobs and resets; the job being worked on counts as a start.              *)
phase ==
  [d \in Doc |-> CASE job[d].state = "none"    -> "absent"
                   [] job[d].state = "pending" -> "open"
                   [] job[d].state = "running" -> "taken"
                   [] OTHER                    -> "closed"]

starts ==
  [d \in Doc |-> job[d].attempts + (IF job[d].state \in {"running", "completed"} THEN 1 ELSE 0)]

Ledger == INSTANCE JobLedger WITH Job <- Doc, phase <- phase, starts <- starts

ImplementsLedger == Ledger!Spec
=============================================================================
