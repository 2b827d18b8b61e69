----------------------------- MODULE IngestIndex -----------------------------
(***************************************************************************)
(* From a saved row to a searchable vector and back: POST /ingest and the  *)
(* chat handler save a document or an interaction and enqueue a job, the   *)
(* ingest worker (internal/ingest/worker.go) embeds the row and records    *)
(* the vector, the delete handlers (internal/api/ingest.go) remove vectors *)
(* and row, feedback (internal/api/feedback.go) rates the vectors a row    *)
(* names.  Rows, jobs and vectors live in three tables and no transaction  *)
(* spans two of them, so every call on the store is a step and the process *)
(* may stop between any two.                                               *)
(*                                                                         *)
(* The queue is reduced to the status and the attempts of one job per row; *)
(* JobQueue has its claims, back-off and order.  A vector is named after   *)
(* the source it was made from and the attempt that made it: a random id   *)
(* for documents, one fixed id for interactions.                           *)
(***************************************************************************)
EXTENDS Integers, FiniteSets

CONSTANTS
  Doc,           \* context documents
  Interaction,   \* chat interactions
  Deleter,       \* concurrent delete requests
  MaxAttempts,   \* max_attempts of a job
  TopK,          \* chunks the retriever hands to a chat request
  MaxFaults,     \* bound: calls of the store that fail
  MaxCrashes     \* bound: crashes

Source == Doc \cup Interaction

ASSUME IndexAssumption ==
  /\ Doc \cap Interaction = {}
  /\ Source # {}
  /\ IsFiniteSet(Source)
  /\ MaxAttempts \in Nat \ {0}
  /\ TopK \in Nat /\ MaxFaults \in Nat /\ MaxCrashes \in Nat

VARIABLES
  row,       \* context_docs and interactions
  ref,       \* vector_id of a document, vector_ids of an interaction
  vectors,   \* context_vectors
  handler,   \* the request that creates the row
  used,      \* chunks a chat request was enriched with
  job,       \* status of the row's ingest_enrich or interaction_summarize job
  attempts,  \* its attempts
  work,      \* what the ingest worker is doing
  del,       \* what the delete requests are doing
  faults, crashes,
  doomed,    \* history: rows a delete request has found
  raced,     \* history: those the worker worked on meanwhile
  lost,      \* history: vectors removed with a row they were not made from
  rated      \* history: <<interaction, vector>> whose quality a rating changed

table == <<row, ref, vectors>>
queue == <<job, attempts>>
history == <<doomed, raced, lost, rated>>
vars == <<table, handler, used, queue, work, del, faults, crashes, history>>

Vector == [src : Source, n : 0 .. MaxAttempts - 1]

WorkerPC == {"idle", "load", "embed", "insert", "update", "complete", "fail"}

(* The type of the state; attempts never pass max_attempts. *)
TypeOK ==
  /\ row \in [Source -> {"none", "saved", "deleted"}]
  /\ ref \in [Source -> SUBSET Vector]
  /\ vectors \subseteq Vector
  /\ handler \in [Source -> {"none", "chat", "enqueue", "over"}]
  /\ used \in [Interaction -> SUBSET Vector]
  /\ job \in [Source -> {"none", "pending", "running", "completed", "failed"}]
  /\ attempts \in [Source -> 0 .. MaxAttempts]
  /\ work \in [src : Source, pc : WorkerPC]
  /\ del \in [Deleter -> [src : Source, todo : SUBSET Vector, pc : {"idle", "vectors"}]]
  /\ faults \in 0 .. MaxFaults /\ crashes \in 0 .. MaxCrashes
  /\ doomed \subseteq Source /\ raced \subseteq doomed
  /\ lost \subseteq Vector
  /\ rated \subseteq Interaction \X Vector

IdleWork == [src |-> CHOOSE s \in Source : TRUE, pc |-> "idle"]
IdleDelete == [src |-> CHOOSE s \in Source : TRUE, todo |-> {}, pc |-> "idle"]

Init ==
  /\ row = [s \in Source |-> "none"]
  /\ ref = [s \in Source |-> {}]
  /\ vectors = {}
  /\ handler = [s \in Source |-> "none"]
  /\ used = [i \in Interaction |-> {}]
  /\ job = [s \in Source |-> "none"]
  /\ attempts = [s \in Source |-> 0]
  /\ work = IdleWork
  /\ del = [h \in Deleter |-> IdleDelete]
  /\ faults = 0 /\ crashes = 0
  /\ doomed = {} /\ raced = {} /\ lost = {} /\ rated = {}

Fault ==
  /\ faults < MaxFaults
  /\ faults' = faults + 1

-----------------------------------------------------------------------------
(* Requests that create a row.  A row that cannot be saved is an error to   *)
(* the client (a document) or a log line (an interaction) and no step.      *)

SaveContextDoc(d) ==
  /\ handler[d] = "none"
  /\ row' = [row EXCEPT ![d] = "saved"]
  /\ handler' = [handler EXCEPT ![d] = "enqueue"]
  /\ UNCHANGED <<ref, vectors, used, queue, work, del, faults, crashes, history>>

(* Enrichment picks chunks; the upstream call follows. *)
Chat(i) ==
  /\ handler[i] = "none"
  /\ \E S \in SUBSET vectors :
       /\ Cardinality(S) <= TopK
       /\ used' = [used EXCEPT ![i] = S]
  /\ handler' = [handler EXCEPT ![i] = "chat"]
  /\ UNCHANGED <<table, queue, work, del, faults, crashes, history>>

(* doSaveInteraction: vector_ids are the chunks used; an aborted answer, or *)
(* a server without a summarizer, gets no job.                              *)
SaveInteraction(i) ==
  /\ handler[i] = "chat"
  /\ row' = [row EXCEPT ![i] = "saved"]
  /\ ref' = [ref EXCEPT ![i] = used[i]]
  /\ \E then \in {"enqueue", "over"} : handler' = [handler EXCEPT ![i] = then]
  /\ UNCHANGED <<vectors, used, queue, work, del, faults, crashes, history>>

EnqueueJob(s) ==
  /\ handler[s] = "enqueue"
  /\ handler' = [handler EXCEPT ![s] = "over"]
  /\ job' = [job EXCEPT ![s] = "pending"]
  /\ UNCHANGED <<table, used, attempts, work, del, faults, crashes, history>>

(* The row stays without a job. *)
EnqueueFails(s) ==
  /\ handler[s] = "enqueue" /\ Fault
  /\ handler' = [handler EXCEPT ![s] = "over"]
  /\ UNCHANGED <<table, used, queue, work, del, crashes, history>>

-----------------------------------------------------------------------------
(* The ingest worker: RunOnce, processEnrichJob and processSummarizeJob. *)

WorkerTo(p) == work' = IF p = "idle" THEN IdleWork ELSE [work EXCEPT !.pc = p]

OutsideUnchanged == UNCHANGED <<handler, used, del, crashes, doomed, lost, rated>>

BeingDeleted(s) == \E h \in Deleter : del[h].pc # "idle" /\ del[h].src = s

ClaimNextJob(s) ==
  /\ work.pc = "idle" /\ job[s] = "pending"
  /\ job' = [job EXCEPT ![s] = "running"]
  /\ work' = [src |-> s, pc |-> "load"]
  /\ raced' = IF BeingDeleted(s) THEN raced \cup {s} ELSE raced
  /\ UNCHANGED <<table, attempts, faults>> /\ OutsideUnchanged

LoadRow ==
  /\ work.pc = "load"
  /\ WorkerTo(IF row[work.src] = "saved" THEN "embed" ELSE "fail")
  /\ UNCHANGED <<table, queue, faults, raced>> /\ OutsideUnchanged

(* The row is summarized (an interaction) and embedded. *)
Embed ==
  /\ work.pc = "embed"
  /\ WorkerTo("insert")
  /\ UNCHANGED <<table, queue, faults, raced>> /\ OutsideUnchanged

(* No summary, an empty one, or no embedding. *)
EmbedFails ==
  /\ work.pc = "embed"
  /\ WorkerTo("fail")
  /\ UNCHANGED <<table, queue, faults, raced>> /\ OutsideUnchanged

VectorOf(s) == [src |-> s, n |-> IF s \in Doc THEN attempts[s] ELSE 0]

(* A plain INSERT: an id that is already there is a key conflict. *)
Insert ==
  /\ work.pc = "insert"
  /\ vectors' = vectors \cup {VectorOf(work.src)}
  /\ WorkerTo(IF VectorOf(work.src) \in vectors THEN "fail" ELSE "update")
  /\ UNCHANGED <<row, ref, queue, faults, raced>> /\ OutsideUnchanged

(* Seeded bug: the error of Insert is dropped. *)
InsertFails_Ignored ==
  /\ work.pc = "insert" /\ Fault
  /\ WorkerTo("update")
  /\ UNCHANGED <<table, queue, raced>> /\ OutsideUnchanged

InsertFails ==
  /\ work.pc = "insert" /\ Fault
  /\ WorkerTo("fail")
  /\ UNCHANGED <<table, queue, raced>> /\ OutsideUnchanged

(* UpdateContextDocVectorID, UpdateInteractionVectorIDs. *)
UpdateRef ==
  LET s == work.src
  IN
  /\ work.pc = "update"
  /\ IF row[s] = "saved"
       THEN ref' = [ref EXCEPT ![s] = {VectorOf(s)}] /\ WorkerTo("complete")
       ELSE ref' = ref /\ WorkerTo("fail")
  /\ UNCHANGED <<row, vectors, queue, faults, raced>> /\ OutsideUnchanged

UpdateRefFails ==
  /\ work.pc = "update" /\ Fault
  /\ WorkerTo("fail")
  /\ UNCHANGED <<table, queue, raced>> /\ OutsideUnchanged

CompleteJob ==
  /\ work.pc = "complete"
  /\ job' = [job EXCEPT ![work.src] = "completed"]
  /\ WorkerTo("idle")
  /\ UNCHANGED <<table, attempts, faults, raced>> /\ OutsideUnchanged

FailJob ==
  LET s == work.src
  IN
  /\ work.pc = "fail"
  /\ attempts' = [attempts EXCEPT ![s] = @ + 1]
  /\ job' = [job EXCEPT ![s] = IF attempts[s] + 1 >= MaxAttempts THEN "failed" ELSE "pending"]
  /\ WorkerTo("idle")
  /\ UNCHANGED <<table, faults, raced>> /\ OutsideUnchanged

(* The outcome cannot be written: it is logged and the job stays running. *)
FinishFails ==
  /\ work.pc \in {"complete", "fail"} /\ Fault
  /\ WorkerTo("idle")
  /\ UNCHANGED <<table, queue, raced>> /\ OutsideUnchanged

-----------------------------------------------------------------------------
(* handleDeleteContextDoc, handleDeleteInteraction. *)

InsideUnchanged == UNCHANGED <<handler, used, queue, work, crashes, rated>>

(* Seeded bug: the row's vectors are not looked up. *)
BeginDelete_RowOnly(h, s) ==
  /\ del[h].pc = "idle" /\ row[s] = "saved"
  /\ del' = [del EXCEPT ![h] = [src |-> s, todo |-> {}, pc |-> "vectors"]]
  /\ doomed' = doomed \cup {s}
  /\ raced' = IF work.pc # "idle" /\ work.src = s THEN raced \cup {s} ELSE raced
  /\ UNCHANGED <<table, faults, lost>> /\ InsideUnchanged

(* The row is read; what it names is what will be deleted. *)
BeginDelete(h, s) ==
  /\ del[h].pc = "idle" /\ row[s] = "saved"
  /\ del' = [del EXCEPT ![h] = [src |-> s, todo |-> ref[s], pc |-> "vectors"]]
  /\ doomed' = doomed \cup {s}
  /\ raced' = IF work.pc # "idle" /\ work.src = s THEN raced \cup {s} ELSE raced
  /\ UNCHANGED <<table, faults, lost>> /\ InsideUnchanged

DeleteVector(h, v) ==
  /\ del[h].pc = "vectors" /\ v \in del[h].todo
  /\ del' = [del EXCEPT ![h].todo = @ \ {v}]
  /\ vectors' = vectors \ {v}
  /\ lost' = IF v \in vectors /\ v.src # del[h].src THEN lost \cup {v} ELSE lost
  /\ UNCHANGED <<row, ref, faults, doomed, raced>> /\ InsideUnchanged

(* A failure is logged and the next one is tried. *)
DeleteVectorFails(h, v) ==
  /\ del[h].pc = "vectors" /\ v \in del[h].todo /\ Fault
  /\ del' = [del EXCEPT ![h].todo = @ \ {v}]
  /\ UNCHANGED <<table, doomed, raced, lost>> /\ InsideUnchanged

(* The row goes last; a second request finds it gone. *)
DeleteRow(h) ==
  LET s == del[h].src
  IN
  /\ del[h].pc = "vectors" /\ del[h].todo = {}
  /\ row' = [row EXCEPT ![s] = "deleted"]
  /\ ref' = [ref EXCEPT ![s] = {}]
  /\ del' = [del EXCEPT ![h] = IdleDelete]
  /\ UNCHANGED <<vectors, faults, doomed, raced, lost>> /\ InsideUnchanged

DeleteRowFails(h) ==
  /\ del[h].pc = "vectors" /\ del[h].todo = {} /\ Fault
  /\ del' = [del EXCEPT ![h] = IdleDelete]
  /\ UNCHANGED <<table, doomed, raced, lost>> /\ InsideUnchanged

(* The end of saveFeedback: the vectors the row names get a new quality     *)
(* score (the score and the feedback_extract job are not of this module).   *)
AdjustQuality(i) ==
  /\ row[i] = "saved"
  /\ rated' = rated \cup ({i} \X (ref[i] \cap vectors))
  /\ UNCHANGED <<table, handler, used, queue, work, del, faults, crashes, doomed, raced, lost>>

-----------------------------------------------------------------------------
(* The process stops; requests are lost, and jobs of these types that were  *)
(* running stay so (only the deep worker resets stale jobs).                *)
CrashRestart ==
  /\ crashes < MaxCrashes
  /\ crashes' = crashes + 1
  /\ work' = IdleWork
  /\ del' = [h \in Deleter |-> IdleDelete]
  /\ handler' = [s \in Source |-> IF handler[s] = "none" THEN "none" ELSE "over"]
  /\ UNCHANGED <<table, used, queue, faults, history>>

WorkerStep ==
  \/ \E s \in Source : ClaimNextJob(s)
  \/ LoadRow \/ Embed \/ EmbedFails
  \/ Insert \/ InsertFails
  \/ UpdateRef \/ UpdateRefFails
  \/ CompleteJob \/ FailJob \/ FinishFails

DeleteStep(h) ==
  \/ \E s \in Source : BeginDelete(h, s)
  \/ \E v \in del[h].todo : DeleteVector(h, v) \/ DeleteVectorFails(h, v)
  \/ DeleteRow(h) \/ DeleteRowFails(h)

Next ==
  \/ \E d \in Doc : SaveContextDoc(d)
  \/ \E i \in Interaction : Chat(i) \/ SaveInteraction(i) \/ AdjustQuality(i)
  \/ \E s \in Source : EnqueueJob(s) \/ EnqueueFails(s)
  \/ WorkerStep
  \/ \E h \in Deleter : DeleteStep(h)
  \/ CrashRestart

Spec == Init /\ [][Next]_vars

-----------------------------------------------------------------------------
(* Properties *)

(* A completed job means that the row can be found: it names vectors of its *)
(* own that are in the store, as long as nobody deleted the row or, with    *)
(* an interaction that used them, the vectors.                              *)
CompletedMeansSearchable ==
  \A s \in Source :
    job[s] = "completed" /\ s \notin doomed =>
      /\ row[s] = "saved"
      /\ ref[s] = {VectorOf(s)}
      /\ ref[s] \subseteq vectors \cup lost

(* Vectors no row names are rare: each costs a failed call, a crash between *)
(* two calls, or a delete that overlapped the indexing of the same row.     *)
Orphans ==
  {v \in vectors : v \notin ref[v.src] /\ ~(work.pc = "update" /\ work.src = v.src)}

OrphansComeFromFaults == Cardinality(Orphans) <= faults + crashes + Cardinality(raced)

-----------------------------------------------------------------------------
(* What comments and documents say and the code does not do: TLC refutes    *)
(* each of these.                                                           *)

(* Comment in processSummarizeJob: "retries are idempotent", "the next      *)
(* attempt overwrites the same record": an insert the store does not refuse *)
(* goes on to the update.                                                   *)
RetryOverwrites ==
  [][work.pc = "insert" /\ work.src \in Interaction /\ work'.pc = "fail"
       => faults' > faults]_vars

(* docs/phase-2-user-surfaces.md: "Delete removes the record from both      *)
(* SQLite and VectorStore".                                                 *)
DeleteRemovesVectors ==
  \A s \in Source :
    row[s] = "deleted" /\ job[s] \in {"none", "completed", "failed"} =>
      \A v \in vectors : v.src # s

(* The same sentence: what it removes is the record's own vectors.          *)
DeleteSparesOthers == lost = {}

(* docs/phase-3-personalization.md: feedback changes the score "of every    *)
(* chunk that was used in that interaction", and of no other.               *)
FeedbackRatesChunksUsed == \A p \in rated : p[2] \in used[p[1]]
=============================================================================
