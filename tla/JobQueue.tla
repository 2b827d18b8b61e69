------------------------------ MODULE JobQueue ------------------------------
(***************************************************************************)
(* The durable job queue of tbyd (internal/storage/sqlite.go, table jobs)  *)
(* together with the loops that drain it: the ingest worker, the feedback  *)
(* worker and the nightly synthesizer, which claim one job at a time, and  *)
(* the deep enrichment worker, which recovers stale jobs and then claims a *)
(* batch.  A column of the table is a variable.  The process may crash or  *)
(* be stopped between any two steps (the worker goroutines are not awaited *)
(* on shutdown) and a write to the store may fail, which the loops log.    *)
(*                                                                         *)
(* Time is counted in seconds, the resolution of the RFC 3339 text the     *)
(* table stores.  Job types are disjoint between the loops, so a job's     *)
(* type is the loop that claims it.                                        *)
(***************************************************************************)
EXTENDS Integers, FiniteSets

CONSTANTS
  Job,            \* ids that may ever be enqueued
  Worker,         \* the polling loops
  Deep,           \* those that use ResetStaleJobs and ClaimJobs
  Owner,          \* [Job -> Worker]: the loop that claims the job's type
  ClaimLimit,     \* deep_batch_claim_limit
  MaxAttempts,    \* max_attempts of every job
  StaleTimeout,   \* defaultStaleJobTimeout, in seconds
  MaxTime,        \* bound: the clock stops here unless a job waits for it
  MaxCrashes,     \* bound: number of crashes
  MaxStoreErrors  \* bound: number of failed writes

ASSUME QueueAssumption ==
  /\ IsFiniteSet(Worker)
  /\ Deep \subseteq Worker
  /\ Owner \in [Job -> Worker]
  /\ ClaimLimit \in Nat \ {0}
  /\ MaxAttempts \in Nat \ {0}
  /\ StaleTimeout \in Nat
  /\ MaxTime \in Nat
  /\ MaxCrashes \in Nat
  /\ MaxStoreErrors \in Nat

(* A fact of arithmetic that the SMT backend cannot derive; TLC evaluates it *)
(* for the attempts of each instance.                                        *)
ASSUME PowersOfTwo == \A n \in 0 .. MaxAttempts : 2 ^ n \in Nat

VARIABLES
  status,     \* jobs.status; "none" before the row exists
  attempts,   \* jobs.attempts
  runAfter,   \* jobs.run_after
  updatedAt,  \* jobs.updated_at of a running row (0 in another status, where
              \* nothing reads it)
  now,        \* wall clock
  up,         \* the process is running
  hand,       \* jobs a loop has claimed and not yet finished
  pc,         \* where a deep loop is in Run
  stale,      \* rows ResetStaleJobs selected, with the attempts it read
  crashes, storeErrors,
  starts      \* history: how often a job was handed to a loop

rows == <<status, attempts, runAfter, updatedAt>>
faults == <<crashes, storeErrors>>
vars == <<rows, now, up, hand, pc, stale, faults, starts>>

Status == {"none", "pending", "running", "completed", "failed"}
DeepPC == {"idle", "reset", "claim"}

(* Some rows, with the attempts read for each. *)
Snapshot == UNION {[S -> 0 .. MaxAttempts] : S \in SUBSET Job}

(* The type of the state; attempts never pass max_attempts. *)
TypeOK ==
  /\ status \in [Job -> Status]
  /\ attempts \in [Job -> 0 .. MaxAttempts]
  /\ runAfter \in [Job -> Nat]
  /\ updatedAt \in [Job -> Nat]
  /\ now \in Nat
  /\ up \in BOOLEAN
  /\ hand \in [Worker -> SUBSET Job]
  /\ pc \in [Worker -> DeepPC]
  /\ stale \in [Worker -> Snapshot]
  /\ crashes \in 0 .. MaxCrashes
  /\ storeErrors \in 0 .. MaxStoreErrors
  /\ starts \in [Job -> Nat]

NoRows == [j \in {} |-> 0]

Init ==
  /\ status = [j \in Job |-> "none"]
  /\ attempts = [j \in Job |-> 0]
  /\ runAfter = [j \in Job |-> 0]
  /\ updatedAt = [j \in Job |-> 0]
  /\ now = 0
  /\ up = TRUE
  /\ hand = [w \in Worker |-> {}]
  /\ pc = [w \in Worker |-> "idle"]
  /\ stale = [w \in Worker |-> NoRows]
  /\ crashes = 0
  /\ storeErrors = 0
  /\ starts = [j \in Job |-> 0]

-----------------------------------------------------------------------------
(* The table operations. *)

Min2(a, b) == IF a < b THEN a ELSE b

Backoff(n) == 2 ^ n

(* Seeded bug: no status filter on rows that exist and are not closed. *)
Claimable_RunningToo(w) ==
  {j \in Job : Owner[j] = w /\ status[j] \in {"pending", "running"} /\ runAfter[j] <= now}

Claimable(w) ==
  {j \in Job : Owner[j] = w /\ status[j] = "pending" /\ runAfter[j] <= now}

(* ORDER BY run_after; jobs due in the same second come in any order (the   *)
(* code goes on to compare created_at, which has the same resolution).      *)
Precedes(i, j) == runAfter[i] < runAfter[j]

(* The UPDATE both claims share, and what the loop gets to hold. *)
MarkRunning(w, S) ==
  /\ status' = [j \in Job |-> IF j \in S THEN "running" ELSE status[j]]
  /\ updatedAt' = [j \in Job |-> IF j \in S THEN now ELSE updatedAt[j]]
  /\ starts' = [j \in Job |-> IF j \in S THEN starts[j] + 1 ELSE starts[j]]
  /\ hand' = [hand EXCEPT ![w] = S]
  /\ UNCHANGED <<attempts, runAfter>>

(* Seeded bug: the type filter is missing. *)
StaleRows_AnyType(w) ==
  {j \in Job : status[j] = "running" /\ updatedAt[j] < now - StaleTimeout}

StaleRows(w) ==
  {j \in Job : status[j] = "running" /\ Owner[j] = w /\ updatedAt[j] < now - StaleTimeout}

EnqueueJob(j) ==
  /\ up
  /\ status[j] = "none"
  /\ status' = [status EXCEPT ![j] = "pending"]
  /\ attempts' = [attempts EXCEPT ![j] = 0]
  /\ runAfter' = [runAfter EXCEPT ![j] = now]
  /\ UNCHANGED <<updatedAt, now, up, hand, pc, stale, faults, starts>>

(* ClaimNextJob, called by a loop that holds nothing. *)
ClaimNextJob(w) ==
  /\ up /\ w \notin Deep /\ hand[w] = {}
  /\ \E j \in Claimable(w) :
       /\ \A i \in Claimable(w) : ~Precedes(i, j)
       /\ MarkRunning(w, {j})
  /\ UNCHANGED <<now, up, pc, stale, faults>>

CompleteJob(w, j) ==
  /\ up /\ j \in hand[w]
  /\ status' = [status EXCEPT ![j] = "completed"]
  /\ updatedAt' = [updatedAt EXCEPT ![j] = 0]
  /\ hand' = [hand EXCEPT ![w] = @ \ {j}]
  /\ UNCHANGED <<attempts, runAfter, now, up, pc, stale, faults, starts>>

(* Seeded bug: the retry branch counts the attempt and keeps the status. *)
FailJob_StaysRunning(w, j) ==
  /\ up /\ j \in hand[w]
  /\ attempts' = [attempts EXCEPT ![j] = @ + 1]
  /\ status' = IF attempts[j] + 1 >= MaxAttempts
                 THEN [status EXCEPT ![j] = "failed"]
                 ELSE status
  /\ hand' = [hand EXCEPT ![w] = @ \ {j}]
  /\ UNCHANGED <<runAfter, updatedAt, now, up, pc, stale, faults, starts>>

(* The attempt is counted; the last one fails the job, others back off. *)
FailJob(w, j) ==
  /\ up /\ j \in hand[w]
  /\ attempts' = [attempts EXCEPT ![j] = @ + 1]
  /\ IF attempts[j] + 1 >= MaxAttempts
       THEN /\ status' = [status EXCEPT ![j] = "failed"]
            /\ runAfter' = runAfter
       ELSE /\ status' = [status EXCEPT ![j] = "pending"]
            /\ runAfter' = [runAfter EXCEPT ![j] = now + Backoff(attempts[j] + 1)]
  /\ updatedAt' = [updatedAt EXCEPT ![j] = 0]
  /\ hand' = [hand EXCEPT ![w] = @ \ {j}]
  /\ UNCHANGED <<now, up, pc, stale, faults, starts>>

(* CompleteJob or FailJob returned an error: the loop logs it and moves on. *)
FinishError(w, j) ==
  /\ up /\ j \in hand[w]
  /\ storeErrors < MaxStoreErrors
  /\ storeErrors' = storeErrors + 1
  /\ hand' = [hand EXCEPT ![w] = @ \ {j}]
  /\ UNCHANGED <<rows, now, up, pc, stale, crashes, starts>>

(* DeepEnrichmentWorker.Run, step 1: ResetStaleJobs reads the stale rows    *)
(* outside the transaction that updates them.                               *)
SelectStale(w) ==
  /\ up /\ w \in Deep /\ pc[w] = "idle" /\ hand[w] = {}
  /\ stale' = [stale EXCEPT ![w] = [j \in StaleRows(w) |-> attempts[j]]]
  /\ pc' = [pc EXCEPT ![w] = IF StaleRows(w) = {} THEN "claim" ELSE "reset"]
  /\ UNCHANGED <<rows, now, up, hand, faults, starts>>

(* Seeded bug: a reset does not count as an attempt. *)
ResetStaleJobs_Free(w) ==
  LET Hit(j) == j \in DOMAIN stale[w] /\ status[j] = "running"
  IN
  /\ up /\ pc[w] = "reset"
  /\ status' = [j \in Job |-> IF Hit(j) THEN "pending" ELSE status[j]]
  /\ updatedAt' = [j \in Job |-> IF Hit(j) THEN 0 ELSE updatedAt[j]]
  /\ stale' = [stale EXCEPT ![w] = NoRows]
  /\ pc' = [pc EXCEPT ![w] = "claim"]
  /\ UNCHANGED <<attempts, runAfter, now, up, hand, faults, starts>>

(* The transaction: attempts come from the earlier read, run_after stays.   *)
ResetStaleJobs(w) ==
  LET Hit(j) == j \in DOMAIN stale[w] /\ status[j] = "running"
      Tried(j) == stale[w][j] + 1
  IN
  /\ up /\ pc[w] = "reset"
  /\ status' = [j \in Job |-> IF Hit(j)
                                THEN IF Tried(j) >= MaxAttempts THEN "failed" ELSE "pending"
                                ELSE status[j]]
  /\ attempts' = [j \in Job |-> IF Hit(j) THEN Tried(j) ELSE attempts[j]]
  /\ updatedAt' = [j \in Job |-> IF Hit(j) THEN 0 ELSE updatedAt[j]]
  /\ stale' = [stale EXCEPT ![w] = NoRows]
  /\ pc' = [pc EXCEPT ![w] = "claim"]
  /\ UNCHANGED <<runAfter, now, up, hand, faults, starts>>

(* The rows cannot be read or reset, which is logged; Run goes on to claim.  *)
ResetError(w) ==
  /\ up /\ w \in Deep /\ hand[w] = {} /\ pc[w] \in {"idle", "reset"}
  /\ storeErrors < MaxStoreErrors
  /\ storeErrors' = storeErrors + 1
  /\ stale' = [stale EXCEPT ![w] = NoRows]
  /\ pc' = [pc EXCEPT ![w] = "claim"]
  /\ UNCHANGED <<rows, now, up, hand, crashes, starts>>

(* Step 2: ClaimJobs takes the first ClaimLimit due jobs in one transaction. *)
ClaimJobs(w) ==
  /\ up /\ pc[w] = "claim"
  /\ \E S \in SUBSET Claimable(w) :
       /\ Cardinality(S) = Min2(ClaimLimit, Cardinality(Claimable(w)))
       /\ \A i \in Claimable(w) \ S, j \in S : ~Precedes(i, j)
       /\ MarkRunning(w, S)
  /\ pc' = [pc EXCEPT ![w] = "idle"]
  /\ UNCHANGED <<now, up, stale, faults>>

(* Run returns the error; the next pass begins with a reset again. *)
ClaimError(w) ==
  /\ up /\ pc[w] = "claim"
  /\ storeErrors < MaxStoreErrors
  /\ storeErrors' = storeErrors + 1
  /\ pc' = [pc EXCEPT ![w] = "idle"]
  /\ UNCHANGED <<rows, now, up, hand, stale, crashes, starts>>

-----------------------------------------------------------------------------
(* The process and the clock. *)

Crash ==
  /\ up /\ crashes < MaxCrashes
  /\ up' = FALSE
  /\ crashes' = crashes + 1
  /\ hand' = [w \in Worker |-> {}]
  /\ pc' = [w \in Worker |-> "idle"]
  /\ stale' = [w \in Worker |-> NoRows]
  /\ UNCHANGED <<rows, now, storeErrors, starts>>

Restart ==
  /\ ~up
  /\ up' = TRUE
  /\ UNCHANGED <<rows, now, hand, pc, stale, faults, starts>>

(* A job that only the passing of time can move. *)
WaitsForClock(j) ==
  \/ status[j] = "pending" /\ runAfter[j] > now
  \/ /\ status[j] = "running" /\ Owner[j] \in Deep /\ j \notin hand[Owner[j]]
     /\ updatedAt[j] >= now - StaleTimeout

Tick ==
  /\ now < MaxTime \/ \E j \in Job : WaitsForClock(j)
  /\ now' = now + 1
  /\ UNCHANGED <<rows, up, hand, pc, stale, faults, starts>>

FinishOne(w) == \E j \in Job : CompleteJob(w, j) \/ FailJob(w, j)

WorkerStep(w) ==
  \/ ClaimNextJob(w)
  \/ FinishOne(w)
  \/ SelectStale(w) \/ ResetStaleJobs(w) \/ ClaimJobs(w)

WorkerError(w) ==
  \/ ResetError(w) \/ ClaimError(w)
  \/ \E j \in Job : FinishError(w, j)

Next ==
  \/ \E j \in Job : EnqueueJob(j)
  \/ \E w \in Worker : WorkerStep(w) \/ WorkerError(w)
  \/ Crash \/ Restart \/ Tick

Spec == Init /\ [][Next]_vars

(* The loops are goroutines that poll for ever, a stopped server is started *)
(* again, and time passes.  Nothing obliges a client to enqueue.            *)
Fairness ==
  /\ \A w \in Worker : WF_vars(WorkerStep(w))
  /\ WF_vars(Restart)
  /\ WF_vars(Tick)

FairSpec == Spec /\ Fairness

-----------------------------------------------------------------------------
(* Properties *)

(* A loop only ever works on a job the table shows as running and that is   *)
(* of its own types: no reset or claim takes a job away from under a loop.  *)
HeldJobsAreRunning ==
  \A w \in Worker : \A j \in hand[w] : status[j] = "running" /\ Owner[j] = w

(* However crashes, failed writes, retries and stale resets interleave, no  *)
(* job is handed to a loop more than max_attempts times (FailJob and        *)
(* ResetStaleJobs count every start that did not complete).                 *)
StartsBounded == \A j \in Job : starts[j] <= MaxAttempts

(* A running job nobody holds exists only after a crash or a failed write,  *)
(* and each of them loses at most what the loops were holding.              *)
Orphans == {j \in Job : status[j] = "running" /\ j \notin hand[Owner[j]]}

OrphansComeFromFaults ==
  Cardinality(Orphans)
    <= storeErrors + crashes * (ClaimLimit * Cardinality(Deep) + Cardinality(Worker \ Deep))

(* CompleteJob, FailJob and the reset update rows by id: none of them ever  *)
(* brings a completed or failed job back or changes its verdict.            *)
VerdictIsFinal ==
  [][\A j \in Job : status[j] \in {"completed", "failed"} => status'[j] = status[j]]_vars

(* Every accepted job gets a verdict, whatever crashes and errors come      *)
(* between, because the deep loop resets what they strand; a job of another *)
(* loop may instead be left running by a fault.                             *)
LeftRunning(j) == j \in Orphans /\ Owner[j] \notin Deep /\ crashes + storeErrors > 0

EveryJobSettles ==
  \A j \in Job :
    status[j] \in {"pending", "running"} ~>
      status[j] \in {"completed", "failed"} \/ LeftRunning(j)

(* Documentation (ARCHITECTURE.md, "Background Job System"): the durable    *)
(* queue "prevents data loss on process restart" for all async work.  Only  *)
(* the deep loop keeps that promise, so TLC refutes this.                   *)
NoJobLostOnRestart ==
  \A j \in Job : status[j] \in {"pending", "running"} ~> status[j] \in {"completed", "failed"}

-----------------------------------------------------------------------------
(* The promise. *)

phase ==
  [j \in Job |-> CASE status[j] = "none"    -> "absent"
                   [] status[j] = "pending" -> "open"
                   [] status[j] = "running" -> "taken"
                   [] OTHER                 -> "closed"]

Ledger == INSTANCE JobLedger WITH phase <- phase, starts <- starts

(* The queue implements the ledger: bounded hand-outs, one holder, final    *)
(* verdicts (claims, retries, resets and crashes are the ledger's moves).   *)
ImplementsLedger == Ledger!Spec

=============================================================================
