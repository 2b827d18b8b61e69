--------------------------- MODULE JobQueueProofs ---------------------------
(***************************************************************************)
(* Theorems about JobQueue, for any set of jobs and loops, any limits and  *)
(* any number of crashes and failed writes.                                *)
(*                                                                         *)
(* The inductive invariant adds to the type invariant what ties the three  *)
(* places together that know about a claim: the row, the loop's hand and   *)
(* the rows a reset has selected (SnapshotIsCurrent: nobody but the deep   *)
(* loop itself touches them before the transaction), and the count of      *)
(* starts (every start that is over was counted in attempts).  What a      *)
(* crash may strand is counted by numbering the jobs each loop holds: no   *)
(* loop holds more than a claim of its gives it (HandsBounded).            *)
(***************************************************************************)
EXTENDS JobQueue, FiniteSetTheorems, TLAPS

SnapshotIsCurrent ==
  \A w \in Worker :
    /\ pc[w] # "idle" => w \in Deep /\ hand[w] = {}
    /\ pc[w] # "reset" => DOMAIN stale[w] = {}
    /\ \A j \in DOMAIN stale[w] :
         status[j] = "running" /\ Owner[j] = w /\ stale[w][j] = attempts[j]

StartsAreCounted ==
  \A j \in Job :
    /\ starts[j] = attempts[j] + (IF status[j] \in {"running", "completed"} THEN 1 ELSE 0)
    /\ status[j] \in {"none", "pending", "running", "completed"} => attempts[j] < MaxAttempts
    /\ status[j] = "none" => attempts[j] = 0

IInv ==
  /\ TypeOK
  /\ HeldJobsAreRunning
  /\ SnapshotIsCurrent
  /\ StartsAreCounted

-----------------------------------------------------------------------------
LEMMA BackoffNat == ASSUME NEW n \in 0 .. MaxAttempts PROVE Backoff(n) \in Nat
BY PowersOfTwo DEF Backoff

(* A selection of rows with their attempts is a snapshot, and conversely.    *)
LEMMA SnapshotIntro ==
  ASSUME NEW S \in SUBSET Job, NEW f \in [S -> 0 .. MaxAttempts]
  PROVE  f \in Snapshot
BY DEF Snapshot

LEMMA SnapshotElim ==
  ASSUME NEW f \in Snapshot
  PROVE  /\ DOMAIN f \in SUBSET Job
         /\ \A j \in DOMAIN f : f[j] \in 0 .. MaxAttempts
BY DEF Snapshot

LEMMA NoRowsIsSnapshot == NoRows \in Snapshot /\ DOMAIN NoRows = {}
<1>1. NoRows \in [{} -> 0 .. MaxAttempts]
  BY DEF NoRows
<1>2. QED
  BY <1>1, SnapshotIntro DEF NoRows

-----------------------------------------------------------------------------
LEMMA InitIInv == Init => IInv
<1> SUFFICES ASSUME Init PROVE IInv
  OBVIOUS
<1> USE QueueAssumption
<1>1. TypeOK
  BY NoRowsIsSnapshot DEF Init, TypeOK, Status, DeepPC
<1>2. HeldJobsAreRunning
  BY DEF Init, HeldJobsAreRunning
<1>3. SnapshotIsCurrent
  BY NoRowsIsSnapshot DEF Init, SnapshotIsCurrent
<1>4. StartsAreCounted
  BY DEF Init, StartsAreCounted
<1>5. QED
  BY <1>1, <1>2, <1>3, <1>4 DEF IInv

LEMMA EnqueueStep ==
  ASSUME IInv, NEW j \in Job, EnqueueJob(j)
  PROVE  IInv'
<1> USE QueueAssumption DEF EnqueueJob, IInv, faults
<1>1. TypeOK'
  BY DEF TypeOK, Status
<1>2. HeldJobsAreRunning'
  BY DEF TypeOK, HeldJobsAreRunning
<1>3. SnapshotIsCurrent'
  BY SnapshotElim DEF TypeOK, SnapshotIsCurrent
<1>4. StartsAreCounted'
  BY DEF TypeOK, StartsAreCounted
<1>5. QED
  BY <1>1, <1>2, <1>3, <1>4

(* What the two claims have in common. *)
LEMMA MarkRunningStep ==
  ASSUME IInv, NEW w \in Worker, NEW S \in SUBSET Claimable(w),
         hand[w] = {}, DOMAIN stale[w] = {},
         MarkRunning(w, S),
         pc' = [pc EXCEPT ![w] = "idle"],
         UNCHANGED <<now, up, stale, faults>>
  PROVE  IInv'
<1> USE QueueAssumption DEF IInv, MarkRunning, faults
<1>0. /\ S \subseteq Job
      /\ \A j \in S : Owner[j] = w /\ status[j] = "pending"
  BY DEF Claimable
<1>1. TypeOK'
  BY <1>0 DEF TypeOK, Status, DeepPC
<1>2. HeldJobsAreRunning'
  BY <1>0 DEF TypeOK, HeldJobsAreRunning
<1>3. SnapshotIsCurrent'
  BY <1>0, SnapshotElim DEF TypeOK, SnapshotIsCurrent, DeepPC
<1>4. StartsAreCounted'
  <2> SUFFICES ASSUME NEW j \in Job
               PROVE  /\ starts'[j] = attempts'[j]
                            + (IF status'[j] \in {"running", "completed"} THEN 1 ELSE 0)
                      /\ status'[j] \in {"none", "pending", "running", "completed"}
                           => attempts'[j] < MaxAttempts
                      /\ status'[j] = "none" => attempts'[j] = 0
    BY DEF StartsAreCounted
  <2>1. CASE j \in S
    BY <1>0, <2>1 DEF TypeOK, StartsAreCounted
  <2>2. CASE j \notin S
    BY <1>0, <2>2 DEF TypeOK, StartsAreCounted
  <2>3. QED
    BY <2>1, <2>2
<1>5. QED
  BY <1>1, <1>2, <1>3, <1>4

LEMMA ClaimNextJobStep ==
  ASSUME IInv, NEW w \in Worker, ClaimNextJob(w)
  PROVE  IInv'
<1>1. PICK j \in Claimable(w) : MarkRunning(w, {j})
  BY DEF ClaimNextJob
<1>2. DOMAIN stale[w] = {} /\ pc[w] = "idle" /\ hand[w] = {}
  BY DEF ClaimNextJob, IInv, SnapshotIsCurrent
<1>3. pc' = [pc EXCEPT ![w] = "idle"] /\ UNCHANGED <<now, up, stale, faults>>
  BY <1>2 DEF ClaimNextJob, IInv, TypeOK
<1>4. QED
  BY <1>1, <1>2, <1>3, MarkRunningStep

LEMMA ClaimJobsStep ==
  ASSUME IInv, NEW w \in Worker, ClaimJobs(w)
  PROVE  IInv'
<1>1. PICK S \in SUBSET Claimable(w) : MarkRunning(w, S)
  BY DEF ClaimJobs
<1>2. DOMAIN stale[w] = {} /\ hand[w] = {}
  BY DEF ClaimJobs, IInv, SnapshotIsCurrent
<1>3. pc' = [pc EXCEPT ![w] = "idle"] /\ UNCHANGED <<now, up, stale, faults>>
  BY DEF ClaimJobs
<1>4. QED
  BY <1>1, <1>2, <1>3, MarkRunningStep

(* A loop that holds a job is not in the middle of a reset, and no other     *)
(* loop's snapshot names the job.                                            *)
LEMMA HeldIsNotStale ==
  ASSUME IInv, NEW w \in Worker, NEW j \in hand[w], NEW v \in Worker
  PROVE  j \in Job /\ j \notin DOMAIN stale[v] /\ (v # w => j \notin hand[v])
BY DEF IInv, TypeOK, HeldJobsAreRunning, SnapshotIsCurrent

LEMMA CompleteStep ==
  ASSUME IInv, NEW w \in Worker, NEW j \in Job, CompleteJob(w, j)
  PROVE  IInv'
<1> USE QueueAssumption DEF IInv, CompleteJob, faults
<1>1. TypeOK'
  BY DEF TypeOK, Status
<1>2. HeldJobsAreRunning'
  BY HeldIsNotStale DEF TypeOK, HeldJobsAreRunning
<1>3. SnapshotIsCurrent'
  BY HeldIsNotStale, SnapshotElim DEF TypeOK, SnapshotIsCurrent
<1>4. StartsAreCounted'
  BY DEF TypeOK, StartsAreCounted, HeldJobsAreRunning
<1>5. QED
  BY <1>1, <1>2, <1>3, <1>4

LEMMA FailStep ==
  ASSUME IInv, NEW w \in Worker, NEW j \in Job, FailJob(w, j)
  PROVE  IInv'
<1> USE QueueAssumption DEF IInv, FailJob, faults
<1>0. /\ status[j] = "running" /\ attempts[j] < MaxAttempts
      /\ attempts[j] + 1 \in 0 .. MaxAttempts
      /\ Backoff(attempts[j] + 1) \in Nat
  <2>1. status[j] = "running" /\ attempts[j] < MaxAttempts
    BY DEF HeldJobsAreRunning, StartsAreCounted
  <2>2. attempts[j] + 1 \in 0 .. MaxAttempts
    BY <2>1 DEF TypeOK
  <2>3. QED
    BY <2>1, <2>2, BackoffNat
<1>1. TypeOK'
  <2>1. now + Backoff(attempts[j] + 1) \in Nat
    BY <1>0 DEF TypeOK
  <2>2. runAfter' \in [Job -> Nat] /\ status' \in [Job -> Status]
    BY <2>1 DEF TypeOK, Status
  <2>3. QED
    BY <1>0, <2>2 DEF TypeOK
<1>2. HeldJobsAreRunning'
  BY HeldIsNotStale DEF TypeOK, HeldJobsAreRunning
<1>3. SnapshotIsCurrent'
  BY HeldIsNotStale, SnapshotElim DEF TypeOK, SnapshotIsCurrent
<1>4. StartsAreCounted'
  BY <1>0 DEF TypeOK, StartsAreCounted
<1>5. QED
  BY <1>1, <1>2, <1>3, <1>4

LEMMA FinishErrorStep ==
  ASSUME IInv, NEW w \in Worker, NEW j \in Job, FinishError(w, j)
  PROVE  IInv'
<1> USE QueueAssumption DEF IInv, FinishError, rows
<1>1. TypeOK'
  BY DEF TypeOK
<1>2. HeldJobsAreRunning'
  BY DEF TypeOK, HeldJobsAreRunning
<1>3. SnapshotIsCurrent'
  BY DEF TypeOK, SnapshotIsCurrent
<1>4. StartsAreCounted'
  BY DEF StartsAreCounted
<1>5. QED
  BY <1>1, <1>2, <1>3, <1>4

LEMMA SelectStaleStep ==
  ASSUME IInv, NEW w \in Worker, SelectStale(w)
  PROVE  IInv'
<1> USE QueueAssumption DEF IInv, SelectStale, rows, faults
<1> DEFINE f == [j \in StaleRows(w) |-> attempts[j]]
<1>0. f \in Snapshot /\ DOMAIN f = StaleRows(w)
  <2>1. StaleRows(w) \in SUBSET Job
    BY DEF StaleRows
  <2>2. f \in [StaleRows(w) -> 0 .. MaxAttempts]
    BY <2>1 DEF TypeOK
  <2>3. QED
    BY <2>1, <2>2, SnapshotIntro
<1>1. TypeOK'
  BY <1>0 DEF TypeOK, DeepPC
<1>2. HeldJobsAreRunning'
  BY DEF HeldJobsAreRunning
<1>3. SnapshotIsCurrent'
  <2> SUFFICES ASSUME NEW v \in Worker
               PROVE  /\ pc'[v] # "idle" => v \in Deep /\ hand'[v] = {}
                      /\ pc'[v] # "reset" => DOMAIN stale'[v] = {}
                      /\ \A j \in DOMAIN stale'[v] :
                           status'[j] = "running" /\ Owner[j] = v
                             /\ stale'[v][j] = attempts'[j]
    BY DEF SnapshotIsCurrent
  <2>1. CASE v = w
    <3>1. stale'[v] = f
      BY <2>1 DEF TypeOK
    <3>2. \A j \in StaleRows(w) : status[j] = "running" /\ Owner[j] = w
      BY DEF StaleRows
    <3>3. QED
      BY <2>1, <3>1, <3>2, <1>0 DEF TypeOK, SnapshotIsCurrent
  <2>2. CASE v # w
    BY <2>2 DEF TypeOK, SnapshotIsCurrent
  <2>3. QED
    BY <2>1, <2>2
<1>4. StartsAreCounted'
  BY DEF StartsAreCounted
<1>5. QED
  BY <1>1, <1>2, <1>3, <1>4

(* The transaction of ResetStaleJobs adds one to the attempts it read        *)
(* before; they are still the row's attempts because the rows it selected    *)
(* are in nobody's hand.                                                     *)
LEMMA ResetStep ==
  ASSUME IInv, NEW w \in Worker, ResetStaleJobs(w)
  PROVE  IInv'
<1> USE QueueAssumption DEF IInv, faults
<1> DEFINE D == DOMAIN stale[w]
<1>1. /\ D \subseteq Job
      /\ \A j \in D : /\ status[j] = "running" /\ Owner[j] = w
                      /\ stale[w][j] = attempts[j] /\ attempts[j] < MaxAttempts
                      /\ attempts[j] + 1 \in 0 .. MaxAttempts
      /\ w \in Deep /\ hand[w] = {}
  <2>1. D \subseteq Job
    BY SnapshotElim DEF TypeOK
  <2>2. QED
    BY <2>1 DEF TypeOK, SnapshotIsCurrent, StartsAreCounted, ResetStaleJobs
<1>2. /\ \A j \in D : /\ status'[j] = IF attempts[j] + 1 >= MaxAttempts
                                        THEN "failed" ELSE "pending"
                      /\ attempts'[j] = attempts[j] + 1
                      /\ updatedAt'[j] = 0
      /\ \A j \in Job \ D : /\ status'[j] = status[j]
                            /\ attempts'[j] = attempts[j]
                            /\ updatedAt'[j] = updatedAt[j]
      /\ DOMAIN status' = Job /\ DOMAIN attempts' = Job /\ DOMAIN updatedAt' = Job
      /\ status' = [j \in Job |-> status'[j]]
      /\ attempts' = [j \in Job |-> attempts'[j]]
      /\ updatedAt' = [j \in Job |-> updatedAt'[j]]
  BY <1>1 DEF ResetStaleJobs
<1>3. /\ stale' = [stale EXCEPT ![w] = NoRows]
      /\ pc' = [pc EXCEPT ![w] = "claim"]
      /\ UNCHANGED <<runAfter, now, up, hand, crashes, storeErrors, starts>>
  BY DEF ResetStaleJobs
<1>4. TypeOK'
  <2>1. status' \in [Job -> Status]
    <3>1. \A j \in Job : status'[j] \in Status
      BY <1>1, <1>2 DEF TypeOK, Status
    <3>2. QED
      BY <3>1, <1>2
  <2>2. attempts' \in [Job -> 0 .. MaxAttempts]
    <3>1. \A j \in Job : attempts'[j] \in 0 .. MaxAttempts
      BY <1>1, <1>2 DEF TypeOK
    <3>2. QED
      BY <3>1, <1>2
  <2>3. updatedAt' \in [Job -> Nat]
    <3>1. \A j \in Job : updatedAt'[j] \in Nat
      BY <1>1, <1>2 DEF TypeOK
    <3>2. QED
      BY <3>1, <1>2
  <2>4. stale' \in [Worker -> Snapshot] /\ pc' \in [Worker -> DeepPC]
    BY <1>3, NoRowsIsSnapshot DEF TypeOK, DeepPC
  <2>5. QED
    BY <1>3, <2>1, <2>2, <2>3, <2>4 DEF TypeOK
<1>5. HeldJobsAreRunning'
  <2> SUFFICES ASSUME NEW v \in Worker, NEW j \in hand[v]
               PROVE  status'[j] = "running" /\ Owner[j] = v
    BY <1>3 DEF HeldJobsAreRunning
  <2>1. j \in Job \ D
    BY HeldIsNotStale
  <2>2. QED
    BY <2>1, <1>2 DEF HeldJobsAreRunning
<1>6. SnapshotIsCurrent'
  <2> SUFFICES ASSUME NEW v \in Worker
               PROVE  /\ pc'[v] # "idle" => v \in Deep /\ hand'[v] = {}
                      /\ pc'[v] # "reset" => DOMAIN stale'[v] = {}
                      /\ \A j \in DOMAIN stale'[v] :
                           status'[j] = "running" /\ Owner[j] = v
                             /\ stale'[v][j] = attempts'[j]
    BY DEF SnapshotIsCurrent
  <2>1. CASE v = w
    BY <2>1, <1>1, <1>3, NoRowsIsSnapshot DEF TypeOK
  <2>2. CASE v # w
    <3>1. stale'[v] = stale[v] /\ pc'[v] = pc[v] /\ hand'[v] = hand[v]
      BY <2>2, <1>3 DEF TypeOK
    <3>2. \A j \in DOMAIN stale[v] : j \in Job \ D
      BY <2>2, <1>1, SnapshotElim DEF TypeOK, SnapshotIsCurrent
    <3>3. QED
      BY <3>1, <3>2, <1>2 DEF SnapshotIsCurrent
  <2>3. QED
    BY <2>1, <2>2
<1>7. StartsAreCounted'
  <2> SUFFICES ASSUME NEW j \in Job
               PROVE  /\ starts'[j] = attempts'[j]
                            + (IF status'[j] \in {"running", "completed"} THEN 1 ELSE 0)
                      /\ status'[j] \in {"none", "pending", "running", "completed"}
                           => attempts'[j] < MaxAttempts
                      /\ status'[j] = "none" => attempts'[j] = 0
    BY DEF StartsAreCounted
  <2>1. CASE j \in D
    BY <2>1, <1>1, <1>2, <1>3 DEF TypeOK, StartsAreCounted
  <2>2. CASE j \notin D
    BY <2>2, <1>2, <1>3 DEF StartsAreCounted
  <2>3. QED
    BY <2>1, <2>2
<1>8. QED
  BY <1>4, <1>5, <1>6, <1>7

LEMMA ResetErrorStep ==
  ASSUME IInv, NEW w \in Worker, ResetError(w)
  PROVE  IInv'
<1> USE QueueAssumption, NoRowsIsSnapshot DEF IInv, ResetError, rows
<1>1. TypeOK'
  BY DEF TypeOK, DeepPC
<1>2. HeldJobsAreRunning'
  BY DEF HeldJobsAreRunning
<1>3. SnapshotIsCurrent'
  BY DEF TypeOK, SnapshotIsCurrent
<1>4. StartsAreCounted'
  BY DEF StartsAreCounted
<1>5. QED
  BY <1>1, <1>2, <1>3, <1>4

LEMMA ClaimErrorStep ==
  ASSUME IInv, NEW w \in Worker, ClaimError(w)
  PROVE  IInv'
<1> USE QueueAssumption DEF IInv, ClaimError, rows
<1>1. TypeOK'
  BY DEF TypeOK, DeepPC
<1>2. HeldJobsAreRunning'
  BY DEF HeldJobsAreRunning
<1>3. SnapshotIsCurrent'
  BY DEF TypeOK, SnapshotIsCurrent
<1>4. StartsAreCounted'
  BY DEF StartsAreCounted
<1>5. QED
  BY <1>1, <1>2, <1>3, <1>4

LEMMA CrashStep ==
  ASSUME IInv, Crash
  PROVE  IInv'
<1> USE QueueAssumption, NoRowsIsSnapshot DEF IInv, Crash, rows
<1>1. TypeOK'
  <2>1. crashes' \in 0 .. MaxCrashes
    BY DEF TypeOK
  <2>2. up' \in BOOLEAN
    BY Zenon
  <2>3. /\ hand' \in [Worker -> SUBSET Job]
        /\ pc' \in [Worker -> DeepPC]
        /\ stale' \in [Worker -> Snapshot]
    BY DEF DeepPC
  <2>4. UNCHANGED <<status, attempts, runAfter, updatedAt, now, storeErrors, starts>>
    OBVIOUS
  <2>5. QED
    BY <2>1, <2>2, <2>3, <2>4 DEF TypeOK
<1>2. HeldJobsAreRunning' /\ SnapshotIsCurrent'
  BY DEF HeldJobsAreRunning, SnapshotIsCurrent
<1>3. StartsAreCounted'
  BY DEF StartsAreCounted
<1>4. QED
  BY <1>1, <1>2, <1>3

LEMMA QuietStep ==
  ASSUME IInv, Restart \/ Tick \/ UNCHANGED vars
  PROVE  IInv'
<1> USE QueueAssumption DEF IInv, vars, rows, faults
<1>1. /\ up' \in BOOLEAN
      /\ now' \in Nat
      /\ UNCHANGED <<status, attempts, runAfter, updatedAt, hand, pc, stale, crashes,
                     storeErrors, starts>>
  <2>1. CASE Restart
    <3>1. up' \in BOOLEAN
      BY <2>1, Zenon DEF Restart
    <3>2. QED
      BY <2>1, <3>1 DEF Restart, TypeOK
  <2>2. CASE Tick
    BY <2>2 DEF Tick, TypeOK
  <2>3. CASE UNCHANGED vars
    BY <2>3 DEF TypeOK
  <2>4. QED
    BY <2>1, <2>2, <2>3
<1>2. TypeOK'
  BY <1>1 DEF TypeOK
<1>3. HeldJobsAreRunning' /\ SnapshotIsCurrent' /\ StartsAreCounted'
  BY <1>1 DEF HeldJobsAreRunning, SnapshotIsCurrent, StartsAreCounted
<1>4. QED
  BY <1>2, <1>3

LEMMA NextIInv == IInv /\ [Next]_vars => IInv'
<1> SUFFICES ASSUME IInv, [Next]_vars PROVE IInv'
  OBVIOUS
<1>1. ASSUME NEW j \in Job, EnqueueJob(j) PROVE IInv'
  BY <1>1, EnqueueStep
<1>2. ASSUME NEW w \in Worker, WorkerStep(w) PROVE IInv'
  BY <1>2, ClaimNextJobStep, ClaimJobsStep, SelectStaleStep, ResetStep, CompleteStep, FailStep
     DEF WorkerStep, FinishOne
<1>3. ASSUME NEW w \in Worker, WorkerError(w) PROVE IInv'
  BY <1>3, ResetErrorStep, ClaimErrorStep, FinishErrorStep DEF WorkerError
<1>4. ASSUME Crash \/ Restart \/ Tick \/ UNCHANGED vars PROVE IInv'
  BY <1>4, CrashStep, QuietStep
<1>5. QED
  BY <1>1, <1>2, <1>3, <1>4 DEF Next

LEMMA Invariance == Spec => []IInv
BY InitIInv, NextIInv, PTL DEF Spec

-----------------------------------------------------------------------------
(* The table, the hands of the loops and the deep loop's selection always    *)
(* have their types; in particular attempts never exceeds max_attempts.      *)
THEOREM TypeCorrect == Spec => []TypeOK
BY Invariance, PTL DEF IInv

(* A loop only ever works on a job the table shows as running: neither the   *)
(* claims nor ResetStaleJobs take a job from under the loop that holds it.   *)
THEOREM HeldJobsRun == Spec => []HeldJobsAreRunning
BY Invariance, PTL DEF IInv

(* No interleaving of crashes, failed writes, retries and resets hands a job *)
(* out more than max_attempts times.                                         *)
THEOREM StartsAreBounded == Spec => []StartsBounded
<1>1. IInv => StartsBounded
  BY QueueAssumption DEF IInv, TypeOK, StartsAreCounted, StartsBounded
<1>2. QED
  BY <1>1, Invariance, PTL

-----------------------------------------------------------------------------
(* What one step may do to one row. *)
RowMove(j) ==
  \/ status'[j] = status[j] /\ starts'[j] = starts[j]
  \/ status[j] = "none" /\ status'[j] = "pending" /\ starts'[j] = starts[j]
  \/ status[j] = "pending" /\ status'[j] = "running" /\ starts'[j] = starts[j] + 1
  \/ /\ status[j] = "running" /\ starts'[j] = starts[j]
     /\ status'[j] \in {"pending", "completed", "failed"}

LEMMA ClaimMoves ==
  ASSUME IInv, NEW w \in Worker, NEW S \in SUBSET Claimable(w), MarkRunning(w, S),
         NEW j \in Job
  PROVE  RowMove(j)
<1>1. CASE j \in S
  BY <1>1 DEF MarkRunning, Claimable, RowMove
<1>2. CASE j \notin S
  BY <1>2 DEF MarkRunning, RowMove
<1>3. QED
  BY <1>1, <1>2

LEMMA StepMoves ==
  ASSUME IInv, [Next]_vars, NEW j \in Job
  PROVE  RowMove(j)
<1> USE DEF IInv
<1>1. ASSUME NEW i \in Job, EnqueueJob(i) PROVE RowMove(j)
  BY <1>1 DEF EnqueueJob, RowMove, TypeOK
<1>2. ASSUME NEW w \in Worker, ClaimNextJob(w) PROVE RowMove(j)
  BY <1>2, ClaimMoves DEF ClaimNextJob
<1>3. ASSUME NEW w \in Worker, ClaimJobs(w) PROVE RowMove(j)
  BY <1>3, ClaimMoves DEF ClaimJobs
<1>4. ASSUME NEW w \in Worker, NEW i \in Job, CompleteJob(w, i) PROVE RowMove(j)
  BY <1>4 DEF CompleteJob, RowMove, TypeOK, HeldJobsAreRunning
<1>5. ASSUME NEW w \in Worker, NEW i \in Job, FailJob(w, i) PROVE RowMove(j)
  BY <1>5 DEF FailJob, RowMove, TypeOK, HeldJobsAreRunning
<1>6. ASSUME NEW w \in Worker, ResetStaleJobs(w) PROVE RowMove(j)
  BY <1>6 DEF ResetStaleJobs, RowMove
<1>7. ASSUME NEW w \in Worker, SelectStale(w) \/ WorkerError(w) PROVE RowMove(j)
  BY <1>7 DEF SelectStale, WorkerError, ResetError, ClaimError, FinishError, rows, RowMove
<1>8. ASSUME Crash \/ Restart \/ Tick \/ UNCHANGED vars PROVE RowMove(j)
  BY <1>8 DEF Crash, Restart, Tick, vars, rows, RowMove
<1>9. QED
  BY <1>1, <1>2, <1>3, <1>4, <1>5, <1>6, <1>7, <1>8 DEF Next, WorkerStep, FinishOne

(* No step changes the verdict of a completed or failed job: an update by id *)
(* only ever meets a row that is running, although it does not look.         *)
THEOREM VerdictsStand == Spec => VerdictIsFinal
<1>1. IInv /\ [Next]_vars =>
        [\A j \in Job : status[j] \in {"completed", "failed"} => status'[j] = status[j]]_vars
  BY StepMoves DEF RowMove
<1>2. QED
  BY <1>1, Invariance, PTL DEF Spec, VerdictIsFinal

-----------------------------------------------------------------------------
(* Refinement: initial states are the ledger's, every step is a ledger move. *)
LEMMA LedgerInit == Init => Ledger!Init
BY DEF Init, Ledger!Init, phase

LEMMA LedgerStep == IInv /\ IInv' /\ [Next]_vars => [Ledger!Next]_(Ledger!vars)
<1> SUFFICES ASSUME IInv, IInv', [Next]_vars PROVE Ledger!Next
  OBVIOUS
<1>1. phase' \in [Job -> Ledger!Phase]
  BY DEF phase, Ledger!Phase
<1>2. starts' \in [Job -> Nat]
  BY DEF IInv, TypeOK
<1>3. ASSUME NEW j \in Job
      PROVE  \/ Ledger!Stay(j) \/ Ledger!Submit(j) \/ Ledger!Take(j)
             \/ Ledger!PutBack(j) \/ Ledger!Close(j)
  <2>1. RowMove(j)
    BY <1>3, StepMoves
  <2>2. status[j] = "pending" => starts[j] < MaxAttempts
    BY QueueAssumption DEF IInv, TypeOK, StartsAreCounted
  <2>3. status[j] \in Status /\ status'[j] \in Status
    BY DEF IInv, TypeOK
  <2>4. QED
    BY <2>1, <2>2, <2>3
       DEF RowMove, Status, phase, Ledger!Stay, Ledger!Submit, Ledger!Take,
           Ledger!PutBack, Ledger!Close
<1>4. QED
  BY <1>1, <1>2, <1>3 DEF Ledger!Next

(* The queue keeps the ledger's promise for every number of jobs, loops,     *)
(* crashes and failed writes.                                                *)
THEOREM QueueImplementsLedger == Spec => ImplementsLedger
<1>1. IInv /\ IInv' /\ [Next]_vars => [Ledger!Next]_(Ledger!vars)
  BY LedgerStep
<1>2. QED
  BY <1>1, LedgerInit, Invariance, PTL DEF Spec, ImplementsLedger, Ledger!Spec

-----------------------------------------------------------------------------
(* What faults can strand. *)
HandLimit(w) == IF w \in Deep THEN ClaimLimit ELSE 1

HandsBounded ==
  \A w \in Worker : IsFiniteSet(hand[w]) /\ Cardinality(hand[w]) <= HandLimit(w)

Held == UNION {hand[w] : w \in Worker}

PerCrash == ClaimLimit * Cardinality(Deep) + Cardinality(Worker \ Deep)

(* Rows are inserted one by one, so the table is finite whatever Job is.     *)
Table == {j \in Job : status[j] # "none"}

OrphanInv ==
  /\ IsFiniteSet(Table)
  /\ HandsBounded
  /\ IsFiniteSet(Orphans)
  /\ OrphansComeFromFaults

(* The places jobs can be held in: one for a loop that claims one job at a   *)
(* time, one for each job of the batch of a deep loop.                       *)
Places == (Deep \X (1 .. ClaimLimit)) \cup ((Worker \ Deep) \X {1})

LEMMA PlacesCounted == IsFiniteSet(Places) /\ Cardinality(Places) = PerCrash /\ PerCrash \in Nat
<1> USE QueueAssumption
<1> DEFINE D == Deep \X (1 .. ClaimLimit)
           R == (Worker \ Deep) \X {1}
<1>1. /\ IsFiniteSet(Deep) /\ IsFiniteSet(Worker \ Deep)
      /\ Cardinality(Deep) \in Nat /\ Cardinality(Worker \ Deep) \in Nat
  BY FS_Subset, FS_CardinalityType
<1>2. IsFiniteSet(1 .. ClaimLimit) /\ Cardinality(1 .. ClaimLimit) = ClaimLimit
  BY FS_Interval
<1>3. IsFiniteSet({1}) /\ Cardinality({1}) = 1
  BY FS_Singleton
<1>4. IsFiniteSet(D) /\ Cardinality(D) = Cardinality(Deep) * ClaimLimit
  BY <1>1, <1>2, FS_Product
<1>5. IsFiniteSet(R) /\ Cardinality(R) = Cardinality(Worker \ Deep) * 1
  BY <1>1, <1>3, FS_Product
<1>6. D \cap R = {}
  OBVIOUS
<1>7. IsFiniteSet(D \cup R) /\ Cardinality(D \cup R) = Cardinality(D) + Cardinality(R) - 0
  BY <1>4, <1>5, <1>6, FS_Union, FS_EmptySet
<1>8. Cardinality(Deep) * ClaimLimit = ClaimLimit * Cardinality(Deep)
  BY <1>1
<1>9. ClaimLimit * Cardinality(Deep) \in Nat
  BY <1>1
<1>10. QED
  BY <1>1, <1>4, <1>5, <1>7, <1>8, <1>9 DEF Places, PerCrash

(* What one loop holds can be numbered within its limit. *)
LEMMA HandNumbered ==
  ASSUME HandsBounded, NEW w \in Worker
  PROVE  \E g \in [hand[w] -> 1 .. HandLimit(w)] :
           \A i, j \in hand[w] : g[i] = g[j] => i = j
<1> DEFINE n == Cardinality(hand[w])
<1>1. /\ n \in Nat /\ n <= HandLimit(w)
      /\ ExistsBijection(1 .. n, hand[w])
  BY FS_CardinalityType DEF HandsBounded
<1>2. PICK f \in [1 .. n -> hand[w]] :
        \A j \in hand[w] : \E k \in 1 .. n : f[k] = j
  BY <1>1 DEF ExistsBijection, Bijection, Surjection
<1> DEFINE g == [j \in hand[w] |-> CHOOSE k \in 1 .. n : f[k] = j]
<1>3. \A j \in hand[w] : g[j] \in 1 .. n /\ f[g[j]] = j
  BY <1>2
<1>4. HandLimit(w) \in Nat
  BY QueueAssumption DEF HandLimit
<1>5. \A j \in hand[w] : g[j] \in 1 .. HandLimit(w)
  <2>1. 1 .. n \subseteq 1 .. HandLimit(w)
    BY <1>1, <1>4
  <2>2. QED
    BY <2>1, <1>3
<1>6. g \in [hand[w] -> 1 .. HandLimit(w)]
  BY <1>5
<1>7. \A i, j \in hand[w] : g[i] = g[j] => i = j
  BY <1>3
<1>8. QED
  BY <1>6, <1>7

(* All the loops together hold at most what one crash is charged with.       *)
LEMMA HeldCounted ==
  ASSUME TypeOK, HeldJobsAreRunning, HandsBounded
  PROVE  IsFiniteSet(Held) /\ Cardinality(Held) <= PerCrash
<1> DEFINE Num(w) == CHOOSE g \in [hand[w] -> 1 .. HandLimit(w)] :
                       \A i, j \in hand[w] : g[i] = g[j] => i = j
           f == [j \in Held |-> <<Owner[j], Num(Owner[j])[j]>>]
<1>1. \A w \in Worker : /\ Num(w) \in [hand[w] -> 1 .. HandLimit(w)]
                        /\ \A i, j \in hand[w] : Num(w)[i] = Num(w)[j] => i = j
  BY HandNumbered
<1> HIDE DEF Num
<1>2. \A j \in Held : Owner[j] \in Worker /\ j \in hand[Owner[j]]
  BY DEF Held, HeldJobsAreRunning
<1>3. \A j \in Held : f[j] \in Places
  <2> SUFFICES ASSUME NEW j \in Held PROVE <<Owner[j], Num(Owner[j])[j]>> \in Places
    OBVIOUS
  <2>1. Num(Owner[j])[j] \in 1 .. HandLimit(Owner[j])
    BY <1>1, <1>2
  <2>2. CASE Owner[j] \in Deep
    BY <2>1, <2>2 DEF HandLimit, Places
  <2>3. CASE Owner[j] \notin Deep
    <3>1. Num(Owner[j])[j] = 1
      BY <2>1, <2>3 DEF HandLimit
    <3>2. QED
      BY <1>2, <2>3, <3>1 DEF Places
  <2>4. QED
    BY <2>2, <2>3
<1>4. f \in Injection(Held, Places)
  <2>1. \A i, j \in Held : f[i] = f[j] => i = j
    BY <1>1, <1>2
  <2>2. f \in [Held -> Places]
    BY <1>3
  <2>3. QED
    BY <2>1, <2>2 DEF Injection, IsInjective
<1>5. QED
  BY <1>4, PlacesCounted, FS_Injection

(* A fault pays for the orphans it makes.                                    *)
LEMMA Charges ==
  ASSUME TypeOK, OrphanInv, Cardinality(Orphans) \in Nat, Cardinality(Orphans') \in Nat,
         \/ /\ storeErrors' = storeErrors + 1 /\ crashes' = crashes
            /\ Cardinality(Orphans') <= Cardinality(Orphans) + 1
         \/ /\ storeErrors' = storeErrors /\ crashes' = crashes + 1
            /\ Cardinality(Orphans') <= Cardinality(Orphans) + PerCrash
  PROVE  OrphansComeFromFaults'
<1>1. storeErrors \in Nat /\ crashes \in Nat /\ PerCrash \in Nat
  BY PlacesCounted, QueueAssumption DEF TypeOK
<1>2. \A a, b \in Nat : a * b \in Nat /\ (a + 1) * b = a * b + b
  OBVIOUS
<1>3. Cardinality(Orphans) <= storeErrors + crashes * PerCrash
  BY DEF OrphanInv, OrphansComeFromFaults, PerCrash
<1>4. Cardinality(Orphans') <= storeErrors' + crashes' * PerCrash
  <2>1. CASE crashes' = crashes /\ storeErrors' = storeErrors + 1
    <3> DEFINE lost == crashes * PerCrash
    <3>1. lost \in Nat
      BY <1>1, <1>2
    <3> HIDE DEF lost
    <3>2. QED
      BY <1>1, <1>3, <2>1, <3>1 DEF lost
  <2>2. CASE crashes' = crashes + 1 /\ storeErrors' = storeErrors
    <3>1. crashes * PerCrash \in Nat /\ crashes' * PerCrash = crashes * PerCrash + PerCrash
      BY <1>1, <1>2, <2>2
    <3>2. QED
      BY <1>1, <1>3, <2>2, <3>1
  <2>3. QED
    BY <1>1, <2>1, <2>2
<1>5. QED
  BY <1>4 DEF OrphansComeFromFaults, PerCrash

(* Without a fault the set of orphans does not grow.                         *)
LEMMA OrphansShrink ==
  ASSUME TypeOK, OrphanInv, Orphans' \subseteq Orphans,
         storeErrors' = storeErrors \/ storeErrors' = storeErrors + 1, crashes' = crashes
  PROVE  IsFiniteSet(Orphans') /\ OrphansComeFromFaults'
<1> DEFINE lost == crashes * PerCrash
<1>1. /\ IsFiniteSet(Orphans') /\ Cardinality(Orphans') \in Nat
      /\ Cardinality(Orphans') <= Cardinality(Orphans) /\ Cardinality(Orphans) \in Nat
  BY FS_Subset, FS_CardinalityType DEF OrphanInv
<1>2. lost \in Nat /\ Cardinality(Orphans) <= storeErrors + lost
  BY PlacesCounted, QueueAssumption DEF TypeOK, OrphanInv, OrphansComeFromFaults, PerCrash
<1>3. storeErrors \in Nat
  BY QueueAssumption DEF TypeOK
<1>4. Cardinality(Orphans') <= storeErrors' + lost
  BY <1>1, <1>2, <1>3
<1>5. QED
  BY <1>1, <1>4 DEF OrphansComeFromFaults, PerCrash

(* A step that hands out nothing and takes jobs out of hands only when it    *)
(* closes or requeues their rows.                                            *)
LEMMA HandsKept ==
  ASSUME TypeOK, OrphanInv, UNCHANGED hand
  PROVE  HandsBounded'
BY DEF OrphanInv, HandsBounded, HandLimit

LEMMA HandReduced ==
  ASSUME TypeOK, OrphanInv, NEW w \in Worker, NEW j, hand' = [hand EXCEPT ![w] = @ \ {j}]
  PROVE  HandsBounded'
<1> SUFFICES ASSUME NEW v \in Worker
             PROVE  IsFiniteSet(hand'[v]) /\ Cardinality(hand'[v]) <= HandLimit(v)
  BY DEF HandsBounded, HandLimit
<1>1. IsFiniteSet(hand[v]) /\ Cardinality(hand[v]) <= HandLimit(v)
  BY DEF OrphanInv, HandsBounded
<1>2. hand'[v] \subseteq hand[v]
  BY DEF TypeOK
<1>3. /\ IsFiniteSet(hand'[v]) /\ Cardinality(hand'[v]) \in Nat /\ Cardinality(hand[v]) \in Nat
      /\ Cardinality(hand'[v]) <= Cardinality(hand[v])
  BY <1>1, <1>2, FS_Subset, FS_CardinalityType
<1>4. HandLimit(v) \in Nat
  BY QueueAssumption DEF HandLimit
<1>5. QED
  BY <1>1, <1>3, <1>4

LEMMA ClaimKeepsOrphans ==
  ASSUME IInv, OrphanInv, NEW w \in Worker, NEW S \in SUBSET Claimable(w), hand[w] = {},
         MarkRunning(w, S), UNCHANGED faults,
         IsFiniteSet(S), Cardinality(S) <= HandLimit(w)
  PROVE  HandsBounded' /\ IsFiniteSet(Orphans') /\ OrphansComeFromFaults'
<1> USE DEF IInv, MarkRunning, faults
<1>1. HandsBounded'
  BY DEF TypeOK, OrphanInv, HandsBounded, HandLimit
<1>2. \A j \in S : j \in Job /\ Owner[j] = w
  BY DEF Claimable
<1>3. Orphans' \subseteq Orphans
  BY <1>2 DEF Orphans, TypeOK
<1>4. QED
  BY <1>1, <1>3, OrphansShrink DEF OrphanInv

(* Only an insert adds a row. *)
LEMMA TableGrowsByOne ==
  ASSUME IInv, IsFiniteSet(Table), [Next]_vars
  PROVE  IsFiniteSet(Table')
<1>1. ASSUME NEW i \in Job, EnqueueJob(i) PROVE IsFiniteSet(Table')
  <2>1. Table' \subseteq Table \cup {i}
    BY <1>1 DEF EnqueueJob, Table, IInv, TypeOK
  <2>2. QED
    BY <2>1, FS_AddElement, FS_Subset
<1>2. ASSUME \A i \in Job : ~EnqueueJob(i) PROVE IsFiniteSet(Table')
  <2>1. \A j \in Job : status[j] = "none" => status'[j] = "none"
    <3> SUFFICES ASSUME NEW j \in Job, status[j] = "none" PROVE status'[j] = "none"
      OBVIOUS
    <3>1. \A w \in Worker : j \notin hand[w] /\ j \notin Claimable(w)
      BY DEF IInv, HeldJobsAreRunning, Claimable
    <3>2. ASSUME NEW w \in Worker, WorkerStep(w) PROVE status'[j] = "none"
      BY <3>1, <3>2 DEF WorkerStep, FinishOne, ClaimNextJob, ClaimJobs, MarkRunning, CompleteJob,
                        FailJob, SelectStale, ResetStaleJobs, rows, IInv, TypeOK
    <3>3. QED
      BY <1>2, <3>2 DEF Next, WorkerError, ResetError, ClaimError, FinishError, Crash, Restart,
                        Tick, vars, rows
  <2>2. Table' \subseteq Table
    BY <2>1 DEF Table
  <2>3. QED
    BY <2>2, FS_Subset
<1>3. QED
  BY <1>1, <1>2

LEMMA OrphanStep == IInv /\ OrphanInv /\ [Next]_vars => OrphanInv'
<1> SUFFICES ASSUME IInv, OrphanInv, [Next]_vars PROVE OrphanInv'
  OBVIOUS
<1> DEFINE Kept == HandsBounded' /\ IsFiniteSet(Orphans') /\ OrphansComeFromFaults'

<1> USE DEF IInv
<1>1. ASSUME NEW w \in Worker, ClaimNextJob(w) PROVE Kept
  <2>1. PICK j \in Claimable(w) : MarkRunning(w, {j})
    BY <1>1 DEF ClaimNextJob
  <2>2. IsFiniteSet({j}) /\ Cardinality({j}) <= HandLimit(w)
    <3>1. HandLimit(w) = 1
      BY <1>1 DEF ClaimNextJob, HandLimit
    <3>2. IsFiniteSet({j}) /\ Cardinality({j}) = 1
      BY FS_Singleton
    <3>3. QED
      BY <3>1, <3>2
  <2>3. QED
    BY <1>1, <2>1, <2>2, ClaimKeepsOrphans DEF ClaimNextJob
<1>2. ASSUME NEW w \in Worker, ClaimJobs(w) PROVE Kept
  <2>1. PICK S \in SUBSET Claimable(w) :
          /\ Cardinality(S) = Min2(ClaimLimit, Cardinality(Claimable(w)))
          /\ MarkRunning(w, S)
    BY <1>2 DEF ClaimJobs
  <2>2. w \in Deep /\ hand[w] = {} /\ UNCHANGED faults
    BY <1>2 DEF ClaimJobs, SnapshotIsCurrent
  <2>3. Claimable(w) \subseteq Table
    BY DEF Claimable, Table
  <2>4. IsFiniteSet(S) /\ Cardinality(Claimable(w)) \in Nat
    BY <2>3, FS_Subset, FS_CardinalityType DEF OrphanInv
  <2>5. Cardinality(S) <= HandLimit(w)
    BY <2>1, <2>2, <2>4, QueueAssumption DEF Min2, HandLimit
  <2>6. QED
    BY <2>1, <2>2, <2>4, <2>5, ClaimKeepsOrphans
<1>3. ASSUME NEW w \in Worker, NEW j \in Job, CompleteJob(w, j) \/ FailJob(w, j)
      PROVE  Kept
  <2>1. hand' = [hand EXCEPT ![w] = @ \ {j}] /\ UNCHANGED <<crashes, storeErrors>>
    BY <1>3 DEF CompleteJob, FailJob, faults
  <2>2. Orphans' \subseteq Orphans
    BY <1>3, <2>1 DEF CompleteJob, FailJob, Orphans, TypeOK, HeldJobsAreRunning
  <2>3. QED
    BY <2>1, <2>2, HandReduced, OrphansShrink DEF OrphanInv
<1>4. ASSUME NEW w \in Worker, NEW j \in Job, FinishError(w, j)
      PROVE  Kept
  <2>0. IsFiniteSet(Orphans) /\ Cardinality(Orphans) \in Nat
    BY FS_CardinalityType DEF OrphanInv
  <2>1. /\ hand' = [hand EXCEPT ![w] = @ \ {j}]
        /\ storeErrors' = storeErrors + 1 /\ crashes' = crashes /\ status' = status
    BY <1>4 DEF FinishError, rows
  <2>2. Orphans' \subseteq Orphans \cup {j}
    BY <2>1 DEF Orphans, TypeOK
  <2>3. /\ IsFiniteSet(Orphans') /\ Cardinality(Orphans') \in Nat
        /\ Cardinality(Orphans') <= Cardinality(Orphans) + 1
    <3>1. /\ IsFiniteSet(Orphans \cup {j}) /\ Cardinality(Orphans \cup {j}) \in Nat
          /\ Cardinality(Orphans \cup {j}) <= Cardinality(Orphans) + 1
      BY <2>0, FS_AddElement, FS_CardinalityType
    <3>2. /\ IsFiniteSet(Orphans') /\ Cardinality(Orphans') \in Nat
          /\ Cardinality(Orphans') <= Cardinality(Orphans \cup {j})
      BY <2>2, <3>1, FS_Subset, FS_CardinalityType
    <3>3. QED
      BY <2>0, <3>1, <3>2
  <2>4. OrphansComeFromFaults'
    BY <2>0, <2>1, <2>3, Charges
  <2>5. QED
    BY <2>1, <2>3, <2>4, HandReduced
<1>5. ASSUME Crash PROVE Kept
  <2>0. IsFiniteSet(Orphans) /\ Cardinality(Orphans) \in Nat
    BY FS_CardinalityType DEF OrphanInv
  <2>1. /\ hand' = [w \in Worker |-> {}]
        /\ storeErrors' = storeErrors /\ crashes' = crashes + 1 /\ status' = status
    BY <1>5 DEF Crash, rows
  <2>2. HandsBounded'
    BY <2>1, FS_EmptySet, QueueAssumption DEF HandsBounded, HandLimit
  <2>3. Orphans' \subseteq Orphans \cup Held
    BY <2>1, QueueAssumption DEF Orphans, Held
  <2>4. /\ IsFiniteSet(Held) /\ Cardinality(Held) \in Nat /\ Cardinality(Held) <= PerCrash
        /\ PerCrash \in Nat
    BY HeldCounted, PlacesCounted, FS_CardinalityType DEF OrphanInv
  <2>5. /\ IsFiniteSet(Orphans \cup Held) /\ Cardinality(Orphans \cup Held) \in Nat
        /\ Cardinality(Orphans \cup Held) <= Cardinality(Orphans) + Cardinality(Held)
    <3>1. Cardinality(Orphans \cap Held) \in Nat
      BY <2>0, FS_Intersection, FS_CardinalityType
    <3>2. /\ IsFiniteSet(Orphans \cup Held) /\ Cardinality(Orphans \cup Held) \in Nat
          /\ Cardinality(Orphans \cup Held)
               = Cardinality(Orphans) + Cardinality(Held) - Cardinality(Orphans \cap Held)
      BY <2>0, <2>4, FS_Union, FS_CardinalityType
    <3>3. QED
      BY <2>0, <2>4, <3>1, <3>2
  <2>6. /\ IsFiniteSet(Orphans') /\ Cardinality(Orphans') \in Nat
        /\ Cardinality(Orphans') <= Cardinality(Orphans \cup Held)
    BY <2>3, <2>5, FS_Subset, FS_CardinalityType
  <2>7. Cardinality(Orphans') <= Cardinality(Orphans) + PerCrash
    BY <2>0, <2>4, <2>5, <2>6
  <2>8. OrphansComeFromFaults'
    BY <2>0, <2>1, <2>6, <2>7, Charges
  <2>9. QED
    BY <2>2, <2>6, <2>8
<1>6. ASSUME UNCHANGED <<hand, crashes>>,
             storeErrors' = storeErrors \/ storeErrors' = storeErrors + 1,
             \A j \in Job : status'[j] = "running" => status[j] = "running"
      PROVE  Kept
  <2>1. Orphans' \subseteq Orphans
    BY <1>6 DEF Orphans
  <2>2. HandsBounded'
    BY <1>6, HandsKept
  <2>3. IsFiniteSet(Orphans') /\ OrphansComeFromFaults'
    BY <1>6, <2>1, OrphansShrink
  <2>4. QED
    BY <2>2, <2>3
<1> HIDE DEF Kept
<1>7. ASSUME NEW j \in Job, EnqueueJob(j) PROVE Kept
  BY <1>6, <1>7 DEF EnqueueJob, faults, TypeOK
<1>8. ASSUME NEW w \in Worker,
             SelectStale(w) \/ ResetStaleJobs(w) \/ ResetError(w) \/ ClaimError(w)
      PROVE Kept
  BY <1>6, <1>8 DEF SelectStale, ResetStaleJobs, ResetError, ClaimError, faults, rows
<1>9. ASSUME Restart \/ Tick \/ UNCHANGED vars PROVE Kept
  BY <1>6, <1>9 DEF Restart, Tick, vars, faults, rows
<1>10. Kept
  BY <1>1, <1>2, <1>3, <1>4, <1>5, <1>7, <1>8, <1>9 DEF Next, WorkerStep, WorkerError, FinishOne
<1>11. QED
  BY <1>10, TableGrowsByOne DEF Kept, OrphanInv
(* A job left running by nobody is the work of a crash or of a failed write: *)
(* claims, resets, retries and completions strand none, and each fault at    *)
(* most what was in the loops' hands.                                        *)
THEOREM OrphansAreCounted == Spec => []OrphansComeFromFaults
<1>1. Init => OrphanInv
  <2> SUFFICES ASSUME Init PROVE OrphanInv
    OBVIOUS
  <2>1. Table = {} /\ Orphans = {} /\ \A w \in Worker : hand[w] = {}
    BY DEF Init, Table, Orphans
  <2>2. HandsBounded
    BY <2>1, FS_EmptySet, QueueAssumption DEF HandsBounded, HandLimit
  <2>3. OrphansComeFromFaults
    <3>1. PerCrash \in Nat /\ 0 * PerCrash = 0
      BY PlacesCounted
    <3>2. QED
      BY <2>1, <3>1, FS_EmptySet DEF Init, OrphansComeFromFaults, PerCrash
  <2>4. QED
    BY <2>1, <2>2, <2>3, FS_EmptySet DEF OrphanInv
<1>2. OrphanInv => OrphansComeFromFaults
  BY DEF OrphanInv
<1>3. QED
  BY <1>1, <1>2, OrphanStep, Invariance, PTL DEF Spec
=============================================================================
