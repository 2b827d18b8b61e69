----------------------------- MODULE JobLedger -----------------------------
(***************************************************************************)
(* What the durable job queue promises to the code that enqueues a job,    *)
(* with every clock, worker and table column left out: a job is accepted   *)
(* once, handed out a bounded number of times, never to two holders at     *)
(* once, and once it is closed (completed or failed for good) it stays     *)
(* closed.  JobQueue is shown to implement this module.                    *)
(***************************************************************************)
EXTENDS Naturals

CONSTANTS
  Job,          \* job identifiers
  MaxAttempts   \* how often one job may be handed out

VARIABLES
  phase,        \* where each job is in its life
  starts        \* how often each job has been handed out

vars == <<phase, starts>>

Phase == {"absent", "open", "taken", "closed"}

TypeOK ==
  /\ phase \in [Job -> Phase]
  /\ starts \in [Job -> 0 .. MaxAttempts]

Init ==
  /\ phase = [j \in Job |-> "absent"]
  /\ starts = [j \in Job |-> 0]

(***************************************************************************)
(* One job's move.  Several jobs may move in one step: a batch is claimed, *)
(* and stale jobs are put back, in one database transaction.               *)
(***************************************************************************)
Stay(j) == phase'[j] = phase[j] /\ starts'[j] = starts[j]

Submit(j) ==
  /\ phase[j] = "absent" /\ phase'[j] = "open"
  /\ starts'[j] = starts[j]

Take(j) ==
  /\ phase[j] = "open" /\ phase'[j] = "taken"
  /\ starts[j] < MaxAttempts
  /\ starts'[j] = starts[j] + 1

PutBack(j) ==
  /\ phase[j] = "taken" /\ phase'[j] = "open"
  /\ starts'[j] = starts[j]

Close(j) ==
  /\ phase[j] = "taken" /\ phase'[j] = "closed"
  /\ starts'[j] = starts[j]

Next ==
  /\ phase' \in [Job -> Phase]
  /\ starts' \in [Job -> Nat]
  /\ \A j \in Job : Stay(j) \/ Submit(j) \/ Take(j) \/ PutBack(j) \/ Close(j)

Spec == Init /\ [][Next]_vars

=============================================================================
