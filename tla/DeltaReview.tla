---------------------------- MODULE DeltaReview ----------------------------
(***************************************************************************)
(* Proposed changes of the profile.  The nightly pass asks a model for a   *)
(* delta and stores it, once a day (internal/synthesis/nightly.go); the    *)
(* user accepts or rejects it (internal/api/deltas.go).  Accepting takes   *)
(* several calls: the row is marked first, the delta is applied to the     *)
(* profile in two phases (Manager.ApplyDelta), and when that fails the     *)
(* mark is taken back.  Requests run concurrently; passes do not, as one   *)
(* goroutine claims their jobs.                                            *)
(*                                                                         *)
(* Of the profile only what matters here is kept: how much of a delta its  *)
(* last application wrote.  Days are those of UTC.                         *)
(***************************************************************************)
EXTENDS Integers, FiniteSets

CONSTANTS
  Delta,      \* ids of pending_profile_deltas
  Reviewer,   \* requests that accept or reject
  MaxDay,     \* bound: the last day
  MaxFaults   \* bound: failed calls and crashes

ASSUME ReviewAssumption ==
  /\ MaxDay \in Nat
  /\ MaxFaults \in Nat

VARIABLES
  accepted,   \* column accepted: "null", "yes", "no"; "none" without a row
  created,    \* day of created_at
  phases,     \* what the delta changes: preferences, fields or both
  day,        \* today
  pass,       \* where NightlySynthesizer.Run is
  at,         \* where a request is
  id,         \* the delta it reviews, or none
  faults,
  wrote,      \* history: how much of the delta the profile took
  rolledBack, \* history: deltas a request put back
  stranded    \* history: deltas whose request ended between mark and outcome

rows == <<accepted, created, phases>>
requests == <<at, id>>
history == <<wrote, rolledBack, stranded>>
vars == <<rows, day, pass, requests, faults, history>>

Phase == {"preferences", "fields"}
Applying == {"get", "preferences", "fields", "rollback"}

(* The type of the state; a request at work has exactly one delta. *)
TypeOK ==
  /\ accepted \in [Delta -> {"none", "null", "yes", "no"}]
  /\ created \in [Delta -> 0 .. MaxDay]
  /\ phases \in [Delta -> SUBSET Phase]
  /\ day \in 0 .. MaxDay
  /\ pass \in {"idle", "model"}
  /\ at \in [Reviewer -> {"idle"} \cup Applying]
  /\ id \in [Reviewer -> SUBSET Delta]
  /\ \A r \in Reviewer : IF at[r] = "idle" THEN id[r] = {} ELSE \E d \in Delta : id[r] = {d}
  /\ faults \in 0 .. MaxFaults
  /\ wrote \in [Delta -> {"nothing", "part", "all"}]
  /\ rolledBack \subseteq Delta
  /\ stranded \subseteq Delta

Init ==
  /\ accepted = [d \in Delta |-> "none"]
  /\ created = [d \in Delta |-> 0]
  /\ phases = [d \in Delta |-> {}]
  /\ day = 0 /\ pass = "idle"
  /\ at = [r \in Reviewer |-> "idle"]
  /\ id = [r \in Reviewer |-> {}]
  /\ faults = 0
  /\ wrote = [d \in Delta |-> "nothing"]
  /\ rolledBack = {} /\ stranded = {}

-----------------------------------------------------------------------------
(* NightlySynthesizer.Run *)

(* Seeded bug: only deltas of an earlier day count. *)
HasPendingDeltaForSource_Earlier(s) == \E d \in Delta : accepted[d] = "null" /\ created[d] < s

(* Unreviewed deltas only: one that is being accepted does not count. *)
HasPendingDeltaForSource(s) == \E d \in Delta : accepted[d] = "null" /\ created[d] >= s

(* There is data, and no open delta of today: the model is asked. *)
RunAsksModel ==
  /\ pass = "idle" /\ ~HasPendingDeltaForSource(day)
  /\ pass' = "model"
  /\ UNCHANGED <<rows, day, requests, faults, history>>

(* A call failed, the context ended, or sanitizing left nothing to propose. *)
RunEnds ==
  /\ pass = "model"
  /\ pass' = "idle"
  /\ UNCHANGED <<rows, day, requests, faults, history>>

(* The answer came, maybe on another day than the question. *)
SavePendingDelta(d, P) ==
  /\ pass = "model" /\ accepted[d] = "none" /\ P # {}
  /\ accepted' = [accepted EXCEPT ![d] = "null"]
  /\ created' = [created EXCEPT ![d] = day]
  /\ phases' = [phases EXCEPT ![d] = P]
  /\ pass' = "idle"
  /\ UNCHANGED <<day, requests, faults, history>>

NextDay ==
  /\ day < MaxDay
  /\ day' = day + 1
  /\ UNCHANGED <<rows, pass, requests, faults, history>>

-----------------------------------------------------------------------------
(* handleAcceptDelta and handleRejectDelta *)

BackendUnchanged == UNCHANGED <<created, phases, day, pass>>

(* Seeded bug: the update of a review does not ask for accepted IS NULL. *)
Reviewable_Any(d) == accepted[d] # "none"

Reviewable(d) == accepted[d] = "null"

ReviewDelta(r, d) ==
  /\ at[r] = "idle" /\ Reviewable(d)
  /\ accepted' = [accepted EXCEPT ![d] = "yes"]
  /\ at' = [at EXCEPT ![r] = "get"]
  /\ id' = [id EXCEPT ![r] = {d}]
  /\ UNCHANGED <<faults, history>> /\ BackendUnchanged

Reject(d) ==
  /\ Reviewable(d)
  /\ accepted' = [accepted EXCEPT ![d] = "no"]
  /\ UNCHANGED <<requests, faults, history>> /\ BackendUnchanged

(* A phase with nothing to change is skipped. *)
StartOf(d) == IF "preferences" \in phases[d] THEN "preferences" ELSE "fields"

GetPendingDelta(r, d) ==
  /\ at[r] = "get" /\ d \in id[r]
  /\ at' = [at EXCEPT ![r] = StartOf(d)]
  /\ wrote' = [wrote EXCEPT ![d] = "nothing"]
  /\ UNCHANGED <<accepted, id, faults, rolledBack, stranded>> /\ BackendUnchanged

Done(r) == at' = [at EXCEPT ![r] = "idle"] /\ id' = [id EXCEPT ![r] = {}]

ApplyPreferences(r, d) ==
  /\ at[r] = "preferences" /\ d \in id[r]
  /\ IF "fields" \in phases[d]
       THEN at' = [at EXCEPT ![r] = "fields"] /\ id' = id /\ wrote' = [wrote EXCEPT ![d] = "part"]
       ELSE Done(r) /\ wrote' = [wrote EXCEPT ![d] = "all"]
  /\ UNCHANGED <<accepted, faults, rolledBack, stranded>> /\ BackendUnchanged

ApplyFields(r, d) ==
  /\ at[r] = "fields" /\ d \in id[r]
  /\ wrote' = [wrote EXCEPT ![d] = "all"]
  /\ Done(r)
  /\ UNCHANGED <<accepted, faults, rolledBack, stranded>> /\ BackendUnchanged

(* Seeded bug: the error is answered and the mark stays. *)
ApplyFails_NoRollback(r, d) ==
  /\ at[r] \in {"get", "preferences", "fields"} /\ d \in id[r]
  /\ faults < MaxFaults /\ faults' = faults + 1
  /\ Done(r)
  /\ UNCHANGED <<accepted, wrote, rolledBack, stranded>> /\ BackendUnchanged

(* The row cannot be read or parsed, or the store refuses a key: of the     *)
(* fields, some may have been written.                                      *)
ApplyFails(r, d) ==
  /\ at[r] \in {"get", "preferences", "fields"} /\ d \in id[r]
  /\ faults < MaxFaults /\ faults' = faults + 1
  /\ at' = [at EXCEPT ![r] = "rollback"]
  /\ wrote' \in {wrote} \cup (IF at[r] = "fields" THEN {[wrote EXCEPT ![d] = "part"]} ELSE {})
  /\ UNCHANGED <<accepted, id, rolledBack, stranded>> /\ BackendUnchanged

(* The reset does not look at the verdict it undoes. *)
UnreviewDelta(r, d) ==
  /\ at[r] = "rollback" /\ d \in id[r]
  /\ accepted' = [accepted EXCEPT ![d] = "null"]
  /\ rolledBack' = rolledBack \cup {d}
  /\ Done(r)
  /\ UNCHANGED <<faults, wrote, stranded>> /\ BackendUnchanged

(* The rollback itself fails, which is logged. *)
UnreviewFails(r, d) ==
  /\ at[r] = "rollback" /\ d \in id[r]
  /\ faults < MaxFaults /\ faults' = faults + 1
  /\ stranded' = stranded \cup {d}
  /\ Done(r)
  /\ UNCHANGED <<accepted, wrote, rolledBack>> /\ BackendUnchanged

(* The process ends and is started again. *)
Crash ==
  /\ faults < MaxFaults /\ faults' = faults + 1
  /\ stranded' = stranded \cup UNION {id[r] : r \in Reviewer}
  /\ at' = [r \in Reviewer |-> "idle"]
  /\ id' = [r \in Reviewer |-> {}]
  /\ pass' = "idle"
  /\ UNCHANGED <<rows, day, wrote, rolledBack>>

-----------------------------------------------------------------------------
Goes(r) == \E d \in Delta :
  GetPendingDelta(r, d) \/ ApplyPreferences(r, d) \/ ApplyFields(r, d) \/ UnreviewDelta(r, d)

Next ==
  \/ RunAsksModel \/ RunEnds \/ NextDay \/ Crash
  \/ \E d \in Delta, P \in SUBSET Phase : SavePendingDelta(d, P)
  \/ \E d \in Delta : Reject(d)
  \/ \E r \in Reviewer, d \in Delta :
       ReviewDelta(r, d) \/ ApplyFails(r, d) \/ UnreviewFails(r, d)
  \/ \E r \in Reviewer : Goes(r)

Spec == Init /\ [][Next]_vars

(* A request that has started goes on. *)
FairSpec == Spec /\ \A r \in Reviewer : WF_vars(Goes(r))

-----------------------------------------------------------------------------
(* What the code must achieve *)

(* The mark is the lock: no two requests apply or put back one delta, so    *)
(* the unconditional reset of UnreviewDelta can only undo the mark of the   *)
(* request that runs it.                                                    *)
OneApplier ==
  \A d \in Delta, r, q \in Reviewer : d \in id[r] /\ d \in id[q] => r = q

(* Verdict and profile agree.  A delta marked as accepted has been applied  *)
(* in full or a request is on it, unless that request was cut off or could  *)
(* not take the mark back; a rejected one has left a trace in the profile   *)
(* only if an acceptance of it had failed half way before.                  *)
VerdictMatchesProfile ==
  \A d \in Delta :
    /\ accepted[d] = "yes" =>
         \/ wrote[d] = "all" \/ d \in stranded
         \/ \E r \in Reviewer : d \in id[r]
    /\ accepted[d] = "no" => wrote[d] = "nothing" \/ d \in rolledBack

(* The passes leave one open delta for a day; a second one stays open only  *)
(* beside one whose acceptance failed and was put back after the check.     *)
OnePendingPerDay ==
  \A d, e \in Delta :
    accepted[d] = "null" /\ accepted[e] = "null" /\ created[d] = created[e] /\ d # e
      => d \in rolledBack \/ e \in rolledBack

(* A rejection stands, and so does an acceptance that was answered "ok".    *)
VerdictStands ==
  [][\A d \in Delta :
       /\ accepted[d] = "no" => accepted'[d] = "no"
       /\ accepted[d] = "yes" /\ (\A r \in Reviewer : d \notin id[r]) => accepted'[d] = "yes"]_vars

(* Accepting has an outcome: the delta is applied or can be reviewed again. *)
AcceptanceSettles ==
  \A d \in Delta :
    accepted[d] = "yes" ~> (wrote[d] = "all" \/ accepted[d] = "null" \/ d \in stranded)
=============================================================================
