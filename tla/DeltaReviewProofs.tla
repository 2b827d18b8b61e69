------------------------- MODULE DeltaReviewProofs -------------------------
(***************************************************************************)
(* Theorems about DeltaReview, for any set of deltas and of concurrent     *)
(* requests, any number of days and of failed calls and crashes.           *)
(*                                                                         *)
(* The mark on the row excludes a second request only because nothing      *)
(* takes it back while its request is at work (HeldIsAccepted), and a      *)
(* rejected delta is clean only because every open one is (OpenIsClean).   *)
(* That the passes leave one open delta a day needs what the answer of the *)
(* model meets when it is stored (AskedMeansNoneOpen): the check is older  *)
(* than the row, and a day or a rollback may have come between.            *)
(***************************************************************************)
EXTENDS DeltaReview, TLAPS

HeldIsAccepted ==
  \A r \in Reviewer, d \in Delta : d \in id[r] => accepted[d] = "yes"

AcceptedIsApplied ==
  \A d \in Delta : accepted[d] = "yes" =>
    \/ wrote[d] = "all" \/ d \in stranded
    \/ \E r \in Reviewer : d \in id[r]

OpenIsClean ==
  \A d \in Delta : accepted[d] # "yes" => wrote[d] = "nothing" \/ d \in rolledBack

IInv ==
  /\ TypeOK
  /\ OneApplier
  /\ HeldIsAccepted
  /\ AcceptedIsApplied
  /\ OpenIsClean

-----------------------------------------------------------------------------
(* What a request at work looks like: it has one delta and is not idle.      *)
LEMMA HeldIsOne ==
  ASSUME TypeOK, NEW r \in Reviewer, NEW d \in Delta, d \in id[r]
  PROVE  id[r] = {d} /\ at[r] # "idle"
BY DEF TypeOK

(* When a request ends, the deltas of the others stay with them.             *)
LEMMA DoneReleases ==
  ASSUME TypeOK, NEW r \in Reviewer, NEW d \in Delta, d \in id[r], Done(r)
  PROVE  /\ at' \in [Reviewer -> {"idle"} \cup Applying]
         /\ id' \in [Reviewer -> SUBSET Delta]
         /\ \A q \in Reviewer :
              IF at'[q] = "idle" THEN id'[q] = {} ELSE \E e \in Delta : id'[q] = {e}
         /\ \A q \in Reviewer : id'[q] = IF q = r THEN {} ELSE id[q]
         /\ \A e \in Delta : e # d => \A q \in Reviewer : e \in id[q] => e \in id'[q]
<1> USE DEF Done, TypeOK
<1>1. id[r] = {d}
  BY HeldIsOne
<1>2. \A q \in Reviewer : /\ at'[q] = IF q = r THEN "idle" ELSE at[q]
                          /\ id'[q] = IF q = r THEN {} ELSE id[q]
  OBVIOUS
<1>3. at' \in [Reviewer -> {"idle"} \cup Applying] /\ id' \in [Reviewer -> SUBSET Delta]
  OBVIOUS
<1>4. \A q \in Reviewer :
        IF at'[q] = "idle" THEN id'[q] = {} ELSE \E e \in Delta : id'[q] = {e}
  BY <1>2
<1>5. \A e \in Delta : e # d => \A q \in Reviewer : e \in id[q] => e \in id'[q]
  BY <1>1, <1>2
<1>6. QED
  BY <1>2, <1>3, <1>4, <1>5

LEMMA InitIInv == Init => IInv
<1> SUFFICES ASSUME Init PROVE IInv
  OBVIOUS
<1>1. TypeOK
  BY ReviewAssumption DEF Init, TypeOK
<1>2. OneApplier /\ HeldIsAccepted /\ AcceptedIsApplied /\ OpenIsClean
  BY DEF Init, OneApplier, HeldIsAccepted, AcceptedIsApplied, OpenIsClean
<1>3. QED
  BY <1>1, <1>2 DEF IInv

-----------------------------------------------------------------------------
(* The pass and the clock: no request and no verdict is touched, but for a   *)
(* row that is new.                                                          *)
LEMMA PassStep ==
  ASSUME IInv, RunAsksModel \/ RunEnds \/ NextDay
  PROVE  IInv'
<1> USE ReviewAssumption
       DEF IInv, RunAsksModel, RunEnds, NextDay, rows, requests, history
<1>1. TypeOK'
  BY DEF TypeOK
<1>2. OneApplier' /\ HeldIsAccepted' /\ AcceptedIsApplied' /\ OpenIsClean'
  BY DEF OneApplier, HeldIsAccepted, AcceptedIsApplied, OpenIsClean
<1>3. QED
  BY <1>1, <1>2

LEMMA SaveStep ==
  ASSUME IInv, NEW d \in Delta, NEW P \in SUBSET Phase, SavePendingDelta(d, P)
  PROVE  IInv'
<1> USE DEF IInv, SavePendingDelta, requests, history
<1>1. TypeOK'
  BY DEF TypeOK
<1>2. OneApplier' /\ HeldIsAccepted'
  BY DEF TypeOK, OneApplier, HeldIsAccepted
<1>3. AcceptedIsApplied' /\ OpenIsClean'
  BY DEF TypeOK, AcceptedIsApplied, OpenIsClean
<1>4. QED
  BY <1>1, <1>2, <1>3

-----------------------------------------------------------------------------
(* The mark can be set only where nobody holds the delta.                    *)
LEMMA ReviewStep ==
  ASSUME IInv, NEW r \in Reviewer, NEW d \in Delta, ReviewDelta(r, d)
  PROVE  IInv'
<1> USE DEF IInv, ReviewDelta, Reviewable, BackendUnchanged, history, Applying
<1>1. \A q \in Reviewer : d \notin id[q]
  BY DEF HeldIsAccepted
<1>2. \A q \in Reviewer : /\ id'[q] = IF q = r THEN {d} ELSE id[q]
                          /\ at'[q] = IF q = r THEN "get" ELSE at[q]
  BY DEF TypeOK
<1>3. id[r] = {}
  BY DEF TypeOK
<1>4. TypeOK'
  <2>1. at' \in [Reviewer -> {"idle"} \cup Applying] /\ id' \in [Reviewer -> SUBSET Delta]
    BY DEF TypeOK
  <2>2. \A q \in Reviewer :
          IF at'[q] = "idle" THEN id'[q] = {} ELSE \E e \in Delta : id'[q] = {e}
    BY <1>2 DEF TypeOK
  <2>3. QED
    BY <2>1, <2>2 DEF TypeOK
<1>5. OneApplier'
  BY <1>1, <1>2 DEF OneApplier
<1>6. \A e \in Delta : accepted'[e] = IF e = d THEN "yes" ELSE accepted[e]
  BY DEF TypeOK
<1>7. HeldIsAccepted'
  BY <1>2, <1>6 DEF HeldIsAccepted
<1>8. AcceptedIsApplied' /\ OpenIsClean'
  BY <1>2, <1>3, <1>6 DEF AcceptedIsApplied, OpenIsClean
<1>9. QED
  BY <1>4, <1>5, <1>7, <1>8

LEMMA RejectStep ==
  ASSUME IInv, NEW d \in Delta, Reject(d)
  PROVE  IInv'
<1> USE DEF IInv, Reject, Reviewable, BackendUnchanged, requests, history
<1>1. TypeOK'
  BY DEF TypeOK
<1>2. OneApplier' /\ HeldIsAccepted'
  BY DEF TypeOK, OneApplier, HeldIsAccepted
<1>3. AcceptedIsApplied' /\ OpenIsClean'
  BY DEF TypeOK, AcceptedIsApplied, OpenIsClean
<1>4. QED
  BY <1>1, <1>2, <1>3

(* A step of a request that keeps its delta changes neither mark nor holder; *)
(* what the profile took of a delta that is held is free.                    *)
LEMMA WorkStep ==
  ASSUME IInv, NEW r \in Reviewer, NEW d \in Delta, d \in id[r],
         NEW s \in Applying, at' = [at EXCEPT ![r] = s],
         NEW w \in {"nothing", "part", "all"}, wrote' = [wrote EXCEPT ![d] = w],
         faults' \in 0 .. MaxFaults,
         UNCHANGED <<accepted, created, phases, day, pass, id, rolledBack, stranded>>
  PROVE  IInv'
<1> USE DEF IInv
<1>1. id[r] = {d} /\ s # "idle"
  BY HeldIsOne DEF Applying
<1>2. TypeOK'
  <2>1. at' \in [Reviewer -> {"idle"} \cup Applying]
    BY DEF TypeOK
  <2>2. \A q \in Reviewer :
          IF at'[q] = "idle" THEN id'[q] = {} ELSE \E e \in Delta : id'[q] = {e}
    BY <1>1 DEF TypeOK
  <2>3. wrote' \in [Delta -> {"nothing", "part", "all"}]
    BY DEF TypeOK
  <2>4. QED
    BY <2>1, <2>2, <2>3 DEF TypeOK
<1>3. OneApplier' /\ HeldIsAccepted'
  BY DEF OneApplier, HeldIsAccepted
<1>4. accepted[d] = "yes"
  BY DEF HeldIsAccepted
<1>5. \A e \in Delta : e # d => wrote'[e] = wrote[e]
  BY DEF TypeOK
<1>6. AcceptedIsApplied' /\ OpenIsClean'
  BY <1>4, <1>5 DEF AcceptedIsApplied, OpenIsClean
<1>7. QED
  BY <1>2, <1>3, <1>6

(* A step that ends a request and leaves the mark: the delta is applied in   *)
(* full or counted as stranded.                                              *)
LEMMA EndStep ==
  ASSUME IInv, NEW r \in Reviewer, NEW d \in Delta, d \in id[r], Done(r),
         wrote' \in [Delta -> {"nothing", "part", "all"}],
         \A e \in Delta : e # d => wrote'[e] = wrote[e],
         stranded \subseteq stranded', stranded' \subseteq Delta,
         wrote'[d] = "all" \/ d \in stranded',
         faults' \in 0 .. MaxFaults,
         UNCHANGED <<accepted, created, phases, day, pass, rolledBack>>
  PROVE  IInv'
<1> USE DEF IInv
<1>1. /\ at' \in [Reviewer -> {"idle"} \cup Applying]
      /\ id' \in [Reviewer -> SUBSET Delta]
      /\ \A q \in Reviewer :
           IF at'[q] = "idle" THEN id'[q] = {} ELSE \E e \in Delta : id'[q] = {e}
      /\ \A q \in Reviewer : id'[q] = IF q = r THEN {} ELSE id[q]
      /\ \A e \in Delta : e # d => \A q \in Reviewer : e \in id[q] => e \in id'[q]
  BY DoneReleases
<1>2. TypeOK'
  BY <1>1 DEF TypeOK
<1>3. OneApplier' /\ HeldIsAccepted'
  BY <1>1 DEF OneApplier, HeldIsAccepted
<1>4. accepted[d] = "yes"
  BY DEF HeldIsAccepted
<1>5. AcceptedIsApplied'
  BY <1>1 DEF AcceptedIsApplied
<1>6. OpenIsClean'
  BY <1>4 DEF OpenIsClean
<1>7. QED
  BY <1>2, <1>3, <1>5, <1>6

-----------------------------------------------------------------------------
LEMMA GetStep ==
  ASSUME IInv, NEW r \in Reviewer, NEW d \in Delta, GetPendingDelta(r, d)
  PROVE  IInv'
<1>1. StartOf(d) \in Applying
  BY DEF StartOf, Applying
<1>2. faults' \in 0 .. MaxFaults
  BY DEF GetPendingDelta, IInv, TypeOK
<1>3. QED
  BY <1>1, <1>2, WorkStep DEF GetPendingDelta, BackendUnchanged

LEMMA PreferencesStep ==
  ASSUME IInv, NEW r \in Reviewer, NEW d \in Delta, ApplyPreferences(r, d)
  PROVE  IInv'
<1> USE DEF ApplyPreferences, BackendUnchanged
<1>1. faults' \in 0 .. MaxFaults
  BY DEF IInv, TypeOK
<1>2. CASE "fields" \in phases[d]
  BY <1>1, <1>2, WorkStep DEF Applying
<1>3. CASE "fields" \notin phases[d]
  <2>1. /\ wrote' \in [Delta -> {"nothing", "part", "all"}] /\ wrote'[d] = "all"
        /\ \A e \in Delta : e # d => wrote'[e] = wrote[e]
    BY <1>3 DEF IInv, TypeOK
  <2>2. stranded' \subseteq Delta /\ stranded \subseteq stranded'
    BY DEF IInv, TypeOK
  <2>3. QED
    BY <1>1, <1>3, <2>1, <2>2, EndStep
<1>4. QED
  BY <1>2, <1>3

LEMMA FieldsStep ==
  ASSUME IInv, NEW r \in Reviewer, NEW d \in Delta, ApplyFields(r, d)
  PROVE  IInv'
<1> USE DEF ApplyFields, BackendUnchanged
<1>1. faults' \in 0 .. MaxFaults /\ stranded' \subseteq Delta /\ stranded \subseteq stranded'
  BY DEF IInv, TypeOK
<1>2. /\ wrote' \in [Delta -> {"nothing", "part", "all"}] /\ wrote'[d] = "all"
      /\ \A e \in Delta : e # d => wrote'[e] = wrote[e]
  BY DEF IInv, TypeOK
<1>3. QED
  BY <1>1, <1>2, EndStep

LEMMA FailStep ==
  ASSUME IInv, NEW r \in Reviewer, NEW d \in Delta, ApplyFails(r, d)
  PROVE  IInv'
<1> USE DEF ApplyFails, BackendUnchanged
<1>1. faults' \in 0 .. MaxFaults
  BY ReviewAssumption DEF IInv, TypeOK
<1>2. CASE wrote' = [wrote EXCEPT ![d] = "part"]
  BY <1>1, <1>2, WorkStep DEF Applying
<1>3. CASE wrote' = wrote
  <2>1. wrote' = [wrote EXCEPT ![d] = wrote[d]] /\ wrote[d] \in {"nothing", "part", "all"}
    BY <1>3 DEF IInv, TypeOK
  <2>2. QED
    BY <1>1, <2>1, WorkStep DEF Applying
<1>4. QED
  BY <1>2, <1>3

(* Putting the delta back: only the holder does, so no other verdict falls.  *)
LEMMA UnreviewStep ==
  ASSUME IInv, NEW r \in Reviewer, NEW d \in Delta, UnreviewDelta(r, d)
  PROVE  IInv'
<1> USE DEF IInv, UnreviewDelta, BackendUnchanged
<1>1. /\ at' \in [Reviewer -> {"idle"} \cup Applying]
      /\ id' \in [Reviewer -> SUBSET Delta]
      /\ \A q \in Reviewer :
           IF at'[q] = "idle" THEN id'[q] = {} ELSE \E e \in Delta : id'[q] = {e}
      /\ \A q \in Reviewer : id'[q] = IF q = r THEN {} ELSE id[q]
      /\ \A e \in Delta : e # d => \A q \in Reviewer : e \in id[q] => e \in id'[q]
  BY DoneReleases
<1>2. \A e \in Delta : accepted'[e] = IF e = d THEN "null" ELSE accepted[e]
  BY DEF TypeOK
<1>3. TypeOK'
  BY <1>1 DEF TypeOK
<1>4. OneApplier'
  BY <1>1 DEF OneApplier
<1>5. \A q \in Reviewer : d \notin id'[q]
  BY <1>1 DEF OneApplier
<1>6. HeldIsAccepted'
  BY <1>1, <1>2, <1>5 DEF HeldIsAccepted
<1>7. AcceptedIsApplied'
  BY <1>1, <1>2 DEF AcceptedIsApplied
<1>8. OpenIsClean'
  BY <1>2 DEF OpenIsClean
<1>9. QED
  BY <1>3, <1>4, <1>6, <1>7, <1>8

LEMMA UnreviewFailsStep ==
  ASSUME IInv, NEW r \in Reviewer, NEW d \in Delta, UnreviewFails(r, d)
  PROVE  IInv'
<1> USE DEF UnreviewFails, BackendUnchanged
<1>1. faults' \in 0 .. MaxFaults
  BY ReviewAssumption DEF IInv, TypeOK
<1>2. /\ wrote' \in [Delta -> {"nothing", "part", "all"}]
      /\ \A e \in Delta : e # d => wrote'[e] = wrote[e]
      /\ stranded \subseteq stranded' /\ stranded' \subseteq Delta /\ d \in stranded'
  BY DEF IInv, TypeOK
<1>3. QED
  BY <1>1, <1>2, EndStep

LEMMA CrashStep ==
  ASSUME IInv, Crash
  PROVE  IInv'
<1> USE ReviewAssumption DEF IInv, Crash, rows
<1>1. TypeOK'
  <2>1. stranded' \subseteq Delta
    BY DEF TypeOK
  <2>2. QED
    BY <2>1 DEF TypeOK
<1>2. OneApplier' /\ HeldIsAccepted' /\ OpenIsClean'
  BY DEF OneApplier, HeldIsAccepted, OpenIsClean
<1>3. \A d \in Delta, r \in Reviewer : d \in id[r] => d \in stranded'
  OBVIOUS
<1>4. stranded \subseteq stranded'
  OBVIOUS
<1>5. AcceptedIsApplied'
  BY <1>3, <1>4 DEF AcceptedIsApplied
<1>6. QED
  BY <1>1, <1>2, <1>5

LEMMA Invariance == Spec => []IInv
<1>1. IInv /\ [Next]_vars => IInv'
  <2> SUFFICES ASSUME IInv, [Next]_vars PROVE IInv'
    OBVIOUS
  <2>1. CASE RunAsksModel \/ RunEnds \/ NextDay
    BY <2>1, PassStep
  <2>2. CASE Crash
    BY <2>2, CrashStep
  <2>3. CASE \E d \in Delta, P \in SUBSET Phase : SavePendingDelta(d, P)
    BY <2>3, SaveStep
  <2>4. CASE \E d \in Delta : Reject(d)
    BY <2>4, RejectStep
  <2>5. CASE \E r \in Reviewer, d \in Delta :
               ReviewDelta(r, d) \/ ApplyFails(r, d) \/ UnreviewFails(r, d)
    BY <2>5, ReviewStep, FailStep, UnreviewFailsStep
  <2>6. CASE \E r \in Reviewer : Goes(r)
    BY <2>6, GetStep, PreferencesStep, FieldsStep, UnreviewStep DEF Goes
  <2>7. CASE UNCHANGED vars
    BY <2>7 DEF IInv, TypeOK, OneApplier, HeldIsAccepted, AcceptedIsApplied, OpenIsClean,
                vars, rows, requests, history
  <2>8. QED
    BY <2>1, <2>2, <2>3, <2>4, <2>5, <2>6, <2>7 DEF Next
<1>2. QED
  BY <1>1, InitIInv, PTL DEF Spec

-----------------------------------------------------------------------------
(* Rows, requests and the pass stay well formed; a request at work has       *)
(* exactly one delta (internal/api/deltas.go, internal/storage/sqlite.go).   *)
THEOREM TypeCorrect == Spec => []TypeOK
<1>1. IInv => TypeOK
  BY DEF IInv
<1>2. QED
  BY <1>1, Invariance, PTL

(* However many requests race, UPDATE ... WHERE accepted IS NULL lets one of *)
(* them apply a delta (Store.ReviewDelta).                                   *)
THEOREM MarkIsTheLock == Spec => []OneApplier
<1>1. IInv => OneApplier
  BY DEF IInv
<1>2. QED
  BY <1>1, Invariance, PTL

(* Through failures of either phase and of the rollback, the verdict on the  *)
(* row says what the profile took (handleAcceptDelta).                       *)
THEOREM VerdictIsTrue == Spec => []VerdictMatchesProfile
<1>1. IInv => VerdictMatchesProfile
  BY DEF IInv, AcceptedIsApplied, OpenIsClean, VerdictMatchesProfile
<1>2. QED
  BY <1>1, Invariance, PTL

(* UnreviewDelta resets whatever verdict it finds; still no rejection and no *)
(* acceptance that was answered is ever undone.                              *)
THEOREM AnsweredVerdictStands == Spec => VerdictStands
<1> DEFINE Stands(d) ==
      /\ accepted[d] = "no" => accepted'[d] = "no"
      /\ accepted[d] = "yes" /\ (\A r \in Reviewer : d \notin id[r]) => accepted'[d] = "yes"
<1>1. IInv /\ [Next]_vars => [\A d \in Delta : Stands(d)]_vars
  <2> SUFFICES ASSUME IInv, Next, NEW d \in Delta PROVE Stands(d)
    BY DEF Stands
  <2>1. CASE accepted' = accepted
    BY <2>1
  <2>2. CASE \E e \in Delta, P \in SUBSET Phase : SavePendingDelta(e, P)
    BY <2>2 DEF SavePendingDelta, IInv, TypeOK
  <2>3. CASE \E e \in Delta : Reject(e)
    BY <2>3 DEF Reject, Reviewable, IInv, TypeOK
  <2>4. CASE \E r \in Reviewer, e \in Delta : ReviewDelta(r, e)
    BY <2>4 DEF ReviewDelta, Reviewable, IInv, TypeOK
  <2>5. CASE \E r \in Reviewer, e \in Delta : UnreviewDelta(r, e)
    BY <2>5 DEF UnreviewDelta, IInv, TypeOK, HeldIsAccepted
  <2>6. QED
    BY <2>1, <2>2, <2>3, <2>4, <2>5
    DEF Next, Goes, RunAsksModel, RunEnds, NextDay, Crash, ApplyFails, UnreviewFails,
        GetPendingDelta, ApplyPreferences, ApplyFields, rows
<1>2. QED
  BY <1>1, Invariance, PTL DEF Spec, VerdictStands

-----------------------------------------------------------------------------
(* One open delta a day. *)
CreatedByToday == \A d \in Delta : created[d] <= day

AskedMeansNoneOpen ==
  pass = "model" =>
    \A d \in Delta : accepted[d] = "null" /\ created[d] = day => d \in rolledBack

DayInv ==
  /\ CreatedByToday
  /\ AskedMeansNoneOpen
  /\ OnePendingPerDay

(* A step that opens no row and starts no pass disturbs nothing.             *)
LEMMA NoNewOpenRow ==
  ASSUME IInv, DayInv,
         \A d \in Delta : accepted'[d] = "null" => accepted[d] = "null" \/ d \in rolledBack',
         rolledBack \subseteq rolledBack',
         pass' = "model" => pass = "model",
         UNCHANGED <<created, day>>
  PROVE  DayInv'
<1>1. CreatedByToday' /\ AskedMeansNoneOpen'
  BY DEF DayInv, CreatedByToday, AskedMeansNoneOpen
<1>2. OnePendingPerDay'
  BY DEF DayInv, OnePendingPerDay
<1>3. QED
  BY <1>1, <1>2 DEF DayInv

LEMMA DayStep == IInv /\ DayInv /\ [Next]_vars => DayInv'
<1> SUFFICES ASSUME IInv, DayInv, [Next]_vars PROVE DayInv'
  OBVIOUS
<1>1. CASE RunAsksModel
  BY <1>1 DEF RunAsksModel, HasPendingDeltaForSource, rows, history, IInv, TypeOK, DayInv,
              CreatedByToday, AskedMeansNoneOpen, OnePendingPerDay
<1>2. CASE NextDay
  BY <1>2 DEF NextDay, rows, history, IInv, TypeOK, DayInv,
              CreatedByToday, AskedMeansNoneOpen, OnePendingPerDay
<1>3. ASSUME NEW d \in Delta, NEW P \in SUBSET Phase, SavePendingDelta(d, P)
      PROVE  DayInv'
  <2>1. \A e \in Delta : /\ accepted'[e] = IF e = d THEN "null" ELSE accepted[e]
                         /\ created'[e] = IF e = d THEN day ELSE created[e]
    BY <1>3 DEF SavePendingDelta, IInv, TypeOK
  <2>2. /\ pass = "model" /\ pass' = "idle"
        /\ day' = day /\ rolledBack' = rolledBack /\ day \in Nat
    BY <1>3, ReviewAssumption DEF SavePendingDelta, history, IInv, TypeOK
  <2>3. CreatedByToday' /\ AskedMeansNoneOpen'
    BY <2>1, <2>2 DEF DayInv, CreatedByToday, AskedMeansNoneOpen
  <2>4. OnePendingPerDay'
    BY <2>1, <2>2 DEF DayInv, AskedMeansNoneOpen, OnePendingPerDay
  <2>5. QED
    BY <2>3, <2>4 DEF DayInv
<1>4. ASSUME NEW r \in Reviewer, NEW d \in Delta, UnreviewDelta(r, d)
      PROVE  DayInv'
  BY <1>4, NoNewOpenRow DEF UnreviewDelta, BackendUnchanged, IInv, TypeOK
<1>5. ASSUME NEW d \in Delta, Reject(d) \/ \E r \in Reviewer : ReviewDelta(r, d)
      PROVE  DayInv'
  BY <1>5, NoNewOpenRow DEF Reject, ReviewDelta, BackendUnchanged, history, IInv, TypeOK
<1>6. CASE /\ UNCHANGED <<accepted, created, day, rolledBack>>
           /\ pass' = "model" => pass = "model"
  BY <1>6, NoNewOpenRow
<1>7. QED
  BY <1>1, <1>2, <1>3, <1>4, <1>5, <1>6
  DEF Next, Goes, RunEnds, Crash, ApplyFails, UnreviewFails, GetPendingDelta,
      ApplyPreferences, ApplyFields, BackendUnchanged, vars, rows, history

(* The nightly pass checks for an open delta of the day, asks the model and  *)
(* stores the answer much later (NightlySynthesizer.Run): however reviews,   *)
(* failures, rollbacks and midnight fall in between, only a rollback leaves  *)
(* two open deltas of one day.                                               *)
THEOREM OneOpenDeltaPerDay == Spec => []OnePendingPerDay
<1>1. Init => DayInv
  BY ReviewAssumption DEF Init, DayInv, CreatedByToday, AskedMeansNoneOpen, OnePendingPerDay
<1>2. DayInv => OnePendingPerDay
  BY DEF DayInv
<1>3. QED
  BY <1>1, <1>2, DayStep, Invariance, PTL DEF Spec
=============================================================================
