--------------------------- MODULE FeedbackSignals ---------------------------
(***************************************************************************)
(* How a rating becomes a preference.  The handler stores the rating and   *)
(* enqueues a feedback_extract job (internal/api/feedback.go); the         *)
(* feedback worker asks a model for preference signals, once for each      *)
(* interaction, adds them to the table signal_counts, and applies to the   *)
(* profile every pattern whose counts pass the activation thresholds       *)
(* (internal/synthesis/worker.go, aggregator.go).  Meanwhile the user may  *)
(* rate again, edit the preferences or delete the interaction, and the     *)
(* process may stop between any two steps.                                 *)
(*                                                                         *)
(* A signal is a sentence of the model; sentences that agree but for case  *)
(* and outer blanks have the same key.  Backoff is left to JobQueue: here  *)
(* a pending job may be claimed at any time.                               *)
(***************************************************************************)
EXTENDS Integers, Sequences, FiniteSets

CONSTANTS
  Interaction,         \* rows of table interactions
  MaxJobs,             \* bound: ratings, each with a feedback_extract job
  Text,                \* sentences that describe a preference
  KeyOf,               \* [Text -> key]: lower case, trimmed; NoKey if blank
  NoKey,
  Answer,              \* lists of signals the model may return
  MinCountThreshold,   \* 3
  MinNetAddThreshold,  \* 2; MaxNetRemoveThreshold is its negation
  MaxAttempts,         \* max_attempts of a job
  Edit,                \* lists of preferences the user may store
  MaxMishaps           \* bound: failed calls, crashes, edits and deletions, together

Signal == [type : {"positive", "negative", "other"}, text : Text]

Job == 1 .. MaxJobs

ASSUME FeedbackAssumption ==
  /\ MaxJobs \in Nat
  /\ Answer \subseteq Seq(Signal) /\ Edit \subseteq SUBSET Text
  /\ MinCountThreshold \in Nat \ {0}
  /\ MinNetAddThreshold \in Nat \ {0}
  /\ MaxAttempts \in Nat \ {0}
  /\ MaxMishaps \in Nat

VARIABLES
  rows,       \* interactions that exist
  rated,      \* those with a feedback_score; its sign only reaches the model
  extracted,  \* interactions.extracted_signals: {} or the list, as {list}
  counts,     \* table signal_counts by pattern_key
  prefs,      \* the preferences of the profile
  jobs,       \* [Job -> [state, attempts, of]]; "handler" before the row exists:
              \* a handler is between its two writes
  wpc,        \* where the worker is in processJob
  wjob,       \* the job it holds, or none
  wanswer,    \* the signals of the model
  wdelta,     \* the delta AggregateFromCounts returned
  mishaps,
  edited,     \* history: texts the user edited since the last application
  erased,     \* history: signals of rows that were deleted
  unqueued    \* history: interactions rated without a job being enqueued

table == <<rows, rated, extracted, counts>>
worker == <<wpc, wjob, wanswer, wdelta>>
history == <<edited, erased, unqueued>>
vars == <<table, prefs, jobs, worker, mishaps, history>>

Key == {KeyOf[t] : t \in Text} \ {NoKey}

WorkerPC == {"idle", "check", "load", "extract", "persist", "aggregate", "apply", "done", "failed"}

NoRow == [display |-> {}, pos |-> 0, neg |-> 0]
NoDelta == [add |-> {}, remove |-> {}]
JobRow == [state : {"none", "handler", "pending", "running", "completed", "failed"},
           attempts : 0 .. MaxAttempts, of : SUBSET Interaction]
FreeJob == [state |-> "none", attempts |-> 0, of |-> {}]

(* The type of the state; a key has a display form once it has a row, and  *)
(* the worker holds at most one job.                                        *)
TypeOK ==
  /\ rows \subseteq Interaction
  /\ rated \subseteq rows
  /\ extracted \in [Interaction -> SUBSET Answer]
  /\ counts \in [Key -> [display : SUBSET Text, pos : Nat, neg : Nat]]
  /\ prefs \subseteq Text
  /\ jobs \in [Job -> JobRow]
  /\ wpc \in WorkerPC
  /\ wjob \subseteq Job /\ Cardinality(wjob) <= 1
  /\ wanswer \in Seq(Signal)
  /\ wdelta \in [add : SUBSET Text, remove : SUBSET Text]
  /\ mishaps \in 0 .. MaxMishaps
  /\ edited \subseteq Text /\ erased \in Seq(Answer) /\ unqueued \subseteq Interaction

Init ==
  /\ rows = Interaction
  /\ rated = {}
  /\ extracted = [i \in Interaction |-> {}]
  /\ counts = [k \in Key |-> NoRow]
  /\ prefs = {}
  /\ jobs = [j \in Job |-> FreeJob]
  /\ wpc = "idle" /\ wjob = {} /\ wanswer = <<>> /\ wdelta = NoDelta
  /\ mishaps = 0
  /\ edited = {} /\ erased = <<>> /\ unqueued = {}

-----------------------------------------------------------------------------
(* buildSignalCountDeltas and the activation rules *)

Typed(s, k, type) == {n \in DOMAIN s : KeyOf[s[n].text] = k /\ s[n].type = type}

(* Signals of another type are skipped, the first one gives the display.    *)
Counted(s, k) == Typed(s, k, "positive") \cup Typed(s, k, "negative")
FirstText(s, k) == {s[n].text : n \in {m \in Counted(s, k) : \A l \in Counted(s, k) : m <= l}}

buildSignalCountDeltas(s) ==
  [k \in Key |-> [display |-> FirstText(s, k),
                  pos |-> Cardinality(Typed(s, k, "positive")),
                  neg |-> Cardinality(Typed(s, k, "negative"))]]

(* The upsert keeps the display of the row that is there. *)
Upsert(c, d) ==
  [k \in Key |-> [display |-> IF c[k].display # {} THEN c[k].display ELSE d[k].display,
                  pos |-> c[k].pos + d[k].pos,
                  neg |-> c[k].neg + d[k].neg]]

ShouldAdd(pos, neg) == pos >= MinCountThreshold \/ pos - neg >= MinNetAddThreshold
ShouldRemove(pos, neg) == neg >= MinCountThreshold \/ neg - pos >= MinNetAddThreshold

(* A pattern for which both rules fire is a conflict and is left alone. *)
Adds(c) == {k \in Key : ShouldAdd(c[k].pos, c[k].neg) /\ ~ShouldRemove(c[k].pos, c[k].neg)}
Removes(c) == {k \in Key : ShouldRemove(c[k].pos, c[k].neg) /\ ~ShouldAdd(c[k].pos, c[k].neg)}

AggregateFromCounts(c) ==
  [add |-> UNION {c[k].display : k \in Adds(c)},
   remove |-> UNION {c[k].display : k \in Removes(c)}]

-----------------------------------------------------------------------------
(* saveFeedback: two writes that are not one transaction *)

Free == {j \in Job : jobs[j].state = "none"}

(* A second rating replaces the first.  The job's id is a new one: which is *)
(* of no consequence; that one is left is a bound.                          *)
UpdateFeedback(i) ==
  /\ i \in rows
  /\ \E j \in Free :
       /\ \A k \in Free : j <= k
       /\ jobs' = [jobs EXCEPT ![j] = [state |-> "handler", attempts |-> 0, of |-> {i}]]
  /\ rated' = rated \cup {i}
  /\ UNCHANGED <<rows, extracted, counts, prefs, worker, mishaps, history>>

enqueueFeedbackExtract(j) ==
  /\ jobs[j].state = "handler"
  /\ jobs' = [jobs EXCEPT ![j].state = "pending"]
  /\ UNCHANGED <<table, prefs, worker, mishaps, history>>

(* The failure to enqueue is only logged: the client is told "ok". *)
EnqueueFails(j) ==
  /\ jobs[j].state = "handler" /\ mishaps < MaxMishaps
  /\ jobs' = [jobs EXCEPT ![j] = FreeJob]
  /\ unqueued' = unqueued \cup jobs[j].of
  /\ mishaps' = mishaps + 1
  /\ UNCHANGED <<table, prefs, worker, edited, erased>>

-----------------------------------------------------------------------------
(* FeedbackWorker.RunOnce and processJob *)

Of == CHOOSE i \in Interaction : \E j \in wjob : jobs[j].of = {i}

Claim(j) ==
  /\ wpc = "idle" /\ jobs[j].state = "pending"
  /\ jobs' = [jobs EXCEPT ![j].state = "running"]
  /\ wjob' = {j} /\ wpc' = "check"
  /\ UNCHANGED <<table, prefs, wanswer, wdelta, history>> /\ UNCHANGED mishaps

(* Seeded bug: an interaction already processed completes the job at once. *)
HasExtractedSignals_SkipsAll ==
  /\ wpc = "check"
  /\ wpc' = IF Of \notin rows THEN "failed"
            ELSE IF extracted[Of] # {} THEN "done" ELSE "load"
  /\ UNCHANGED <<table, prefs, jobs, wjob, wanswer, wdelta, history>> /\ UNCHANGED mishaps

(* Extraction is skipped, aggregation is not. *)
HasExtractedSignals ==
  /\ wpc = "check"
  /\ wpc' = IF Of \notin rows THEN "failed"
            ELSE IF extracted[Of] # {} THEN "aggregate" ELSE "load"
  /\ UNCHANGED <<table, prefs, jobs, wjob, wanswer, wdelta, history>> /\ UNCHANGED mishaps

GetInteraction ==
  /\ wpc = "load"
  /\ wpc' = IF Of \in rows THEN "extract" ELSE "failed"
  /\ UNCHANGED <<table, prefs, jobs, wjob, wanswer, wdelta, history>> /\ UNCHANGED mishaps

(* The call of the model, with the score and the notes read before. *)
ExtractFromFeedback(s) ==
  /\ wpc = "extract"
  /\ wanswer' = s /\ wpc' = "persist"
  /\ UNCHANGED <<table, prefs, jobs, wjob, wdelta, history>> /\ UNCHANGED mishaps

(* Seeded bug: the counts are written and the mark is not. *)
PersistSignals_NoMark ==
  /\ wpc = "persist"
  /\ IF Of \in rows
       THEN /\ counts' = Upsert(counts, buildSignalCountDeltas(wanswer))
            /\ wpc' = "aggregate"
       ELSE UNCHANGED counts /\ wpc' = "failed"
  /\ UNCHANGED <<extracted, rows, rated, prefs, jobs, wjob, wanswer, wdelta, history>>
  /\ UNCHANGED mishaps

(* Counts and mark in one transaction, undone when the row is gone.  With   *)
(* no signals only the mark is written.                                     *)
PersistSignals ==
  /\ wpc = "persist"
  /\ IF Of \in rows
       THEN /\ extracted' = [extracted EXCEPT ![Of] = {wanswer}]
            /\ counts' = Upsert(counts, buildSignalCountDeltas(wanswer))
            /\ wpc' = "aggregate"
       ELSE UNCHANGED <<extracted, counts>> /\ wpc' = "failed"
  /\ UNCHANGED <<rows, rated, prefs, jobs, wjob, wanswer, wdelta, history>> /\ UNCHANGED mishaps

Aggregate ==
  /\ wpc = "aggregate"
  /\ wdelta' = AggregateFromCounts(counts)
  /\ wpc' = "apply"
  /\ UNCHANGED <<table, prefs, jobs, wjob, wanswer, history>> /\ UNCHANGED mishaps

(* Manager.ApplyDelta: additions first, then removals, in one write. *)
ApplyDelta ==
  /\ wpc = "apply"
  /\ prefs' = (prefs \cup wdelta.add) \ wdelta.remove
  /\ edited' = {}
  /\ wpc' = "done"
  /\ UNCHANGED <<table, jobs, wjob, wanswer, wdelta, erased, unqueued>> /\ UNCHANGED mishaps

(* A call of the store or of the model fails: processJob returns the error. *)
StepFails ==
  /\ wpc \in {"check", "load", "extract", "persist", "aggregate", "apply"}
  /\ mishaps < MaxMishaps
  /\ mishaps' = mishaps + 1
  /\ wpc' = "failed"
  /\ UNCHANGED <<table, prefs, jobs, wjob, wanswer, wdelta, history>>

WorkerIdle == wpc' = "idle" /\ wjob' = {} /\ wanswer' = <<>> /\ wdelta' = NoDelta

CompleteJob ==
  /\ wpc = "done"
  /\ \E j \in wjob : jobs' = [jobs EXCEPT ![j].state = "completed"]
  /\ WorkerIdle
  /\ UNCHANGED <<table, prefs, history>> /\ UNCHANGED mishaps

(* Seeded bug: a failed attempt is not counted. *)
FailJob_NotCounted ==
  /\ wpc = "failed"
  /\ \E j \in wjob : jobs' = [jobs EXCEPT ![j].state = "pending"]
  /\ WorkerIdle
  /\ UNCHANGED <<table, prefs, history>> /\ UNCHANGED mishaps

FailJob ==
  /\ wpc = "failed"
  /\ \E j \in wjob :
       LET n == jobs[j].attempts + 1
       IN jobs' = [jobs EXCEPT ![j].attempts = n,
                               ![j].state = IF n >= MaxAttempts THEN "failed" ELSE "pending"]
  /\ WorkerIdle
  /\ UNCHANGED <<table, prefs, history>> /\ UNCHANGED mishaps

(* An error of CompleteJob or FailJob is logged: the row stays running. *)
CloseFails ==
  /\ wpc \in {"done", "failed"} /\ mishaps < MaxMishaps
  /\ mishaps' = mishaps + 1
  /\ WorkerIdle
  /\ UNCHANGED <<table, prefs, jobs, history>>

-----------------------------------------------------------------------------
(* The user and the process *)

(* PATCH /profile replaces the list of preferences. *)
EditPreferences(P) ==
  /\ mishaps < MaxMishaps /\ P # prefs
  /\ prefs' = P
  /\ edited' = edited \cup (P \ prefs) \cup (prefs \ P)
  /\ mishaps' = mishaps + 1
  /\ UNCHANGED <<table, jobs, worker, erased, unqueued>>

(* The row goes with its signals; what they added to the counts stays. *)
DeleteInteraction(i) ==
  /\ i \in rows /\ mishaps < MaxMishaps
  /\ rows' = rows \ {i}
  /\ extracted' = [extracted EXCEPT ![i] = {}]
  /\ erased' = IF extracted[i] = {} THEN erased
               ELSE Append(erased, CHOOSE s \in extracted[i] : TRUE)
  /\ rated' = rated \ {i}
  /\ mishaps' = mishaps + 1
  /\ UNCHANGED <<counts, prefs, jobs, worker, edited, unqueued>>

(* The process ends and is started again.  Nothing resets the job the       *)
(* worker held; a handler that had not enqueued its job never does.         *)
Crash ==
  /\ mishaps < MaxMishaps
  /\ mishaps' = mishaps + 1
  /\ LET cut == {j \in Job : jobs[j].state = "handler"}
     IN /\ jobs' = [j \in Job |-> IF j \in cut THEN FreeJob ELSE jobs[j]]
        /\ unqueued' = unqueued \cup UNION {jobs[j].of : j \in cut}
  /\ WorkerIdle
  /\ UNCHANGED <<table, prefs, edited, erased>>

-----------------------------------------------------------------------------
WorkerNext ==
  \/ \E j \in Job : Claim(j)
  \/ \E s \in Answer : ExtractFromFeedback(s)
  \/ HasExtractedSignals \/ GetInteraction \/ PersistSignals \/ Aggregate
  \/ ApplyDelta \/ CompleteJob \/ FailJob

HandlerNext == \E j \in Job : enqueueFeedbackExtract(j)

Next ==
  \/ \E i \in Interaction : UpdateFeedback(i)
  \/ HandlerNext
  \/ \E j \in Job : EnqueueFails(j)
  \/ \E i \in Interaction : DeleteInteraction(i)
  \/ WorkerNext
  \/ StepFails \/ CloseFails
  \/ \E P \in Edit : EditPreferences(P)
  \/ Crash

Spec == Init /\ [][Next]_vars

(* A handler that has started goes on, and the worker's loop polls. *)
FairSpec == Spec /\ WF_vars(WorkerNext) /\ WF_vars(HandlerNext)

-----------------------------------------------------------------------------
(* What the code must achieve *)

(* Occurrences of a type of signal for a key in the lists that were stored, *)
(* those of the rows and those that went with a deleted row.                *)
StoredInRow(i, k, type) ==
  UNION {{<<"row", i, n>> : n \in Typed(s, k, type)} : s \in extracted[i]}
StoredBefore(m, k, type) == {<<"deleted", m, n>> : n \in Typed(erased[m], k, type)}

Stored(k, type) ==
  (UNION {StoredInRow(i, k, type) : i \in Interaction})
    \cup (UNION {StoredBefore(m, k, type) : m \in DOMAIN erased})

(* The table of counts is at any moment what counting the stored lists from *)
(* scratch would give, through retries, crashes, second ratings and         *)
(* deletions: PersistSignalsAtomically and the check before it never count  *)
(* an interaction twice or leave one half counted.                          *)
CountsMatchSignals ==
  \A k \in Key :
    /\ counts[k].pos = Cardinality(Stored(k, "positive"))
    /\ counts[k].neg = Cardinality(Stored(k, "negative"))

(* An applied pattern is in the profile, a removed one is not, but for what *)
(* the user changed since the last application.                             *)
ProfileIsCurrent ==
  LET d == AggregateFromCounts(counts)
  IN d.add \ edited \subseteq prefs /\ (d.remove \ edited) \cap prefs = {}

(* If the profile lags behind the counts, a job that will apply them is     *)
(* still there, or it used up its attempts: no path of the worker, in       *)
(* particular not the one that skips extraction, completes a job whose      *)
(* counts were not applied.                                                 *)
StaleProfileHasJob ==
  ProfileIsCurrent \/
  \E j \in Job : /\ jobs[j].state \in {"pending", "running", "failed"}
                 /\ \A i \in jobs[j].of : extracted[i] # {} \/ i \notin rows

GivenUp(i) ==
  \/ i \notin rows \/ i \in unqueued
  \/ \E j \in Job : /\ i \in jobs[j].of
                    /\ jobs[j].state = "failed" \/ (jobs[j].state = "running" /\ j \notin wjob)

(* Every rating is learned from in the end unless the row is deleted, the   *)
(* enqueueing failed, the attempts ran out or a crash stranded the job.     *)
RatingIsLearned ==
  \A i \in Interaction : i \in rated ~> (extracted[i] # {} \/ GivenUp(i))
=============================================================================
