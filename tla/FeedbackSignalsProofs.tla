----------------------- MODULE FeedbackSignalsProofs -----------------------
(***************************************************************************)
(* Theorems about FeedbackSignals, for any set of interactions, any        *)
(* sentences and answers, any thresholds, and any number of ratings,       *)
(* failed calls, crashes, edits and deletions.                             *)
(*                                                                         *)
(* The counts are right because between the check and the transaction the  *)
(* interaction of the job has no list (NotCountedYet): nobody but the      *)
(* worker stores one, and it holds one job.  The profile follows because   *)
(* the delta about to be applied is that of the counts as they are         *)
(* (DeltaIsCurrent) and the display forms of two patterns are distinct     *)
(* sentences (DisplaysKeyed), so that additions and removals are disjoint. *)
(***************************************************************************)
EXTENDS FeedbackSignals, FiniteSetTheorems, TLAPS

(* A row of the queue is about one interaction; an open one has attempts.    *)
JobsAreWhole ==
  \A j \in Job :
    /\ jobs[j].state # "none" => \E i \in Interaction : jobs[j].of = {i}
    /\ jobs[j].state \in {"none", "handler", "pending", "running"}
         => jobs[j].attempts < MaxAttempts

WorkerHoldsOne ==
  IF wpc = "idle" THEN wjob = {}
  ELSE \E j \in Job : wjob = {j} /\ jobs[j].state = "running"

Working(i) == \E j \in wjob : i \in jobs[j].of

(* A stored list is one of the answers, and it is deleted with its row.      *)
OneListEach ==
  \A i \in Interaction :
    /\ extracted[i] = {} \/ \E s \in Answer : extracted[i] = {s}
    /\ i \notin rows => extracted[i] = {}

NotCountedYet ==
  /\ wpc = "persist" => wanswer \in Answer
  /\ wpc \in {"load", "extract", "persist"} =>
       \A i \in Interaction : Working(i) => extracted[i] = {}

(* The interaction of the job was counted, or is gone.                       *)
Processed(i) == extracted[i] # {} \/ i \notin rows

CountedBeforeApplied ==
  wpc \in {"aggregate", "apply", "done"} =>
    \A i \in Interaction : Working(i) => Processed(i)

StoredIsFinite ==
  \A k \in Key : IsFiniteSet(Stored(k, "positive")) /\ IsFiniteSet(Stored(k, "negative"))

DisplaysKeyed == \A k \in Key : \A t \in counts[k].display : KeyOf[t] = k

DeltaIsCurrent == wpc = "apply" => wdelta = AggregateFromCounts(counts)

AppliedWhenDone == wpc = "done" => ProfileIsCurrent

IInv ==
  /\ TypeOK
  /\ JobsAreWhole
  /\ WorkerHoldsOne
  /\ OneListEach
  /\ NotCountedYet
  /\ CountedBeforeApplied
  /\ StoredIsFinite
  /\ CountsMatchSignals
  /\ DisplaysKeyed
  /\ DeltaIsCurrent
  /\ AppliedWhenDone
  /\ StaleProfileHasJob

-----------------------------------------------------------------------------
(* The interaction the worker is at is that of the job it holds.             *)
LEMMA OfIsWorking ==
  ASSUME IInv, wpc # "idle"
  PROVE  /\ Of \in Interaction
         /\ \E j \in Job : wjob = {j} /\ jobs[j].state = "running" /\ jobs[j].of = {Of}
         /\ \A i : Working(i) <=> i = Of
<1>1. PICK j \in Job : wjob = {j} /\ jobs[j].state = "running"
  BY DEF IInv, WorkerHoldsOne
<1>2. PICK i \in Interaction : jobs[j].of = {i}
  BY <1>1 DEF IInv, JobsAreWhole
<1>3. \E k \in wjob : jobs[k].of = {i}
  BY <1>1, <1>2
<1>4. Of \in Interaction /\ \E k \in wjob : jobs[k].of = {Of}
  BY <1>2, <1>3 DEF Of
<1>5. jobs[j].of = {Of}
  BY <1>1, <1>4
<1>6. QED
  BY <1>1, <1>4, <1>5 DEF Working

(* Counting occurrences. *)
LEMMA TypedIsFinite ==
  ASSUME NEW s \in Seq(Signal), NEW k, NEW type
  PROVE  IsFiniteSet(Typed(s, k, type)) /\ Cardinality(Typed(s, k, type)) \in Nat
<1>1. IsFiniteSet(1 .. Len(s))
  BY FS_Interval
<1>2. Typed(s, k, type) \subseteq 1 .. Len(s)
  BY DEF Typed
<1>3. QED
  BY <1>1, <1>2, FS_Subset, FS_CardinalityType

Tagged(a, b, T) == {<<a, b, n>> : n \in T}

LEMMA TagCounts ==
  ASSUME NEW a, NEW b, NEW T, IsFiniteSet(T)
  PROVE  IsFiniteSet(Tagged(a, b, T)) /\ Cardinality(Tagged(a, b, T)) = Cardinality(T)
<1> DEFINE f == [n \in T |-> <<a, b, n>>]
<1>1. f \in Injection(T, Tagged(a, b, T))
  BY DEF Injection, IsInjective, Tagged
<1>2. f \in Surjection(T, Tagged(a, b, T))
  BY DEF Surjection, Tagged
<1>3. ExistsBijection(T, Tagged(a, b, T))
  BY <1>1, <1>2 DEF ExistsBijection, Bijection
<1>4. QED
  BY <1>3, FS_Bijection

LEMMA DisjointUnionCounts ==
  ASSUME NEW R, NEW A, IsFiniteSet(R), IsFiniteSet(A), R \cap A = {}
  PROVE  /\ IsFiniteSet(R \cup A)
         /\ Cardinality(R \cup A) = Cardinality(R) + Cardinality(A)
<1>1. Cardinality(R) \in Nat /\ Cardinality(A) \in Nat
  BY FS_CardinalityType
<1>2. /\ IsFiniteSet(R \cup A)
      /\ Cardinality(R \cup A) = Cardinality(R) + Cardinality(A) - Cardinality(R \cap A)
  BY FS_Union
<1>3. Cardinality(R \cap A) = 0
  BY FS_EmptySet
<1>4. QED
  BY <1>1, <1>2, <1>3

(* The display form the upsert chooses belongs to the pattern, and additions *)
(* and removals name different sentences.                                    *)
LEMMA FirstTextKeyed ==
  ASSUME NEW s \in Seq(Signal), NEW k, NEW t \in FirstText(s, k)
  PROVE  t \in Text /\ KeyOf[t] = k
<1>1. PICK n \in Counted(s, k) : t = s[n].text
  BY DEF FirstText
<1>2. n \in 1 .. Len(s) /\ KeyOf[s[n].text] = k
  BY <1>1 DEF Counted, Typed
<1>3. s[n] \in Signal
  BY <1>2
<1>4. QED
  BY <1>1, <1>2, <1>3 DEF Signal

LEMMA AddsAreNotRemoved ==
  ASSUME DisplaysKeyed
  PROVE  LET d == AggregateFromCounts(counts) IN d.add \cap d.remove = {}
<1> DEFINE A == UNION {counts[k].display : k \in Adds(counts)}
           R == UNION {counts[k].display : k \in Removes(counts)}
<1>1. ASSUME NEW t \in A, t \in R PROVE FALSE
  <2>1. PICK k \in Adds(counts) : t \in counts[k].display
    BY <1>1
  <2>2. PICK l \in Removes(counts) : t \in counts[l].display
    BY <1>1
  <2>3. k \in Key /\ l \in Key /\ k # l
    BY <2>1, <2>2 DEF Adds, Removes
  <2>4. QED
    BY <2>1, <2>2, <2>3 DEF DisplaysKeyed
<1>2. QED
  BY <1>1 DEF AggregateFromCounts

(* What depends on the lists and the counts only. *)
LEMMA StoredKept ==
  ASSUME IInv, UNCHANGED <<extracted, erased, counts>>
  PROVE  StoredIsFinite' /\ CountsMatchSignals'
<1>1. ASSUME NEW k, NEW type PROVE Stored(k, type)' = Stored(k, type)
  BY DEF Stored, StoredInRow, StoredBefore
<1>2. QED
  BY <1>1 DEF IInv, StoredIsFinite, CountsMatchSignals

LEMMA ListsKept ==
  ASSUME IInv, UNCHANGED <<rows, extracted, erased, counts>>
  PROVE  OneListEach' /\ StoredIsFinite' /\ CountsMatchSignals' /\ DisplaysKeyed'
<1>1. OneListEach' /\ DisplaysKeyed'
  BY DEF IInv, OneListEach, DisplaysKeyed
<1>2. QED
  BY <1>1, StoredKept

LEMMA ProfileKept ==
  ASSUME UNCHANGED <<counts, prefs, edited>>
  PROVE  ProfileIsCurrent' = ProfileIsCurrent
BY DEF ProfileIsCurrent

-----------------------------------------------------------------------------
LEMMA InitIInv == Init => IInv
<1> SUFFICES ASSUME Init PROVE IInv
  OBVIOUS
<1> USE FeedbackAssumption DEF Init
<1>1. TypeOK
  BY FS_EmptySet DEF TypeOK, JobRow, FreeJob, NoRow, NoDelta, WorkerPC
<1>2. JobsAreWhole /\ WorkerHoldsOne /\ OneListEach
  BY DEF JobsAreWhole, FreeJob, WorkerHoldsOne, OneListEach
<1>3. NotCountedYet /\ CountedBeforeApplied /\ DeltaIsCurrent /\ AppliedWhenDone
  BY DEF NotCountedYet, CountedBeforeApplied, DeltaIsCurrent, AppliedWhenDone
<1>4. \A k, type : Stored(k, type) = {}
  BY DEF Stored, StoredInRow, StoredBefore
<1>5. StoredIsFinite /\ CountsMatchSignals
  BY <1>4, FS_EmptySet DEF StoredIsFinite, CountsMatchSignals, NoRow
<1>6. DisplaysKeyed
  BY DEF DisplaysKeyed, NoRow
<1>7. ProfileIsCurrent
  BY DEF ProfileIsCurrent, AggregateFromCounts, Adds, Removes, NoRow
<1>8. QED
  BY <1>1, <1>2, <1>3, <1>5, <1>6, <1>7 DEF IInv, StaleProfileHasJob

(* Handlers: a row that is not open yet changes; the worker's is another.    *)
LEMMA HandlerStep ==
  ASSUME IInv, NEW j \in Job, jobs[j].state \in {"none", "handler"},
         NEW r \in JobRow, jobs' = [jobs EXCEPT ![j] = r],
         r.state \in {"none", "handler", "pending"},
         r.state # "none" => \E i \in Interaction : r.of = {i},
         r.attempts < MaxAttempts,
         rated' \subseteq rows, mishaps' \in 0 .. MaxMishaps, unqueued' \subseteq Interaction,
         UNCHANGED <<rows, extracted, counts, prefs, worker, edited, erased>>
  PROVE  IInv'
<1> USE DEF IInv, worker
<1>1. TypeOK'
  BY DEF TypeOK
<1>2. \A k \in Job : jobs'[k] = IF k = j THEN r ELSE jobs[k]
  BY DEF TypeOK
<1>3. JobsAreWhole'
  BY <1>2 DEF JobsAreWhole
<1>4. j \notin wjob
  BY DEF WorkerHoldsOne
<1>5. wjob \subseteq Job
  BY DEF TypeOK
<1>6. WorkerHoldsOne'
  BY <1>2, <1>4, <1>5 DEF WorkerHoldsOne
<1>7. \A i : Working(i)' <=> Working(i)
  BY <1>2, <1>4, <1>5 DEF Working
<1>8. NotCountedYet' /\ CountedBeforeApplied'
  BY <1>7 DEF NotCountedYet, CountedBeforeApplied, Processed
<1>9. DeltaIsCurrent' /\ AppliedWhenDone'
  BY ProfileKept DEF DeltaIsCurrent, AppliedWhenDone
<1>10. StaleProfileHasJob'
  BY <1>2, ProfileKept DEF StaleProfileHasJob
<1>11. QED
  BY <1>1, <1>3, <1>6, <1>8, <1>9, <1>10, ListsKept

LEMMA QueueStep ==
  ASSUME IInv,
         \/ \E i \in Interaction : UpdateFeedback(i)
         \/ \E j \in Job : enqueueFeedbackExtract(j) \/ EnqueueFails(j)
  PROVE  IInv'
<1> USE FeedbackAssumption DEF IInv, TypeOK, table, history
<1>1. ASSUME NEW i \in Interaction, UpdateFeedback(i) PROVE IInv'
  <2> DEFINE r == [state |-> "handler", attempts |-> 0, of |-> {i}]
  <2>1. PICK j \in Job : jobs[j].state = "none" /\ jobs' = [jobs EXCEPT ![j] = r]
    BY <1>1 DEF UpdateFeedback, Free
  <2>2. r \in JobRow
    BY DEF JobRow
  <2>3. r.state = "handler" /\ r.of = {i} /\ r.attempts < MaxAttempts
    OBVIOUS
  <2>4. /\ rated' \subseteq rows /\ mishaps' \in 0 .. MaxMishaps /\ unqueued' \subseteq Interaction
        /\ UNCHANGED <<rows, extracted, counts, prefs, worker, edited, erased>>
    BY <1>1 DEF UpdateFeedback
  <2> HIDE DEF r, IInv
  <2>5. QED
    BY <2>1, <2>2, <2>3, <2>4, HandlerStep
<1>2. ASSUME NEW j \in Job, enqueueFeedbackExtract(j) PROVE IInv'
  <2> DEFINE r == [jobs[j] EXCEPT !.state = "pending"]
  <2>1. jobs' = [jobs EXCEPT ![j] = r] /\ jobs[j].state = "handler"
    BY <1>2 DEF enqueueFeedbackExtract
  <2>2. r \in JobRow /\ r.state = "pending" /\ r.of = jobs[j].of /\ r.attempts = jobs[j].attempts
    BY DEF JobRow
  <2>3. (\E i \in Interaction : r.of = {i}) /\ r.attempts < MaxAttempts
    BY <2>1, <2>2 DEF JobsAreWhole
  <2> HIDE DEF r
  <2>4. QED
    BY <1>2, <2>1, <2>2, <2>3, HandlerStep DEF enqueueFeedbackExtract
<1>3. ASSUME NEW j \in Job, EnqueueFails(j) PROVE IInv'
  <2>1. FreeJob \in JobRow /\ FreeJob.state = "none" /\ FreeJob.attempts < MaxAttempts
    BY DEF FreeJob, JobRow
  <2>2. jobs[j].of \subseteq Interaction
    BY DEF JobRow
  <2>3. jobs[j].state = "handler" /\ jobs' = [jobs EXCEPT ![j] = FreeJob]
    BY <1>3 DEF EnqueueFails
  <2>4. /\ rated' \subseteq rows /\ mishaps' \in 0 .. MaxMishaps /\ unqueued' \subseteq Interaction
        /\ UNCHANGED <<rows, extracted, counts, prefs, worker, edited, erased>>
    BY <1>3, <2>2 DEF EnqueueFails
  <2> HIDE DEF IInv, TypeOK, history, table
  <2>5. QED
    BY <2>1, <2>3, <2>4, HandlerStep
<1>4. QED
  BY <1>1, <1>2, <1>3

-----------------------------------------------------------------------------
(* The worker. *)

LEMMA ClaimStep ==
  ASSUME IInv, NEW j \in Job, Claim(j)
  PROVE  IInv'
<1> USE DEF IInv, Claim, table, history
<1> DEFINE r == [jobs[j] EXCEPT !.state = "running"]
<1>1. jobs' = [jobs EXCEPT ![j] = r] /\ jobs[j].state = "pending"
  OBVIOUS
<1>2. r \in JobRow /\ r.state = "running" /\ r.of = jobs[j].of /\ r.attempts = jobs[j].attempts
  BY DEF TypeOK, JobRow
<1> HIDE DEF r
<1>3. \A k \in Job : jobs'[k] = IF k = j THEN r ELSE jobs[k]
  BY <1>1 DEF TypeOK
<1>4. TypeOK'
  <2>1. wjob' = {j} /\ Cardinality(wjob') <= 1
    <3>1. Cardinality({j}) = 1
      BY FS_Singleton
    <3>2. QED
      BY <3>1
  <2>2. jobs' \in [Job -> JobRow]
    BY <1>1, <1>2 DEF TypeOK
  <2>3. QED
    BY <2>1, <2>2 DEF TypeOK, WorkerPC
<1>5. JobsAreWhole'
  BY <1>1, <1>2, <1>3 DEF JobsAreWhole
<1>6. WorkerHoldsOne'
  BY <1>2, <1>3 DEF WorkerHoldsOne
<1>7. NotCountedYet' /\ CountedBeforeApplied' /\ DeltaIsCurrent' /\ AppliedWhenDone'
  BY DEF NotCountedYet, CountedBeforeApplied, DeltaIsCurrent, AppliedWhenDone
<1>8. StaleProfileHasJob'
  BY <1>1, <1>2, <1>3, ProfileKept DEF StaleProfileHasJob
<1>9. QED
  BY <1>4, <1>5, <1>6, <1>7, <1>8, ListsKept

(* A step that only moves the worker on. *)
LEMMA MoveStep ==
  ASSUME IInv, wpc # "idle", wpc' \in WorkerPC \ {"idle"},
         wanswer' \in Seq(Signal), wpc' = "persist" => wanswer' \in Answer,
         wdelta' \in [add : SUBSET Text, remove : SUBSET Text],
         mishaps' \in 0 .. MaxMishaps,
         UNCHANGED <<table, prefs, jobs, wjob, history>>,
         wpc' \in {"load", "extract", "persist"} => extracted[Of] = {},
         wpc' \in {"aggregate", "apply", "done"} => Processed(Of),
         wpc' = "apply" => wdelta' = AggregateFromCounts(counts),
         wpc' # "done"
  PROVE  IInv'
<1> USE DEF IInv, table, history
<1>1. TypeOK'
  BY DEF TypeOK
<1>2. JobsAreWhole' /\ WorkerHoldsOne'
  BY DEF JobsAreWhole, WorkerHoldsOne
<1>3. \A i : Working(i)' <=> i = Of
  BY OfIsWorking DEF Working
<1>4. NotCountedYet' /\ CountedBeforeApplied'
  BY <1>3 DEF NotCountedYet, CountedBeforeApplied, Processed
<1>5. DeltaIsCurrent' /\ AppliedWhenDone'
  BY DEF DeltaIsCurrent, AppliedWhenDone
<1>6. StaleProfileHasJob'
  BY ProfileKept DEF StaleProfileHasJob
<1>7. QED
  BY <1>1, <1>2, <1>4, <1>5, <1>6, ListsKept

LEMMA ReadStep ==
  ASSUME IInv,
         HasExtractedSignals \/ GetInteraction \/ StepFails
           \/ \E s \in Answer : ExtractFromFeedback(s)
  PROVE  IInv'
<1>1. /\ TypeOK /\ OneListEach /\ NotCountedYet
  BY DEF IInv
<1>2. /\ wanswer \in Seq(Signal) /\ wdelta \in [add : SUBSET Text, remove : SUBSET Text]
      /\ mishaps \in 0 .. MaxMishaps
  BY <1>1 DEF TypeOK
<1>3. CASE HasExtractedSignals
  BY <1>1, <1>2, <1>3, OfIsWorking, MoveStep
     DEF HasExtractedSignals, OneListEach, Processed, WorkerPC, history
<1>4. CASE GetInteraction
  BY <1>1, <1>2, <1>4, OfIsWorking, MoveStep
     DEF GetInteraction, OneListEach, NotCountedYet, WorkerPC, history
<1>5. CASE StepFails
  BY <1>1, <1>2, <1>5, MoveStep, FeedbackAssumption DEF StepFails, WorkerPC, history
<1>6. ASSUME NEW s \in Answer, ExtractFromFeedback(s) PROVE IInv'
  BY <1>1, <1>2, <1>6, OfIsWorking, MoveStep, FeedbackAssumption
     DEF ExtractFromFeedback, NotCountedYet, WorkerPC, history
<1>7. QED
  BY <1>3, <1>4, <1>5, <1>6

LEMMA AggregateStep ==
  ASSUME IInv, Aggregate
  PROVE  IInv'
<1> DEFINE d == AggregateFromCounts(counts)
<1>1. d \in [add : SUBSET Text, remove : SUBSET Text]
  BY DEF IInv, TypeOK, AggregateFromCounts, Adds, Removes
<1>2. Processed(Of)
  BY OfIsWorking DEF Aggregate, IInv, CountedBeforeApplied
<1>3. wanswer \in Seq(Signal) /\ mishaps \in 0 .. MaxMishaps
  BY DEF IInv, TypeOK
<1> HIDE DEF d
<1>4. wdelta' = d /\ wpc = "aggregate" /\ wpc' = "apply"
      /\ UNCHANGED <<table, prefs, jobs, wjob, wanswer, history, mishaps>>
  BY DEF Aggregate, d
<1>5. QED
  BY <1>1, <1>2, <1>3, <1>4, MoveStep DEF WorkerPC, d

LEMMA StoredElim ==
  ASSUME NEW k, NEW type, NEW x \in Stored(k, type)
  PROVE  \/ \E i \in Interaction : x \in StoredInRow(i, k, type)
         \/ \E m \in DOMAIN erased : x \in StoredBefore(m, k, type)
BY DEF Stored

(* The transaction: the lists gain one whose occurrences the upsert adds.    *)
LEMMA StoredGains ==
  ASSUME IInv, Of \in Interaction, extracted[Of] = {}, wanswer \in Seq(Signal),
         extracted' = [extracted EXCEPT ![Of] = {wanswer}], erased' = erased,
         NEW k \in Key, NEW type \in {"positive", "negative"}
  PROVE  /\ IsFiniteSet(Stored(k, type)')
         /\ Cardinality(Stored(k, type)')
              = Cardinality(Stored(k, type)) + Cardinality(Typed(wanswer, k, type))
<1> DEFINE A == Tagged("row", Of, Typed(wanswer, k, type))
<1>1. \A i \in Interaction : extracted'[i] = IF i = Of THEN {wanswer} ELSE extracted[i]
  BY DEF IInv, TypeOK
<1>2. StoredInRow(Of, k, type) = {}
  BY DEF StoredInRow
<1>3. \A i \in Interaction :
        StoredInRow(i, k, type)' = IF i = Of THEN A ELSE StoredInRow(i, k, type)
  BY <1>1 DEF StoredInRow, Tagged
<1>4. \A m : StoredBefore(m, k, type)' = StoredBefore(m, k, type)
  BY DEF StoredBefore
<1>5. Stored(k, type)' = Stored(k, type) \cup A
  BY <1>2, <1>3, <1>4 DEF Stored
<1>6. Stored(k, type) \cap A = {}
  <2> SUFFICES ASSUME NEW x \in Stored(k, type), x \in A PROVE FALSE
    OBVIOUS
  <2>1. PICK n : x = <<"row", Of, n>>
    BY DEF Tagged
  <2>2. ASSUME NEW i \in Interaction, x \in StoredInRow(i, k, type) PROVE FALSE
    <3>1. i = Of
      BY <2>1, <2>2 DEF StoredInRow
    <3>2. QED
      BY <1>2, <2>2, <3>1
  <2>3. ASSUME NEW m, x \in StoredBefore(m, k, type) PROVE FALSE
    BY <2>1, <2>3 DEF StoredBefore
  <2>4. \/ \E i \in Interaction : x \in StoredInRow(i, k, type)
        \/ \E m \in DOMAIN erased : x \in StoredBefore(m, k, type)
    BY StoredElim
  <2>5. QED
    BY <2>2, <2>3, <2>4
<1>7. IsFiniteSet(A) /\ Cardinality(A) = Cardinality(Typed(wanswer, k, type))
  <2>1. IsFiniteSet(Typed(wanswer, k, type))
    BY TypedIsFinite
  <2>2. QED
    BY <2>1, TagCounts
<1>8. IsFiniteSet(Stored(k, type))
  BY DEF IInv, StoredIsFinite
<1> HIDE DEF A
<1>9. QED
  BY <1>5, <1>6, <1>7, <1>8, DisjointUnionCounts

LEMMA PersistStep ==
  ASSUME IInv, PersistSignals
  PROVE  IInv'
<1> USE FeedbackAssumption DEF history
<1>1. CASE Of \notin rows
  <2>1. /\ wpc = "persist" /\ wpc' = "failed"
        /\ UNCHANGED <<table, prefs, jobs, wjob, wanswer, wdelta, history, mishaps>>
    BY <1>1 DEF PersistSignals, table
  <2>2. /\ wanswer \in Seq(Signal) /\ wdelta \in [add : SUBSET Text, remove : SUBSET Text]
        /\ mishaps \in 0 .. MaxMishaps
    BY DEF IInv, TypeOK
  <2>3. QED
    BY <2>1, <2>2, MoveStep DEF WorkerPC
<1>2. CASE Of \in rows
  <2> DEFINE d == buildSignalCountDeltas(wanswer)
  <2>1. /\ wpc = "persist" /\ wpc' = "aggregate"
        /\ extracted' = [extracted EXCEPT ![Of] = {wanswer}]
        /\ counts' = Upsert(counts, d)
        /\ UNCHANGED <<rows, rated, prefs, jobs, wjob, wanswer, wdelta, history, mishaps>>
    BY <1>2 DEF PersistSignals
  <2>2. /\ Of \in Interaction /\ \A i : Working(i) <=> i = Of
        /\ wanswer \in Answer /\ wanswer \in Seq(Signal) /\ extracted[Of] = {}
    BY <2>1, OfIsWorking DEF IInv, NotCountedYet
  <2>3. \A k \in Key :
          /\ d[k].display \in SUBSET Text /\ \A t \in d[k].display : KeyOf[t] = k
          /\ d[k].pos = Cardinality(Typed(wanswer, k, "positive")) /\ d[k].pos \in Nat
          /\ d[k].neg = Cardinality(Typed(wanswer, k, "negative")) /\ d[k].neg \in Nat
    BY <2>2, FirstTextKeyed, TypedIsFinite DEF buildSignalCountDeltas
  <2> HIDE DEF d
  <2>4. \A k \in Key :
          /\ counts'[k] = [display |-> counts'[k].display,
                           pos |-> counts'[k].pos, neg |-> counts'[k].neg]
          /\ counts'[k].display \in {counts[k].display, d[k].display}
          /\ counts'[k].pos = counts[k].pos + d[k].pos
          /\ counts'[k].neg = counts[k].neg + d[k].neg
    BY <2>1 DEF Upsert
  <2>5. TypeOK'
    <3>1. counts' \in [Key -> [display : SUBSET Text, pos : Nat, neg : Nat]]
      <4>1. \A k \in Key : counts'[k] \in [display : SUBSET Text, pos : Nat, neg : Nat]
        <5> SUFFICES ASSUME NEW k \in Key
                     PROVE  counts'[k] \in [display : SUBSET Text, pos : Nat, neg : Nat]
          OBVIOUS
        <5>1. counts[k] \in [display : SUBSET Text, pos : Nat, neg : Nat]
          BY DEF IInv, TypeOK
        <5>2. counts[k].pos + d[k].pos \in Nat /\ counts[k].neg + d[k].neg \in Nat
          BY <2>3, <5>1
        <5>3. counts'[k].display \in SUBSET Text
          BY <2>3, <2>4, <5>1
        <5>4. counts'[k].pos \in Nat /\ counts'[k].neg \in Nat
          BY <2>4, <5>2
        <5>5. counts'[k] = [display |-> counts'[k].display,
                            pos |-> counts'[k].pos, neg |-> counts'[k].neg]
          BY <2>4
        <5>6. QED
          BY <5>3, <5>4, <5>5
      <4>2. counts' = [k \in Key |-> counts'[k]]
        BY <2>1 DEF Upsert
      <4>3. QED
        BY <4>1, <4>2
    <3>2. extracted' \in [Interaction -> SUBSET Answer]
      BY <2>1, <2>2 DEF IInv, TypeOK
    <3>3. QED
      BY <2>1, <3>1, <3>2 DEF IInv, TypeOK, WorkerPC
  <2>6. JobsAreWhole' /\ WorkerHoldsOne'
    BY <2>1 DEF IInv, JobsAreWhole, WorkerHoldsOne
  <2>7. \A i \in Interaction : extracted'[i] = IF i = Of THEN {wanswer} ELSE extracted[i]
    BY <2>1 DEF IInv, TypeOK
  <2>8. OneListEach'
    BY <1>2, <2>1, <2>2, <2>7 DEF IInv, OneListEach
  <2>9. \A i : Working(i)' <=> i = Of
    BY <2>1, <2>2 DEF Working
  <2>10. NotCountedYet' /\ CountedBeforeApplied' /\ DeltaIsCurrent' /\ AppliedWhenDone'
    BY <2>1, <2>7, <2>9
    DEF NotCountedYet, CountedBeforeApplied, Processed, DeltaIsCurrent, AppliedWhenDone
  <2>11. \A k \in Key, type \in {"positive", "negative"} :
           /\ IsFiniteSet(Stored(k, type)')
           /\ Cardinality(Stored(k, type)')
                = Cardinality(Stored(k, type)) + Cardinality(Typed(wanswer, k, type))
    BY <2>1, <2>2, StoredGains
  <2>12. StoredIsFinite'
    BY <2>11 DEF StoredIsFinite
  <2>13. CountsMatchSignals'
    <3> SUFFICES ASSUME NEW k \in Key
                 PROVE  /\ counts'[k].pos = Cardinality(Stored(k, "positive")')
                        /\ counts'[k].neg = Cardinality(Stored(k, "negative")')
      BY DEF CountsMatchSignals
    <3>1. /\ counts[k].pos = Cardinality(Stored(k, "positive"))
          /\ counts[k].neg = Cardinality(Stored(k, "negative"))
      BY DEF IInv, CountsMatchSignals
    <3>2. /\ counts'[k].pos = counts[k].pos + d[k].pos
          /\ counts'[k].neg = counts[k].neg + d[k].neg
      BY <2>4
    <3>3. QED
      BY <2>3, <2>11, <3>1, <3>2
  <2>14. DisplaysKeyed'
    <3> SUFFICES ASSUME NEW k \in Key, NEW t \in counts'[k].display PROVE KeyOf[t] = k
      BY DEF DisplaysKeyed
    <3>1. t \in counts[k].display \/ t \in d[k].display
      BY <2>4
    <3>2. QED
      BY <2>3, <3>1 DEF IInv, DisplaysKeyed
  <2>15. StaleProfileHasJob'
    <3>1. PICK j \in Job : wjob = {j} /\ jobs[j].state = "running" /\ jobs[j].of = {Of}
      BY <2>1, OfIsWorking
    <3>2. extracted'[Of] # {}
      BY <2>2, <2>7
    <3>3. QED
      BY <2>1, <3>1, <3>2 DEF StaleProfileHasJob
  <2>16. QED
    BY <2>5, <2>6, <2>8, <2>10, <2>12, <2>13, <2>14, <2>15 DEF IInv
<1>3. QED
  BY <1>1, <1>2

(* The delta is that of the counts, so the profile is current afterwards.    *)
LEMMA ApplyStep ==
  ASSUME IInv, ApplyDelta
  PROVE  IInv'
<1> DEFINE d == AggregateFromCounts(counts)
<1>1. /\ wpc = "apply" /\ wpc' = "done"
      /\ prefs' = (prefs \cup d.add) \ d.remove /\ edited' = {}
      /\ UNCHANGED <<table, jobs, wjob, wanswer, wdelta, erased, unqueued, mishaps>>
  BY DEF ApplyDelta, IInv, DeltaIsCurrent
<1>2. d.add \subseteq Text
  BY <1>1 DEF ApplyDelta, IInv, TypeOK, DeltaIsCurrent
<1>3. d.add \cap d.remove = {}
  BY AddsAreNotRemoved DEF IInv
<1>4. AggregateFromCounts(counts') = d
  BY <1>1 DEF table
<1> HIDE DEF d
<1>5. ProfileIsCurrent'
  BY <1>1, <1>3, <1>4 DEF ProfileIsCurrent
<1>6. TypeOK'
  BY <1>1, <1>2 DEF IInv, TypeOK, WorkerPC, table
<1>7. JobsAreWhole' /\ WorkerHoldsOne'
  BY <1>1 DEF IInv, JobsAreWhole, WorkerHoldsOne
<1>8. NotCountedYet' /\ CountedBeforeApplied' /\ DeltaIsCurrent'
  BY <1>1
  DEF IInv, NotCountedYet, CountedBeforeApplied, Processed, Working, DeltaIsCurrent, table
<1>9. QED
  BY <1>1, <1>5, <1>6, <1>7, <1>8, ListsKept DEF IInv, AppliedWhenDone, StaleProfileHasJob, table

(* The worker lets its job go.  A job may disappear from those that are open *)
(* only when the profile is current.                                         *)
LEMMA ReleaseStep ==
  ASSUME IInv, WorkerIdle, UNCHANGED <<table, prefs, edited, erased>>,
         mishaps' \in 0 .. MaxMishaps, unqueued' \subseteq Interaction,
         jobs' \in [Job -> JobRow], JobsAreWhole',
         \/ ProfileIsCurrent
         \/ \A j \in Job : jobs[j].state \in {"pending", "running", "failed"} =>
              jobs'[j].state \in {"pending", "running", "failed"} /\ jobs'[j].of = jobs[j].of
  PROVE  IInv'
<1> USE DEF WorkerIdle, table
<1>1. TypeOK'
  <2>1. wanswer' \in Seq(Signal) /\ wdelta' \in [add : SUBSET Text, remove : SUBSET Text]
    BY DEF NoDelta
  <2>2. wjob' \subseteq Job /\ Cardinality(wjob') <= 1
    BY FS_EmptySet
  <2>3. QED
    BY <2>1, <2>2 DEF IInv, TypeOK, WorkerPC
<1>2. WorkerHoldsOne'
  BY DEF WorkerHoldsOne
<1>3. NotCountedYet' /\ CountedBeforeApplied' /\ DeltaIsCurrent' /\ AppliedWhenDone'
  BY DEF NotCountedYet, CountedBeforeApplied, DeltaIsCurrent, AppliedWhenDone
<1>4. StaleProfileHasJob'
  <2>1. CASE ProfileIsCurrent
    BY <2>1, ProfileKept DEF StaleProfileHasJob
  <2>2. CASE ~ProfileIsCurrent
    BY <2>2 DEF IInv, StaleProfileHasJob
  <2>3. QED
    BY <2>1, <2>2
<1>5. QED
  BY <1>1, <1>2, <1>3, <1>4, ListsKept DEF IInv

(* The row the worker holds is updated. *)
LEMMA RowReplaced ==
  ASSUME IInv, NEW j \in Job, NEW r \in JobRow, jobs' = [jobs EXCEPT ![j] = r],
         r.state # "none" => \E i \in Interaction : r.of = {i},
         r.state \in {"none", "handler", "pending", "running"} => r.attempts < MaxAttempts
  PROVE  /\ jobs' \in [Job -> JobRow] /\ JobsAreWhole'
         /\ \A k \in Job : jobs'[k] = IF k = j THEN r ELSE jobs[k]
<1>1. jobs' \in [Job -> JobRow] /\ \A k \in Job : jobs'[k] = IF k = j THEN r ELSE jobs[k]
  BY DEF IInv, TypeOK
<1>2. JobsAreWhole'
  BY <1>1 DEF IInv, JobsAreWhole
<1>3. QED
  BY <1>1, <1>2

LEMMA CompleteStep ==
  ASSUME IInv, CompleteJob
  PROVE  IInv'
<1>1. PICK j \in wjob : jobs' = [jobs EXCEPT ![j].state = "completed"]
  BY DEF CompleteJob
<1> DEFINE r == [jobs[j] EXCEPT !.state = "completed"]
<1>2. j \in Job /\ jobs[j].state = "running"
  BY DEF CompleteJob, IInv, WorkerHoldsOne
<1>3. r \in JobRow /\ r.state = "completed" /\ r.of = jobs[j].of
  BY <1>2 DEF IInv, TypeOK, JobRow
<1>4. \E i \in Interaction : r.of = {i}
  BY <1>2, <1>3 DEF IInv, JobsAreWhole
<1>5. jobs' = [jobs EXCEPT ![j] = r]
  BY <1>1
<1> HIDE DEF r
<1>6. jobs' \in [Job -> JobRow] /\ JobsAreWhole'
  BY <1>2, <1>3, <1>4, <1>5, RowReplaced
<1>7. ProfileIsCurrent
  BY DEF CompleteJob, IInv, AppliedWhenDone
<1>8. mishaps' \in 0 .. MaxMishaps /\ unqueued' \subseteq Interaction
  BY DEF CompleteJob, IInv, TypeOK, history
<1>9. QED
  BY <1>6, <1>7, <1>8, ReleaseStep DEF CompleteJob, history

LEMMA FailStep ==
  ASSUME IInv, FailJob
  PROVE  IInv'
<1>1. PICK j \in wjob :
        jobs' = [jobs EXCEPT ![j].attempts = jobs[j].attempts + 1,
                             ![j].state = IF jobs[j].attempts + 1 >= MaxAttempts
                                            THEN "failed" ELSE "pending"]
  BY DEF FailJob
<1> DEFINE s == IF jobs[j].attempts + 1 >= MaxAttempts THEN "failed" ELSE "pending"
           r == [jobs[j] EXCEPT !.attempts = jobs[j].attempts + 1, !.state = s]
<1>2. /\ j \in Job /\ jobs[j].state = "running" /\ jobs[j] \in JobRow
      /\ jobs[j].attempts < MaxAttempts /\ jobs[j].attempts \in Nat
  BY DEF FailJob, IInv, WorkerHoldsOne, JobsAreWhole, TypeOK, JobRow
<1>3. jobs' = [jobs EXCEPT ![j] = r]
  BY <1>1, <1>2 DEF IInv, TypeOK
<1>4. s \in {"failed", "pending"} /\ (s = "pending" => jobs[j].attempts + 1 < MaxAttempts)
  BY <1>2, FeedbackAssumption
<1>5. jobs[j].attempts + 1 \in 0 .. MaxAttempts
  BY <1>2, FeedbackAssumption
<1> HIDE DEF s
<1>6. r \in JobRow /\ r.state = s /\ r.of = jobs[j].of /\ r.attempts = jobs[j].attempts + 1
  BY <1>2, <1>4, <1>5 DEF JobRow
<1>7. \E i \in Interaction : r.of = {i}
  BY <1>2, <1>6 DEF IInv, JobsAreWhole
<1> HIDE DEF r
<1>8. /\ jobs' \in [Job -> JobRow] /\ JobsAreWhole'
      /\ \A k \in Job : jobs'[k] = IF k = j THEN r ELSE jobs[k]
  BY <1>2, <1>3, <1>4, <1>6, <1>7, RowReplaced
<1>9. mishaps' \in 0 .. MaxMishaps /\ unqueued' \subseteq Interaction
  BY DEF FailJob, IInv, TypeOK, history
<1>10. QED
  BY <1>4, <1>6, <1>8, <1>9, ReleaseStep DEF FailJob, history

LEMMA CloseFailsStep ==
  ASSUME IInv, CloseFails
  PROVE  IInv'
<1>1. /\ mishaps' \in 0 .. MaxMishaps /\ unqueued' \subseteq Interaction
      /\ jobs' \in [Job -> JobRow] /\ JobsAreWhole'
  BY FeedbackAssumption DEF CloseFails, IInv, TypeOK, JobsAreWhole, history
<1>2. QED
  BY <1>1, ReleaseStep DEF CloseFails, history

(* A handler that is cut off leaves no row; the worker's row stays. *)
LEMMA CrashStep ==
  ASSUME IInv, Crash
  PROVE  IInv'
<1> DEFINE cut == {j \in Job : jobs[j].state = "handler"}
<1>1. \A j \in Job : jobs'[j] = IF j \in cut THEN FreeJob ELSE jobs[j]
  BY DEF Crash
<1>2. FreeJob \in JobRow /\ FreeJob.state = "none" /\ FreeJob.attempts < MaxAttempts
  BY FeedbackAssumption DEF FreeJob, JobRow
<1>3. jobs' \in [Job -> JobRow]
  <2>1. \A j \in Job : jobs'[j] \in JobRow
    BY <1>1, <1>2 DEF IInv, TypeOK
  <2>2. jobs' = [j \in Job |-> jobs'[j]]
    BY DEF Crash
  <2>3. QED
    BY <2>1, <2>2
<1>4. JobsAreWhole'
  BY <1>1, <1>2 DEF IInv, JobsAreWhole
<1>5. unqueued' \subseteq Interaction
  <2>1. \A j \in Job : jobs[j].of \subseteq Interaction
    BY DEF IInv, TypeOK, JobRow
  <2>2. QED
    BY <2>1 DEF Crash, IInv, TypeOK
<1>6. mishaps' \in 0 .. MaxMishaps
  BY FeedbackAssumption DEF Crash, IInv, TypeOK
<1>7. \A j \in Job : jobs[j].state \in {"pending", "running", "failed"} => jobs'[j] = jobs[j]
  BY <1>1
<1>8. QED
  BY <1>3, <1>4, <1>5, <1>6, <1>7, ReleaseStep DEF Crash

-----------------------------------------------------------------------------
(* The user. *)

LEMMA EditStep ==
  ASSUME IInv, NEW P \in Edit, EditPreferences(P)
  PROVE  IInv'
<1> USE FeedbackAssumption DEF table, worker
<1>1. TypeOK'
  BY DEF EditPreferences, IInv, TypeOK
<1>2. JobsAreWhole' /\ WorkerHoldsOne' /\ NotCountedYet' /\ CountedBeforeApplied' /\ DeltaIsCurrent'
  BY DEF EditPreferences, IInv, JobsAreWhole, WorkerHoldsOne, NotCountedYet, CountedBeforeApplied,
         DeltaIsCurrent, Working, Processed
<1>3. ProfileIsCurrent => ProfileIsCurrent'
  BY DEF EditPreferences, ProfileIsCurrent
<1>4. AppliedWhenDone' /\ StaleProfileHasJob'
  BY <1>3 DEF EditPreferences, IInv, AppliedWhenDone, StaleProfileHasJob
<1>5. QED
  BY <1>1, <1>2, <1>4, ListsKept DEF EditPreferences, IInv

(* The list of a deleted row moves: as many occurrences as before. *)
LEMMA StoredMoves ==
  ASSUME IInv, NEW i \in Interaction, NEW s \in Answer, extracted[i] = {s},
         extracted' = [extracted EXCEPT ![i] = {}], erased' = Append(erased, s),
         NEW k \in Key, NEW type \in {"positive", "negative"}
  PROVE  /\ IsFiniteSet(Stored(k, type)')
         /\ Cardinality(Stored(k, type)') = Cardinality(Stored(k, type))
<1>0. PICK m0 : m0 = Len(erased) + 1
  OBVIOUS
<1> DEFINE T == Typed(s, k, type)
           A == Tagged("row", i, T)
           B == Tagged("deleted", m0, T)
           R == Stored(k, type) \ A
<1>1. \A l \in Interaction : extracted'[l] = IF l = i THEN {} ELSE extracted[l]
  BY DEF IInv, TypeOK
<1>2. /\ erased \in Seq(Answer) /\ m0 \notin DOMAIN erased /\ DOMAIN erased' = DOMAIN erased \cup {m0}
      /\ erased'[m0] = s /\ \A m \in DOMAIN erased : erased'[m] = erased[m]
  BY <1>0 DEF IInv, TypeOK
<1>3. \A l \in Interaction : /\ StoredInRow(l, k, type)' = IF l = i THEN {} ELSE StoredInRow(l, k, type)
                             /\ l # i => StoredInRow(l, k, type) \cap A = {}
  BY <1>1 DEF StoredInRow, Tagged
<1>4. StoredInRow(i, k, type) = A
  BY DEF StoredInRow, Tagged
<1>5. \A m \in DOMAIN erased : /\ StoredBefore(m, k, type)' = StoredBefore(m, k, type)
                               /\ StoredBefore(m, k, type) \cap A = {}
                               /\ StoredBefore(m, k, type) \cap B = {}
  <2> SUFFICES ASSUME NEW m \in DOMAIN erased
               PROVE  /\ StoredBefore(m, k, type)' = StoredBefore(m, k, type)
                      /\ StoredBefore(m, k, type) \cap A = {}
                      /\ StoredBefore(m, k, type) \cap B = {}
    OBVIOUS
  <2>1. m # m0 /\ erased'[m] = erased[m]
    BY <1>2
  <2> HIDE DEF T
  <2>2. StoredBefore(m, k, type)' = StoredBefore(m, k, type)
    BY <2>1 DEF StoredBefore
  <2>3. StoredBefore(m, k, type) \cap A = {}
    BY DEF StoredBefore, Tagged
  <2>4. StoredBefore(m, k, type) \cap B = {}
    BY <2>1 DEF StoredBefore, Tagged
  <2>5. QED
    BY <2>2, <2>3, <2>4
<1>6. StoredBefore(m0, k, type)' = B
  BY <1>2 DEF StoredBefore, Tagged
<1>7. \A l \in Interaction : StoredInRow(l, k, type) \cap B = {}
  BY DEF StoredInRow, Tagged
<1> HIDE DEF A, B, T
<1>8. A \subseteq Stored(k, type)
  BY <1>4 DEF Stored
<1>9. Stored(k, type)' = R \cup B
  <2>1. ASSUME NEW x \in Stored(k, type)' PROVE x \in R \cup B
    <3>1. CASE \E l \in Interaction : x \in StoredInRow(l, k, type)'
      BY <1>3, <3>1 DEF Stored
    <3>2. CASE \E m \in DOMAIN erased : x \in StoredBefore(m, k, type)'
      BY <1>5, <3>2 DEF Stored
    <3>3. CASE x \in StoredBefore(m0, k, type)'
      BY <1>6, <3>3
    <3>4. \/ \E l \in Interaction : x \in StoredInRow(l, k, type)'
          \/ \E m \in DOMAIN erased' : x \in StoredBefore(m, k, type)'
      BY DEF Stored
    <3>5. QED
      BY <1>2, <3>1, <3>2, <3>3, <3>4
  <2>2. ASSUME NEW x \in R PROVE x \in Stored(k, type)'
    <3>1. CASE \E l \in Interaction : x \in StoredInRow(l, k, type)
      <4>1. PICK l \in Interaction : x \in StoredInRow(l, k, type)
        BY <3>1
      <4>2. x \in StoredInRow(l, k, type)'
        BY <1>3, <1>4, <4>1
      <4>3. QED
        BY <4>2 DEF Stored
    <3>2. CASE \E m \in DOMAIN erased : x \in StoredBefore(m, k, type)
      <4>1. PICK m \in DOMAIN erased : x \in StoredBefore(m, k, type)
        BY <3>2
      <4>2. x \in StoredBefore(m, k, type)' /\ m \in DOMAIN erased'
        BY <1>2, <1>5, <4>1
      <4>3. QED
        BY <4>2 DEF Stored
    <3>3. QED
      BY <3>1, <3>2, StoredElim
  <2>3. B \subseteq Stored(k, type)'
    BY <1>2, <1>6 DEF Stored
  <2>4. QED
    BY <2>1, <2>2, <2>3
<1>10. Stored(k, type) \cap B = {}
  <2> SUFFICES ASSUME NEW x \in Stored(k, type), x \in B PROVE FALSE
    OBVIOUS
  <2>1. \/ \E l \in Interaction : x \in StoredInRow(l, k, type)
        \/ \E m \in DOMAIN erased : x \in StoredBefore(m, k, type)
    BY StoredElim
  <2>2. QED
    BY <1>5, <1>7, <2>1
<1>11. /\ IsFiniteSet(A) /\ IsFiniteSet(B)
       /\ Cardinality(A) = Cardinality(T) /\ Cardinality(B) = Cardinality(T)
  <2>1. IsFiniteSet(T)
    BY TypedIsFinite, FeedbackAssumption DEF T
  <2>2. QED
    BY <2>1, TagCounts DEF A, B
<1>12. IsFiniteSet(R)
  BY FS_Difference DEF IInv, StoredIsFinite
<1>13. /\ IsFiniteSet(R \cup B)
       /\ Cardinality(R \cup B) = Cardinality(R) + Cardinality(B)
  BY <1>10, <1>11, <1>12, DisjointUnionCounts
<1>14. /\ R \cup A = Stored(k, type)
       /\ Cardinality(R \cup A) = Cardinality(R) + Cardinality(A)
  BY <1>8, <1>11, <1>12, DisjointUnionCounts
<1>15. QED
  BY <1>9, <1>11, <1>13, <1>14

LEMMA DeleteStep ==
  ASSUME IInv, NEW i \in Interaction, DeleteInteraction(i)
  PROVE  IInv'
<1> USE FeedbackAssumption DEF worker
<1>1. /\ rows' = rows \ {i} /\ extracted' = [extracted EXCEPT ![i] = {}]
      /\ rated' = rated \ {i} /\ mishaps' \in 0 .. MaxMishaps
      /\ UNCHANGED <<counts, prefs, jobs, wpc, wjob, wanswer, wdelta, edited, unqueued>>
  BY DEF DeleteInteraction, IInv, TypeOK
<1>2. \A l \in Interaction : extracted'[l] = IF l = i THEN {} ELSE extracted[l]
  BY <1>1 DEF IInv, TypeOK
<1>3. /\ erased' \in Seq(Answer)
      /\ StoredIsFinite' /\ CountsMatchSignals'
  <2>1. CASE extracted[i] = {}
    <3>1. extracted' = extracted /\ erased' = erased
      BY <2>1 DEF DeleteInteraction, IInv, TypeOK
    <3>2. QED
      BY <1>1, <3>1, StoredKept DEF IInv, TypeOK
  <2>2. CASE extracted[i] # {}
    <3>1. PICK s \in Answer : extracted[i] = {s}
      BY <2>2 DEF IInv, OneListEach
    <3>2. erased' = Append(erased, s)
      BY <3>1 DEF DeleteInteraction
    <3>3. \A k \in Key, type \in {"positive", "negative"} :
            /\ IsFiniteSet(Stored(k, type)')
            /\ Cardinality(Stored(k, type)') = Cardinality(Stored(k, type))
      BY <1>1, <3>1, <3>2, StoredMoves
    <3>4. StoredIsFinite' /\ CountsMatchSignals'
      BY <1>1, <3>3 DEF IInv, StoredIsFinite, CountsMatchSignals
    <3>5. QED
      BY <3>2, <3>4 DEF IInv, TypeOK
  <2>3. QED
    BY <2>1, <2>2
<1>4. TypeOK'
  <2>1. extracted' \in [Interaction -> SUBSET Answer]
    BY <1>1 DEF IInv, TypeOK
  <2>2. QED
    BY <1>1, <1>3, <2>1 DEF IInv, TypeOK
<1>5. JobsAreWhole' /\ WorkerHoldsOne' /\ DeltaIsCurrent' /\ DisplaysKeyed'
  BY <1>1 DEF IInv, JobsAreWhole, WorkerHoldsOne, DeltaIsCurrent, DisplaysKeyed
<1>6. OneListEach'
  BY <1>1, <1>2 DEF IInv, OneListEach
<1>7. \A l \in Interaction : Processed(l) => Processed(l)'
  BY <1>1, <1>2 DEF Processed
<1>8. NotCountedYet' /\ CountedBeforeApplied'
  BY <1>1, <1>2, <1>7 DEF IInv, NotCountedYet, CountedBeforeApplied, Working
<1>9. AppliedWhenDone'
  BY <1>1, ProfileKept DEF IInv, AppliedWhenDone
<1>10. StaleProfileHasJob'
  <2>1. \A j \in Job : jobs[j].of \subseteq Interaction
    BY DEF IInv, TypeOK, JobRow
  <2>2. QED
    BY <1>1, <1>7, <2>1, ProfileKept DEF IInv, StaleProfileHasJob, Processed
<1>11. QED
  BY <1>3, <1>4, <1>5, <1>6, <1>8, <1>9, <1>10 DEF IInv

LEMMA NextIInv == IInv /\ [Next]_vars => IInv'
<1> SUFFICES ASSUME IInv, [Next]_vars PROVE IInv'
  OBVIOUS
<1>1. CASE \E j \in Job : Claim(j)
  BY <1>1, ClaimStep
<1>2. CASE UNCHANGED vars
  BY <1>2, ListsKept, ProfileKept
  DEF vars, table, worker, history, IInv, TypeOK, JobsAreWhole, WorkerHoldsOne, NotCountedYet,
      CountedBeforeApplied, Working, Processed, DeltaIsCurrent, AppliedWhenDone,
      StaleProfileHasJob
<1>3. QED
  BY <1>1, <1>2, QueueStep, ReadStep, PersistStep, AggregateStep, ApplyStep, CompleteStep, FailStep,
     CloseFailsStep, CrashStep, EditStep, DeleteStep
  DEF Next, WorkerNext, HandlerNext

LEMMA Invariance == Spec => []IInv
BY InitIInv, NextIInv, PTL DEF Spec

-----------------------------------------------------------------------------
(* Rows, lists, counts, jobs and the worker keep their types; a job never    *)
(* makes more than max_attempts attempts (internal/synthesis/worker.go).     *)
THEOREM TypeCorrect == Spec => []TypeOK
<1>1. IInv => TypeOK
  BY DEF IInv
<1>2. QED
  BY <1>1, Invariance, PTL

(* The table signal_counts is what counting every stored list from scratch   *)
(* gives: no retry, crash, second rating or deletion makes the worker count  *)
(* an interaction twice or half (Store.PersistSignalsAtomically and the      *)
(* check of processJob before it).                                           *)
THEOREM CountsAreExact == Spec => []CountsMatchSignals
<1>1. IInv => CountsMatchSignals
  BY DEF IInv
<1>2. QED
  BY <1>1, Invariance, PTL

(* No job whose counts have not reached the profile is completed: while the  *)
(* profile lags, a job that will apply the counts is there, or used up its   *)
(* attempts (FeedbackWorker.processJob).                                     *)
THEOREM LaggingProfileHasJob == Spec => []StaleProfileHasJob
<1>1. IInv => StaleProfileHasJob
  BY DEF IInv
<1>2. QED
  BY <1>1, Invariance, PTL
=============================================================================
