-------------------------- MODULE IngestIndexProofs --------------------------
(***************************************************************************)
(* Theorems about IngestIndex, for any finite set of rows, any delete      *)
(* requests, limits, failed calls and crashes.                             *)
(*                                                                         *)
(* That a completed job means a searchable row follows the vector from the *)
(* insert (InsertedIsThere) over the update (UpdatedIsThere) to the end:   *)
(* once a row names a vector of its own its job never runs again           *)
(* (OwnRefsMeanDone).                                                      *)
(*                                                                         *)
(* Orphans are counted with what cannot be saved from becoming one         *)
(* (Stranded): a vector its row names and a delete request on its way has  *)
(* not noted.  Each is charged to a failed call, a crash, or the one race  *)
(* of its row between indexing and deletion that can have such an outcome  *)
(* (SpentRaces); none of the three is ever taken back.                     *)
(***************************************************************************)
EXTENDS IngestIndex, FiniteSetTheorems, TLAPS

(* A row comes before its job, and a job that may run has attempts left.    *)
RowBeforeJob ==
  \A s \in Source :
    /\ handler[s] = "none" => row[s] = "none"
    /\ handler[s] = "chat" => row[s] = "none" /\ s \in Interaction
    /\ handler[s] = "enqueue" => row[s] # "none" /\ job[s] = "none"
    /\ row[s] = "none" => ref[s] = {} /\ job[s] = "none"
    /\ job[s] = "none" => attempts[s] = 0
    /\ job[s] \in {"pending", "running"} => attempts[s] < MaxAttempts

VectorsHaveRows ==
  /\ IsFiniteSet(vectors)
  /\ \A v \in vectors : row[v.src] # "none"
  /\ \A i \in Interaction : \A v \in used[i] : v.src # i

WorkerHoldsJob == work.pc # "idle" => job[work.src] = "running"

DeletesDoom ==
  /\ \A s \in Source : row[s] = "deleted" => s \in doomed
  /\ \A s \in doomed : row[s] # "none"
  /\ \A h \in Deleter : del[h].pc # "idle" => del[h].src \in doomed

NamesOwn(s) == \E v \in ref[s] : v.src = s

OwnRefsMeanDone ==
  \A s \in Source :
    NamesOwn(s) => /\ job[s] \in {"running", "completed"}
                   /\ work.src = s => work.pc \in {"idle", "complete"}

InsertedIsThere ==
  work.pc = "update" /\ work.src \notin doomed => VectorOf(work.src) \in vectors \cup lost

Searchable(s) ==
  /\ row[s] = "saved"
  /\ ref[s] = {VectorOf(s)}
  /\ ref[s] \subseteq vectors \cup lost

UpdatedIsThere == work.pc = "complete" /\ work.src \notin doomed => Searchable(work.src)

(* The worker is past its look at the row.                                  *)
Indexing(s) == work.src = s /\ work.pc \in {"embed", "insert", "update"}

RacesAreSeen ==
  work.pc # "idle" =>
    (BeingDeleted(work.src) \/ (row[work.src] = "deleted" /\ Indexing(work.src))
       => work.src \in raced)

(* A race is open while it can still strand a vector.                       *)
Open(s) == IF row[s] = "saved" THEN ~NamesOwn(s) ELSE Indexing(s)
SpentRaces == {s \in raced : ~Open(s)}

Missed(v) == \E h \in Deleter : del[h].pc # "idle" /\ del[h].src = v.src /\ v \notin del[h].todo

Stranded ==
  {v \in vectors : IF v \in ref[v.src] THEN Missed(v)
                   ELSE ~(work.pc = "update" /\ v = VectorOf(work.src))}

StrandedIsCharged == Cardinality(Stranded) <= faults + crashes + Cardinality(SpentRaces)

Order ==
  /\ RowBeforeJob
  /\ VectorsHaveRows
  /\ WorkerHoldsJob
  /\ DeletesDoom
  /\ OwnRefsMeanDone
  /\ InsertedIsThere
  /\ UpdatedIsThere
  /\ CompletedMeansSearchable
  /\ RacesAreSeen

IInv == TypeOK /\ Order /\ StrandedIsCharged

-----------------------------------------------------------------------------
LEMMA Limits ==
  /\ MaxAttempts \in Nat /\ MaxAttempts > 0
  /\ TopK \in Nat /\ MaxFaults \in Nat /\ MaxCrashes \in Nat
  /\ IsFiniteSet(Source)
  /\ \A s \in Source : (s \in Doc \/ s \in Interaction) /\ ~(s \in Doc /\ s \in Interaction)
  /\ Doc \subseteq Source /\ Interaction \subseteq Source
BY IndexAssumption DEF IndexAssumption, Source

LEMMA Idle ==
  /\ IdleWork \in [src : Source, pc : WorkerPC] /\ IdleWork.pc = "idle"
  /\ IdleDelete \in [src : Source, todo : SUBSET Vector, pc : {"idle", "vectors"}]
  /\ IdleDelete.pc = "idle"
<1>1. (CHOOSE s \in Source : TRUE) \in Source
  BY IndexAssumption DEF IndexAssumption
<1>2. QED
  BY <1>1 DEF IdleWork, IdleDelete, WorkerPC

LEMMA VectorOfType ==
  ASSUME TypeOK, NEW s \in Source, attempts[s] < MaxAttempts
  PROVE  VectorOf(s) \in Vector /\ VectorOf(s).src = s
<1>1. attempts[s] \in 0 .. MaxAttempts - 1 /\ 0 \in 0 .. MaxAttempts - 1
  BY Limits DEF TypeOK
<1>2. (IF s \in Doc THEN attempts[s] ELSE 0) \in 0 .. MaxAttempts - 1
  BY <1>1
<1>3. QED
  BY <1>2 DEF VectorOf, Vector

(* What the worker is at.                                                   *)
LEMMA WorkParts ==
  ASSUME IInv
  PROVE  /\ work.src \in Source /\ work.pc \in WorkerPC
         /\ work.pc # "idle" =>
              /\ job[work.src] = "running" /\ attempts[work.src] < MaxAttempts
              /\ row[work.src] \in {"saved", "deleted"}
              /\ VectorOf(work.src) \in Vector /\ VectorOf(work.src).src = work.src
<1>1. work.src \in Source /\ work.pc \in WorkerPC
  BY DEF IInv, TypeOK
<1>2. work.pc # "idle" =>
        /\ job[work.src] = "running" /\ attempts[work.src] < MaxAttempts
        /\ row[work.src] \in {"saved", "deleted"}
  BY <1>1 DEF IInv, TypeOK, Order, RowBeforeJob, WorkerHoldsJob
<1>3. QED
  BY <1>1, <1>2, VectorOfType DEF IInv

LEMMA WorkerToParts ==
  ASSUME IInv, NEW p \in WorkerPC, WorkerTo(p)
  PROVE  /\ work' \in [src : Source, pc : WorkerPC]
         /\ work'.pc = p
         /\ p # "idle" => work'.src = work.src
BY Idle DEF IInv, TypeOK, WorkerTo

LEMMA FaultParts ==
  ASSUME TypeOK, Fault
  PROVE  faults' \in 0 .. MaxFaults /\ faults' = faults + 1
BY Limits DEF TypeOK, Fault

LEMMA InitIInv == Init => IInv
<1> SUFFICES ASSUME Init PROVE IInv
  OBVIOUS
<1>1. TypeOK
  BY Idle, Limits DEF Init, TypeOK
<1>2. Order
  BY Idle, Limits, FS_EmptySet
     DEF Init, Order, RowBeforeJob, VectorsHaveRows, WorkerHoldsJob, DeletesDoom,
         OwnRefsMeanDone, NamesOwn, InsertedIsThere, UpdatedIsThere, CompletedMeansSearchable,
         RacesAreSeen
<1>3. StrandedIsCharged
  <2>1. Stranded = {} /\ SpentRaces = {}
    BY DEF Init, Stranded, SpentRaces
  <2>2. QED
    BY <2>1, FS_EmptySet DEF Init, StrandedIsCharged
<1>4. QED
  BY <1>1, <1>2, <1>3 DEF IInv

-----------------------------------------------------------------------------
(* Counting.                                                                *)
LEMMA FiniteParts ==
  ASSUME TypeOK, IsFiniteSet(vectors)
  PROVE  /\ IsFiniteSet(Stranded) /\ Cardinality(Stranded) \in Nat
         /\ IsFiniteSet(SpentRaces) /\ Cardinality(SpentRaces) \in Nat
         /\ faults \in Nat /\ crashes \in Nat
<1>1. Stranded \in SUBSET vectors /\ SpentRaces \in SUBSET Source
  BY DEF TypeOK, Stranded, SpentRaces
<1>2. IsFiniteSet(Stranded)
  BY <1>1, FS_Subset
<1>3. IsFiniteSet(SpentRaces)
  BY <1>1, FS_Subset, Limits
<1>4. Cardinality(Stranded) \in Nat /\ Cardinality(SpentRaces) \in Nat
  BY <1>2, <1>3, FS_CardinalityType
<1>5. QED
  BY <1>2, <1>3, <1>4, Limits DEF TypeOK

LEMMA FinitePartsNext ==
  ASSUME TypeOK', IsFiniteSet(vectors')
  PROVE  /\ IsFiniteSet(Stranded') /\ Cardinality(Stranded') \in Nat
         /\ IsFiniteSet(SpentRaces') /\ Cardinality(SpentRaces') \in Nat
         /\ faults' \in Nat /\ crashes' \in Nat
<1>1. Stranded' \in SUBSET vectors' /\ SpentRaces' \in SUBSET Source
  BY DEF TypeOK, Stranded, SpentRaces
<1>2. IsFiniteSet(Stranded')
  BY <1>1, FS_Subset
<1>3. IsFiniteSet(SpentRaces')
  BY <1>1, FS_Subset, Limits
<1>4. Cardinality(Stranded') \in Nat /\ Cardinality(SpentRaces') \in Nat
  BY <1>2, <1>3, FS_CardinalityType
<1>5. QED
  BY <1>2, <1>3, <1>4, Limits DEF TypeOK

LEMMA SubsetCounts ==
  ASSUME NEW S, NEW T, IsFiniteSet(T), S \subseteq T
  PROVE  Cardinality(S) <= Cardinality(T)
BY FS_Subset

LEMMA NoMore ==
  ASSUME IInv, TypeOK', IsFiniteSet(vectors'),
         Stranded' \subseteq Stranded, SpentRaces \subseteq SpentRaces',
         faults' >= faults, crashes' >= crashes
  PROVE  StrandedIsCharged'
<1>1. IsFiniteSet(vectors) /\ TypeOK /\ StrandedIsCharged
  BY DEF IInv, Order, VectorsHaveRows
<1>2. Cardinality(Stranded') <= Cardinality(Stranded)
  BY <1>1, FiniteParts, SubsetCounts
<1>3. Cardinality(SpentRaces) <= Cardinality(SpentRaces')
  BY FinitePartsNext, SubsetCounts
<1>4. QED
  BY <1>1, <1>2, <1>3, FiniteParts, FinitePartsNext DEF StrandedIsCharged

(* One vector more, for a failed call, a crash or a race that is now spent. *)
LEMMA OneMore ==
  ASSUME IInv, TypeOK', IsFiniteSet(vectors'), NEW v,
         Stranded' \subseteq Stranded \cup {v}, SpentRaces \subseteq SpentRaces',
         faults' >= faults, crashes' >= crashes,
         \/ faults' = faults + 1 \/ crashes' = crashes + 1
         \/ \E s \in SpentRaces' : s \notin SpentRaces
  PROVE  StrandedIsCharged'
<1>1. IsFiniteSet(vectors) /\ TypeOK /\ StrandedIsCharged
  BY DEF IInv, Order, VectorsHaveRows
<1>2. /\ IsFiniteSet(Stranded \cup {v})
      /\ Cardinality(Stranded \cup {v}) <= Cardinality(Stranded) + 1
  <2>1. IsFiniteSet(Stranded) /\ Cardinality(Stranded) \in Nat
    BY <1>1, FiniteParts
  <2>2. /\ IsFiniteSet(Stranded \cup {v})
        /\ Cardinality(Stranded \cup {v}) =
             IF v \in Stranded THEN Cardinality(Stranded) ELSE Cardinality(Stranded) + 1
    BY <2>1, FS_AddElement
  <2>3. QED
    BY <2>1, <2>2
<1>3. Cardinality(Stranded \cup {v}) \in Nat
  BY <1>2, FS_CardinalityType
<1>4. Cardinality(Stranded') <= Cardinality(Stranded \cup {v})
  BY <1>2, SubsetCounts
<1>5. Cardinality(SpentRaces) <= Cardinality(SpentRaces')
  BY FinitePartsNext, SubsetCounts
<1>6. CASE faults' = faults + 1 \/ crashes' = crashes + 1
  BY <1>1, <1>2, <1>3, <1>4, <1>5, <1>6, FiniteParts, FinitePartsNext DEF StrandedIsCharged
<1>7. CASE \E s \in SpentRaces' : s \notin SpentRaces
  <2>1. SpentRaces # SpentRaces'
    BY <1>7
  <2>2. Cardinality(SpentRaces) # Cardinality(SpentRaces')
    BY <2>1, FinitePartsNext, FS_Subset
  <2>3. QED
    BY <1>1, <1>2, <1>3, <1>4, <1>5, <2>2, FiniteParts, FinitePartsNext DEF StrandedIsCharged
<1>8. QED
  BY <1>6, <1>7

-----------------------------------------------------------------------------
(* Requests that create a row.                                              *)
LEMMA RequestTypes ==
  ASSUME IInv,
         \/ \E d \in Doc : SaveContextDoc(d)
         \/ \E i \in Interaction : Chat(i) \/ SaveInteraction(i) \/ AdjustQuality(i)
         \/ \E s \in Source : EnqueueJob(s) \/ EnqueueFails(s)
  PROVE  TypeOK'
<1> USE DEF table, queue, history
<1>1. TypeOK
  BY DEF IInv
<1>2. CASE \E d \in Doc : SaveContextDoc(d)
  BY <1>1, <1>2, Limits DEF TypeOK, SaveContextDoc
<1>3. CASE \E i \in Interaction : Chat(i)
  <2>1. PICK i \in Interaction : Chat(i)
    BY <1>3
  <2>2. used' \in [Interaction -> SUBSET Vector]
    BY <1>1, <2>1 DEF TypeOK, Chat
  <2>3. handler' \in [Source -> {"none", "chat", "enqueue", "over"}]
    BY <1>1, <2>1 DEF TypeOK, Chat
  <2>4. QED
    BY <1>1, <2>1, <2>2, <2>3 DEF TypeOK, Chat
<1>4. CASE \E i \in Interaction : SaveInteraction(i)
  <2>1. PICK i \in Interaction : SaveInteraction(i)
    BY <1>4
  <2>2. /\ row' \in [Source -> {"none", "saved", "deleted"}]
        /\ ref' \in [Source -> SUBSET Vector]
        /\ handler' \in [Source -> {"none", "chat", "enqueue", "over"}]
    BY <1>1, <2>1, Limits DEF TypeOK, SaveInteraction
  <2>3. QED
    BY <1>1, <2>1, <2>2 DEF TypeOK, SaveInteraction
<1>5. CASE \E i \in Interaction : AdjustQuality(i)
  <2>1. PICK i \in Interaction : AdjustQuality(i)
    BY <1>5
  <2>2. rated' \subseteq Interaction \X Vector
    BY <1>1, <2>1 DEF TypeOK, AdjustQuality
  <2>3. QED
    BY <1>1, <2>1, <2>2 DEF TypeOK, AdjustQuality
<1>6. CASE \E s \in Source : EnqueueJob(s) \/ EnqueueFails(s)
  <2>1. PICK s \in Source : EnqueueJob(s) \/ EnqueueFails(s)
    BY <1>6
  <2>2. /\ handler' \in [Source -> {"none", "chat", "enqueue", "over"}]
        /\ job' \in [Source -> {"none", "pending", "running", "completed", "failed"}]
    BY <1>1, <2>1 DEF TypeOK, EnqueueJob, EnqueueFails
  <2>3. faults' \in 0 .. MaxFaults
    BY <1>1, <2>1, FaultParts DEF TypeOK, EnqueueJob, EnqueueFails
  <2>4. QED
    BY <1>1, <2>1, <2>2, <2>3 DEF TypeOK, EnqueueJob, EnqueueFails
<1>7. QED
  BY <1>2, <1>3, <1>4, <1>5, <1>6

(* Steps that leave the worker, the deletions and the vectors alone.        *)
LEMMA RequestOrder ==
  ASSUME IInv, RowBeforeJob',
         UNCHANGED <<vectors, work, del, doomed, raced, lost, attempts>>,
         \A s \in Source :
           /\ row[s] # "none" => row'[s] = row[s] /\ ref'[s] = ref[s]
           /\ row[s] = "none" => row'[s] \in {"none", "saved"}
           /\ job'[s] = job[s] \/ (job[s] = "none" /\ job'[s] = "pending")
           /\ NamesOwn(s)' => NamesOwn(s),
         \A i \in Interaction : \A v \in used'[i] : v.src # i
  PROVE  Order'
<1>1. work.src \in Source /\ \A s : VectorOf(s)' = VectorOf(s)
  BY WorkParts DEF VectorOf
<1>2. \A s \in Source : job[s] # "none" => row[s] # "none"
  BY DEF IInv, Order, RowBeforeJob
<1>3. \A v \in vectors : v.src \in Source
  BY DEF IInv, TypeOK, Vector
<1>4. VectorsHaveRows'
  BY <1>3 DEF IInv, Order, VectorsHaveRows
<1>5. WorkerHoldsJob'
  BY <1>1 DEF IInv, Order, WorkerHoldsJob
<1>6. DeletesDoom'
  <2>1. doomed \subseteq Source
    BY DEF IInv, TypeOK
  <2>2. \A s \in Source : row'[s] = "deleted" => s \in doomed
    BY DEF IInv, Order, DeletesDoom, RowBeforeJob
  <2>3. \A s \in doomed : row'[s] # "none"
    BY <2>1 DEF IInv, Order, DeletesDoom
  <2>4. QED
    BY <2>2, <2>3 DEF IInv, Order, DeletesDoom
<1>7. OwnRefsMeanDone'
  BY DEF IInv, Order, OwnRefsMeanDone
<1>8. InsertedIsThere'
  BY <1>1 DEF IInv, Order, InsertedIsThere
<1>9. \A s \in Source : row[s] # "none" => (Searchable(s)' <=> Searchable(s))
  BY <1>1 DEF Searchable
<1>10. UpdatedIsThere'
  BY <1>1, <1>9, WorkParts DEF IInv, Order, UpdatedIsThere
<1>11. CompletedMeansSearchable'
  BY <1>1, <1>2 DEF IInv, Order, CompletedMeansSearchable
<1>12. RacesAreSeen'
  BY <1>1, WorkParts DEF IInv, Order, RacesAreSeen, BeingDeleted, Indexing
<1>13. QED
  BY <1>4, <1>5, <1>6, <1>7, <1>8, <1>10, <1>11, <1>12 DEF Order

(* They strand nothing and no race of theirs is over.                       *)
LEMMA RequestStrands ==
  ASSUME IInv, TypeOK',
         UNCHANGED <<vectors, work, del, raced, attempts, crashes>>, faults' >= faults,
         \A s \in Source : row[s] # "none" => row'[s] = row[s] /\ ref'[s] = ref[s]
  PROVE  StrandedIsCharged'
<1>1. \A v \in vectors : v.src \in Source /\ row[v.src] # "none"
  BY DEF IInv, TypeOK, Vector, Order, VectorsHaveRows
<1>2. \A v : Missed(v)' <=> Missed(v)
  BY DEF Missed
<1>3. VectorOf(work.src)' = VectorOf(work.src)
  BY DEF VectorOf
<1>4. Stranded' \subseteq Stranded
  BY <1>1, <1>2, <1>3 DEF Stranded
<1>5. \A s \in raced : s \in Source /\ row[s] # "none"
  BY DEF IInv, TypeOK, Order, DeletesDoom
<1>6. \A s \in raced : Open(s)' <=> Open(s)
  BY <1>5 DEF Open, NamesOwn, Indexing
<1>7. SpentRaces \subseteq SpentRaces'
  BY <1>6 DEF SpentRaces
<1>8. IsFiniteSet(vectors') /\ crashes' >= crashes
  BY DEF IInv, TypeOK, Order, VectorsHaveRows
<1>9. QED
  BY <1>4, <1>7, <1>8, NoMore

LEMMA RequestStep ==
  ASSUME IInv,
         \/ \E d \in Doc : SaveContextDoc(d)
         \/ \E i \in Interaction : Chat(i) \/ SaveInteraction(i) \/ AdjustQuality(i)
         \/ \E s \in Source : EnqueueJob(s) \/ EnqueueFails(s)
  PROVE  IInv'
<1> USE DEF table, queue, history
<1>1. TypeOK' /\ TypeOK /\ Order
  BY RequestTypes DEF IInv
<1>2. UNCHANGED <<vectors, work, del, doomed, raced, lost, attempts, crashes>>
  BY DEF SaveContextDoc, Chat, SaveInteraction, AdjustQuality, EnqueueJob, EnqueueFails
<1>3. faults' >= faults
  BY <1>1, FaultParts
     DEF TypeOK, SaveContextDoc, Chat, SaveInteraction, AdjustQuality, EnqueueJob, EnqueueFails
<1>4. \A i \in Interaction : \A v \in used[i] : v.src # i
  BY <1>1 DEF Order, VectorsHaveRows
<1> DEFINE Same(s) ==
             /\ row[s] # "none" => row'[s] = row[s] /\ ref'[s] = ref[s]
             /\ row[s] = "none" => row'[s] \in {"none", "saved"}
             /\ job'[s] = job[s] \/ (job[s] = "none" /\ job'[s] = "pending")
             /\ NamesOwn(s)' => NamesOwn(s)
<1>5. /\ \A s \in Source : Same(s)
      /\ RowBeforeJob'
      /\ \A i \in Interaction : \A v \in used'[i] : v.src # i
  <2>1. CASE \E d \in Doc : SaveContextDoc(d)
    <3>1. PICK d \in Doc : SaveContextDoc(d)
      BY <2>1
    <3>2. d \in Source /\ row[d] = "none"
      BY <1>1, <3>1, Limits DEF SaveContextDoc, Order, RowBeforeJob
    <3>3. \A s \in Source : /\ ref'[s] = ref[s] /\ job'[s] = job[s] /\ attempts'[s] = attempts[s]
                            /\ row'[s] = IF s = d THEN "saved" ELSE row[s]
                            /\ handler'[s] = IF s = d THEN "enqueue" ELSE handler[s]
      BY <1>1, <3>1 DEF SaveContextDoc, TypeOK
    <3>4. \A s \in Source : Same(s)
      BY <3>2, <3>3 DEF NamesOwn
    <3>5. RowBeforeJob'
      BY <1>1, <3>2, <3>3 DEF RowBeforeJob, Order
    <3>6. QED
      BY <1>4, <3>1, <3>4, <3>5 DEF SaveContextDoc
  <2>2. CASE \E i \in Interaction : Chat(i)
    <3>1. PICK i \in Interaction : Chat(i)
      BY <2>2
    <3>2. i \in Source /\ row[i] = "none"
      BY <1>1, <3>1, Limits DEF Chat, Order, RowBeforeJob
    <3>3. /\ \A s \in Source : handler'[s] = IF s = i THEN "chat" ELSE handler[s]
          /\ UNCHANGED <<row, ref, job, attempts>>
      BY <1>1, <3>1 DEF Chat, TypeOK
    <3>4. \A s \in Source : Same(s)
      BY <3>3 DEF NamesOwn
    <3>5. RowBeforeJob'
      BY <1>1, <3>2, <3>3 DEF RowBeforeJob, Order
    <3>6. PICK S \in SUBSET vectors : used' = [used EXCEPT ![i] = S]
      BY <3>1 DEF Chat
    <3>7. \A v \in vectors : v.src # i
      BY <1>1, <3>2 DEF Order, VectorsHaveRows
    <3>8. \A k \in Interaction : \A v \in used'[k] : v.src # k
      BY <1>1, <1>4, <3>6, <3>7 DEF TypeOK
    <3>9. QED
      BY <3>4, <3>5, <3>8
  <2>3. CASE \E i \in Interaction : SaveInteraction(i)
    <3>1. PICK i \in Interaction : SaveInteraction(i)
      BY <2>3
    <3>2. i \in Source /\ row[i] = "none" /\ job[i] = "none"
      BY <1>1, <3>1, Limits DEF SaveInteraction, Order, RowBeforeJob
    <3>3. \A s \in Source : /\ job'[s] = job[s] /\ attempts'[s] = attempts[s]
                            /\ row'[s] = IF s = i THEN "saved" ELSE row[s]
                            /\ ref'[s] = IF s = i THEN used[i] ELSE ref[s]
                            /\ s # i => handler'[s] = handler[s]
                            /\ s = i => handler'[s] \in {"enqueue", "over"}
      BY <1>1, <3>1 DEF SaveInteraction, TypeOK
    <3>4. \A s \in Source : Same(s)
      BY <1>4, <3>2, <3>3 DEF NamesOwn
    <3>5. RowBeforeJob'
      BY <1>1, <3>2, <3>3 DEF RowBeforeJob, Order
    <3>6. QED
      BY <1>4, <3>1, <3>4, <3>5 DEF SaveInteraction
  <2>4. CASE \E i \in Interaction : AdjustQuality(i)
    <3>1. UNCHANGED <<row, ref, job, attempts, handler, used>>
      BY <2>4 DEF AdjustQuality
    <3>2. QED
      BY <1>1, <1>4, <3>1 DEF NamesOwn, RowBeforeJob, Order
  <2>5. CASE \E s \in Source : EnqueueJob(s) \/ EnqueueFails(s)
    <3>1. PICK e \in Source : EnqueueJob(e) \/ EnqueueFails(e)
      BY <2>5
    <3>2. handler[e] = "enqueue" /\ job[e] = "none" /\ row[e] # "none" /\ attempts[e] = 0
      BY <1>1, <3>1 DEF EnqueueJob, EnqueueFails, Order, RowBeforeJob
    <3>3. /\ UNCHANGED <<row, ref, used, attempts>>
          /\ \A s \in Source : /\ handler'[s] = IF s = e THEN "over" ELSE handler[s]
                               /\ s # e => job'[s] = job[s]
                               /\ s = e => job'[s] \in {"none", "pending"}
      BY <1>1, <3>1, <3>2 DEF EnqueueJob, EnqueueFails, TypeOK
    <3>4. \A s \in Source : Same(s)
      BY <3>2, <3>3 DEF NamesOwn
    <3>5. RowBeforeJob'
      BY <1>1, <3>2, <3>3, Limits DEF RowBeforeJob, Order
    <3>6. QED
      BY <1>4, <3>3, <3>4, <3>5
  <2>6. QED
    BY <2>1, <2>2, <2>3, <2>4, <2>5
<1>6. Order'
  BY <1>2, <1>5, RequestOrder
<1>7. StrandedIsCharged'
  BY <1>1, <1>2, <1>3, <1>5, RequestStrands
<1>8. QED
  BY <1>1, <1>6, <1>7 DEF IInv

-----------------------------------------------------------------------------
(* The worker.  Steps between its calls that change nothing of the store.   *)
LEMMA WorkerMove ==
  ASSUME IInv, NEW p \in {"idle", "embed", "insert", "fail"}, WorkerTo(p),
         work.pc # "idle", work.pc = "complete" => p = "idle",
         p = "embed" => row[work.src] = "saved",
         p = "insert" => work.pc = "embed",
         UNCHANGED <<table, handler, used, queue, del, crashes, history>>,
         faults' \in 0 .. MaxFaults, faults' >= faults,
         work.pc = "update" => faults' = faults + 1
  PROVE  IInv'
<1> USE DEF table, queue, history
<1>1. /\ work' \in [src : Source, pc : WorkerPC]
      /\ work'.pc = p /\ (p # "idle" => work'.src = work.src)
  BY WorkerToParts DEF WorkerPC
<1>2. TypeOK'
  BY <1>1 DEF IInv, TypeOK
<1>3. RowBeforeJob' /\ VectorsHaveRows' /\ DeletesDoom'
  BY DEF IInv, Order, RowBeforeJob, VectorsHaveRows, DeletesDoom
<1>4. \A s : VectorOf(s)' = VectorOf(s)
  BY DEF VectorOf
<1>5. CompletedMeansSearchable'
  BY <1>4 DEF IInv, Order, CompletedMeansSearchable
<1>6. WorkerHoldsJob' /\ InsertedIsThere' /\ UpdatedIsThere'
  BY <1>1 DEF IInv, Order, WorkerHoldsJob, InsertedIsThere, UpdatedIsThere
<1>7. \A s \in Source : NamesOwn(s) /\ work.src = s => work.pc = "complete"
  BY DEF IInv, Order, OwnRefsMeanDone
<1>8. OwnRefsMeanDone'
  BY <1>1, <1>7 DEF IInv, Order, OwnRefsMeanDone, NamesOwn
<1>9. RacesAreSeen'
  BY <1>1 DEF IInv, Order, RacesAreSeen, BeingDeleted, Indexing
<1>10. Order'
  BY <1>3, <1>5, <1>6, <1>8, <1>9 DEF Order
<1>11. SpentRaces \subseteq SpentRaces'
  <2>1. ASSUME NEW s \in raced, ~Open(s) PROVE ~Open(s)'
    <3>1. NamesOwn(s)' <=> NamesOwn(s)
      BY DEF NamesOwn
    <3>2. CASE row[s] = "saved"
      BY <2>1, <3>1, <3>2 DEF Open
    <3>3. CASE row[s] # "saved"
      BY <1>1, <2>1, <3>3 DEF Open, Indexing
    <3>4. QED
      BY <3>2, <3>3
  <2>2. QED
    BY <2>1 DEF SpentRaces
<1>12. \A v : Missed(v)' <=> Missed(v)
  BY DEF Missed
<1>13. Stranded' \subseteq Stranded \cup {VectorOf(work.src)}
  BY <1>1, <1>4, <1>12 DEF Stranded
<1>14. work.pc # "update" => Stranded' \subseteq Stranded
  BY <1>1, <1>12 DEF Stranded
<1>15. IsFiniteSet(vectors') /\ crashes' >= crashes
  BY DEF IInv, Order, VectorsHaveRows, TypeOK
<1>16. StrandedIsCharged'
  <2>1. CASE work.pc = "update"
    BY <1>2, <1>11, <1>13, <1>15, <2>1, OneMore
  <2>2. CASE work.pc # "update"
    BY <1>2, <1>11, <1>14, <1>15, <2>2, NoMore
  <2>3. QED
    BY <2>1, <2>2
<1>17. QED
  BY <1>2, <1>10, <1>16 DEF IInv

LEMMA WorkerMoveStep ==
  ASSUME IInv, LoadRow \/ Embed \/ EmbedFails \/ InsertFails \/ UpdateRefFails \/ FinishFails
  PROVE  IInv'
<1> USE DEF OutsideUnchanged, table, queue, history
<1>1. TypeOK /\ faults \in 0 .. MaxFaults
  BY DEF IInv, TypeOK
<1>2. CASE LoadRow
  <2>1. PICK p \in {"embed", "fail"} : WorkerTo(p) /\ (p = "embed" => row[work.src] = "saved")
    BY <1>2 DEF LoadRow
  <2>2. QED
    BY <1>1, <1>2, <2>1, WorkerMove DEF LoadRow
<1>3. CASE Embed \/ EmbedFails
  BY <1>1, <1>3, WorkerMove DEF Embed, EmbedFails
<1>4. CASE InsertFails \/ UpdateRefFails \/ FinishFails
  <2>1. faults' \in 0 .. MaxFaults /\ faults' = faults + 1
    BY <1>1, <1>4, FaultParts DEF InsertFails, UpdateRefFails, FinishFails
  <2>2. QED
    BY <1>1, <1>4, <2>1, WorkerMove DEF InsertFails, UpdateRefFails, FinishFails
<1>5. QED
  BY <1>2, <1>3, <1>4

LEMMA ClaimStep ==
  ASSUME IInv, NEW s \in Source, ClaimNextJob(s)
  PROVE  IInv'
<1> USE DEF ClaimNextJob, OutsideUnchanged, table
<1>1. /\ work' \in [src : Source, pc : WorkerPC]
      /\ work'.pc = "load" /\ work'.src = s /\ work.pc = "idle"
  BY DEF WorkerPC
<1>2. /\ job[s] = "pending"
      /\ \A x \in Source : job'[x] = IF x = s THEN "running" ELSE job[x]
      /\ job' \in [Source -> {"none", "pending", "running", "completed", "failed"}]
  BY DEF IInv, TypeOK
<1>3. raced \subseteq raced' /\ raced' \subseteq raced \cup {s} /\ (BeingDeleted(s) => s \in raced')
  OBVIOUS
<1>4. BeingDeleted(s) => s \in doomed
  BY DEF IInv, Order, DeletesDoom, BeingDeleted
<1>5. TypeOK'
  <2>1. raced' \subseteq doomed
    BY <1>4 DEF IInv, TypeOK
  <2>2. QED
    BY <1>1, <1>2, <2>1 DEF IInv, TypeOK
<1>6. RowBeforeJob' /\ VectorsHaveRows' /\ DeletesDoom'
  BY <1>2 DEF IInv, Order, RowBeforeJob, VectorsHaveRows, DeletesDoom
<1>7. \A x : VectorOf(x)' = VectorOf(x)
  BY DEF VectorOf
<1>8. CompletedMeansSearchable'
  BY <1>2, <1>7 DEF IInv, Order, CompletedMeansSearchable
<1>9. WorkerHoldsJob' /\ InsertedIsThere' /\ UpdatedIsThere'
  BY <1>1, <1>2 DEF WorkerHoldsJob, InsertedIsThere, UpdatedIsThere
<1>10. ~NamesOwn(s)
  BY <1>2 DEF IInv, Order, OwnRefsMeanDone
<1>11. OwnRefsMeanDone'
  BY <1>1, <1>2, <1>10 DEF IInv, Order, OwnRefsMeanDone, NamesOwn
<1>12. RacesAreSeen'
  BY <1>1, <1>3 DEF RacesAreSeen, BeingDeleted, Indexing
<1>13. Order'
  BY <1>6, <1>8, <1>9, <1>11, <1>12 DEF Order
<1>14. SpentRaces \subseteq SpentRaces'
  <2>1. ASSUME NEW x \in raced, ~Open(x) PROVE ~Open(x)'
    BY <1>1, <2>1 DEF Open, Indexing, NamesOwn
  <2>2. QED
    BY <1>3, <2>1 DEF SpentRaces
<1>15. Stranded' \subseteq Stranded
  BY <1>1 DEF Stranded, Missed
<1>16. IsFiniteSet(vectors') /\ crashes' >= crashes /\ faults' >= faults
  BY DEF IInv, Order, VectorsHaveRows, TypeOK
<1>17. StrandedIsCharged'
  BY <1>5, <1>14, <1>15, <1>16, NoMore
<1>18. QED
  BY <1>5, <1>13, <1>17 DEF IInv

LEMMA InsertStep == ASSUME IInv, Insert PROVE IInv'
<1> USE DEF OutsideUnchanged, queue
<1>1. PICK x \in Source : x = work.src
  BY WorkParts
<1>2. PICK v \in Vector : v = VectorOf(work.src) /\ v.src = x
  BY <1>1, WorkParts DEF Insert
<1>3. PICK p \in {"fail", "update"} : WorkerTo(p) /\ (p = "fail" => v \in vectors)
                                      /\ (p = "update" => v \notin vectors)
  BY <1>2 DEF Insert
<1>4. /\ work' \in [src : Source, pc : WorkerPC]
      /\ work'.pc = p /\ work'.src = x /\ work.pc = "insert"
  BY <1>1, <1>3, WorkerToParts DEF WorkerPC, Insert
<1>5. vectors' = vectors \cup {v} /\ vectors \subseteq Vector
  BY <1>2 DEF Insert, IInv, TypeOK
<1>6. UNCHANGED <<row, ref, job, attempts, handler, used, del, crashes, faults, doomed, raced, lost, rated>>
  BY DEF Insert
<1>7. TypeOK'
  BY <1>4, <1>5, <1>6 DEF IInv, TypeOK
<1>8. row[x] # "none" /\ job[x] = "running" /\ ~NamesOwn(x) /\ v \notin ref[x]
  BY <1>1, <1>2, <1>4, WorkParts DEF IInv, Order, OwnRefsMeanDone, NamesOwn
<1>9. IsFiniteSet(vectors')
  BY <1>5, FS_AddElement DEF IInv, Order, VectorsHaveRows
<1>10. RowBeforeJob' /\ DeletesDoom' /\ VectorsHaveRows'
  BY <1>2, <1>5, <1>6, <1>8, <1>9 DEF IInv, Order, RowBeforeJob, DeletesDoom, VectorsHaveRows
<1>11. \A y : VectorOf(y)' = VectorOf(y)
  BY <1>6 DEF VectorOf
<1>12. WorkerHoldsJob' /\ InsertedIsThere' /\ UpdatedIsThere'
  BY <1>1, <1>2, <1>4, <1>5, <1>6, <1>8, <1>11 DEF WorkerHoldsJob, InsertedIsThere, UpdatedIsThere
<1>13. CompletedMeansSearchable'
  BY <1>5, <1>6, <1>11 DEF IInv, Order, CompletedMeansSearchable
<1>14. OwnRefsMeanDone'
  BY <1>4, <1>6, <1>8 DEF IInv, Order, OwnRefsMeanDone, NamesOwn
<1>15. RacesAreSeen'
  BY <1>1, <1>4, <1>6 DEF IInv, Order, RacesAreSeen, BeingDeleted, Indexing
<1>16. Order'
  BY <1>10, <1>12, <1>13, <1>14, <1>15 DEF Order
<1>17. SpentRaces \subseteq SpentRaces'
  <2>1. ASSUME NEW y \in raced, ~Open(y) PROVE ~Open(y)'
    BY <1>1, <1>4, <1>6, <2>1 DEF Open, Indexing, NamesOwn
  <2>2. QED
    BY <1>6, <2>1 DEF SpentRaces
<1>18. Stranded' \subseteq Stranded
  <2>1. ASSUME NEW w \in Stranded' PROVE w \in Stranded
    <3>1. w \in vectors'
      BY DEF Stranded
    <3>2. IF w \in ref[w.src] THEN Missed(w)' ELSE ~(p = "update" /\ w = v)
      BY <1>1, <1>2, <1>4, <1>6, <1>11 DEF Stranded
    <3>3. Missed(w)' <=> Missed(w)
      BY <1>6 DEF Missed
    <3>4. w # v \/ v \in vectors
      BY <1>2, <1>3, <1>8, <3>2
    <3>5. w \in vectors
      BY <1>5, <3>1, <3>4
    <3>6. QED
      BY <1>4, <3>2, <3>3, <3>5 DEF Stranded
  <2>2. QED
    BY <2>1
<1>19. faults' >= faults /\ crashes' >= crashes
  BY <1>6 DEF IInv, TypeOK
<1>20. StrandedIsCharged'
  BY <1>7, <1>9, <1>17, <1>18, <1>19, NoMore
<1>21. QED
  BY <1>7, <1>16, <1>20 DEF IInv

(* The row is still there: it names the new vector and only that.           *)
LEMMA UpdateRefDone ==
  ASSUME IInv, UpdateRef, row[work.src] = "saved"
  PROVE  IInv'
<1> USE DEF OutsideUnchanged, queue
<1>1. PICK x \in Source : x = work.src
  BY WorkParts
<1>2. PICK v \in Vector : v = VectorOf(work.src) /\ v.src = x
  BY <1>1, WorkParts DEF UpdateRef
<1>3. work.pc = "update" /\ WorkerTo("complete") /\ ref' = [ref EXCEPT ![x] = {v}]
  BY <1>1, <1>2 DEF UpdateRef
<1>4. /\ work' \in [src : Source, pc : WorkerPC]
      /\ work'.pc = "complete" /\ work'.src = x
  BY <1>1, <1>3, WorkerToParts DEF WorkerPC
<1>5. UNCHANGED <<row, vectors, job, attempts, handler, used, del, crashes, faults, doomed, raced, lost, rated>>
  BY DEF UpdateRef
<1>6. /\ ref' \in [Source -> SUBSET Vector]
      /\ \A s \in Source : ref'[s] = IF s = x THEN {v} ELSE ref[s]
  BY <1>3 DEF IInv, TypeOK
<1>7. TypeOK'
  BY <1>4, <1>5, <1>6 DEF IInv, TypeOK
<1>8. row[x] = "saved" /\ job[x] = "running" /\ ~NamesOwn(x)
  BY <1>1, <1>3, WorkParts DEF IInv, Order, OwnRefsMeanDone
<1>9. RowBeforeJob' /\ DeletesDoom' /\ VectorsHaveRows'
  BY <1>5, <1>6, <1>8 DEF IInv, Order, RowBeforeJob, DeletesDoom, VectorsHaveRows
<1>10. \A y : VectorOf(y)' = VectorOf(y)
  BY <1>5 DEF VectorOf
<1>11. WorkerHoldsJob' /\ InsertedIsThere'
  BY <1>4, <1>5, <1>8 DEF WorkerHoldsJob, InsertedIsThere
<1>12. UpdatedIsThere'
  <2>1. x \notin doomed => v \in vectors \cup lost
    BY <1>1, <1>2, <1>3 DEF IInv, Order, InsertedIsThere
  <2>2. ref'[x] = {v} /\ VectorOf(x)' = v /\ row'[x] = "saved"
    BY <1>1, <1>2, <1>5, <1>6, <1>8, <1>10
  <2>3. QED
    BY <1>4, <1>5, <2>1, <2>2 DEF UpdatedIsThere, Searchable
<1>13. CompletedMeansSearchable'
  BY <1>5, <1>6, <1>8, <1>10 DEF IInv, Order, CompletedMeansSearchable
<1>14. OwnRefsMeanDone'
  BY <1>4, <1>5, <1>6, <1>8 DEF IInv, Order, OwnRefsMeanDone, NamesOwn
<1>15. RacesAreSeen'
  BY <1>1, <1>3, <1>4, <1>5, <1>8 DEF IInv, Order, RacesAreSeen, BeingDeleted, Indexing
<1>16. Order'
  BY <1>9, <1>11, <1>12, <1>13, <1>14, <1>15 DEF Order
<1>17. NamesOwn(x)' /\ Open(x) /\ ~Open(x)'
  BY <1>2, <1>5, <1>6, <1>8 DEF Open, NamesOwn
<1>18. SpentRaces \subseteq SpentRaces'
  <2>1. ASSUME NEW y \in raced, ~Open(y) PROVE ~Open(y)'
    <3>1. y \in Source /\ y # x
      BY <1>17, <2>1 DEF IInv, TypeOK
    <3>2. QED
      BY <1>1, <1>4, <1>5, <1>6, <2>1, <3>1 DEF Open, Indexing, NamesOwn
  <2>2. QED
    BY <1>5, <2>1 DEF SpentRaces
<1>19. \A w : Missed(w)' <=> Missed(w)
  BY <1>5 DEF Missed
<1>20. \A w \in vectors : w.src \in Source
  BY DEF IInv, TypeOK, Vector
<1>21. ASSUME NEW w \in Stranded', w # v PROVE w \in Stranded
  <2>1. w \in vectors /\ w.src \in Source
    BY <1>5, <1>20 DEF Stranded
  <2>2. CASE w.src = x
    <3>1. w \notin ref[x] /\ w # VectorOf(work.src)
      BY <1>2, <1>8, <1>21, <2>2 DEF NamesOwn
    <3>2. QED
      BY <2>1, <2>2, <3>1 DEF Stranded
  <2>3. CASE w.src # x
    BY <1>2, <1>4, <1>5, <1>6, <1>19, <1>21, <2>1, <2>3 DEF Stranded
  <2>4. QED
    BY <2>2, <2>3
<1>22. Stranded' \subseteq Stranded \cup {v}
  BY <1>21
<1>23. faults' >= faults /\ crashes' >= crashes /\ IsFiniteSet(vectors')
  BY <1>5 DEF IInv, TypeOK, Order, VectorsHaveRows
<1>24. StrandedIsCharged'
  <2>1. CASE BeingDeleted(x)
    <3>1. x \in raced
      BY <1>1, <1>3, <2>1 DEF IInv, Order, RacesAreSeen
    <3>2. x \in SpentRaces' /\ x \notin SpentRaces
      BY <1>5, <1>17, <3>1 DEF SpentRaces
    <3>3. QED
      BY <1>7, <1>18, <1>22, <1>23, <3>2, OneMore
  <2>2. CASE ~BeingDeleted(x)
    <3>1. ~Missed(v)
      BY <1>2, <2>2 DEF Missed, BeingDeleted
    <3>2. v \in ref'[v.src]
      BY <1>2, <1>6
    <3>3. v \notin Stranded'
      BY <1>19, <3>1, <3>2 DEF Stranded
    <3>4. Stranded' \subseteq Stranded
      BY <1>21, <3>3
    <3>5. QED
      BY <1>7, <1>18, <1>23, <3>4, NoMore
  <2>3. QED
    BY <2>1, <2>2
<1>25. QED
  BY <1>7, <1>16, <1>24 DEF IInv

(* The row has gone since the worker looked: the vector stays behind.       *)
LEMMA UpdateRefGone ==
  ASSUME IInv, UpdateRef, row[work.src] # "saved"
  PROVE  IInv'
<1> USE DEF OutsideUnchanged, queue
<1>1. PICK x \in Source : x = work.src
  BY WorkParts
<1>2. work.pc = "update" /\ WorkerTo("fail") /\ ref' = ref
  BY DEF UpdateRef
<1>3. /\ work' \in [src : Source, pc : WorkerPC]
      /\ work'.pc = "fail" /\ work'.src = x
  BY <1>1, <1>2, WorkerToParts DEF WorkerPC
<1>4. UNCHANGED <<row, ref, vectors, job, attempts, handler, used, del, crashes, faults, doomed, raced, lost, rated>>
  BY <1>2 DEF UpdateRef
<1>5. TypeOK'
  BY <1>3, <1>4 DEF IInv, TypeOK
<1>6. row[x] = "deleted" /\ job[x] = "running" /\ ~NamesOwn(x)
  BY <1>1, <1>2, WorkParts DEF IInv, Order, OwnRefsMeanDone
<1>7. RowBeforeJob' /\ DeletesDoom' /\ VectorsHaveRows'
  BY <1>4 DEF IInv, Order, RowBeforeJob, DeletesDoom, VectorsHaveRows
<1>8. \A y : VectorOf(y)' = VectorOf(y)
  BY <1>4 DEF VectorOf
<1>9. WorkerHoldsJob' /\ InsertedIsThere' /\ UpdatedIsThere'
  BY <1>3, <1>4, <1>6 DEF WorkerHoldsJob, InsertedIsThere, UpdatedIsThere
<1>10. CompletedMeansSearchable'
  BY <1>4, <1>8 DEF IInv, Order, CompletedMeansSearchable
<1>11. OwnRefsMeanDone'
  BY <1>3, <1>4, <1>6 DEF IInv, Order, OwnRefsMeanDone, NamesOwn
<1>12. RacesAreSeen'
  BY <1>1, <1>2, <1>3, <1>4 DEF IInv, Order, RacesAreSeen, BeingDeleted, Indexing
<1>13. Order'
  BY <1>7, <1>9, <1>10, <1>11, <1>12 DEF Order
<1>14. Open(x) /\ ~Open(x)' /\ x \in raced
  <2>1. Indexing(x) /\ ~Indexing(x)'
    BY <1>1, <1>2, <1>3 DEF Indexing
  <2>2. QED
    BY <1>1, <1>2, <1>4, <1>6, <2>1 DEF Open, IInv, Order, RacesAreSeen
<1>15. SpentRaces \subseteq SpentRaces'
  <2>1. ASSUME NEW y \in raced, ~Open(y) PROVE ~Open(y)'
    BY <1>3, <1>4, <2>1 DEF Open, Indexing, NamesOwn
  <2>2. QED
    BY <1>4, <2>1 DEF SpentRaces
<1>16. x \in SpentRaces' /\ x \notin SpentRaces
  BY <1>4, <1>14 DEF SpentRaces
<1>17. Stranded' \subseteq Stranded \cup {VectorOf(work.src)}
  BY <1>3, <1>4 DEF Stranded, Missed
<1>18. faults' >= faults /\ crashes' >= crashes /\ IsFiniteSet(vectors')
  BY <1>4 DEF IInv, TypeOK, Order, VectorsHaveRows
<1>19. StrandedIsCharged'
  BY <1>5, <1>15, <1>16, <1>17, <1>18, OneMore
<1>20. QED
  BY <1>5, <1>13, <1>19 DEF IInv

(* The outcome is written and the worker is free.                           *)
LEMMA FinishStep ==
  ASSUME IInv, CompleteJob \/ FailJob
  PROVE  IInv'
<1> USE DEF OutsideUnchanged, table
<1>1. PICK x \in Source : x = work.src
  BY WorkParts
<1>2. work.pc \in {"complete", "fail"} /\ WorkerTo("idle")
  BY DEF CompleteJob, FailJob
<1>3. work' \in [src : Source, pc : WorkerPC] /\ work'.pc = "idle"
  BY <1>2, WorkerToParts DEF WorkerPC
<1>4. UNCHANGED <<row, ref, vectors, handler, used, del, crashes, faults, doomed, raced, lost, rated>>
  BY DEF CompleteJob, FailJob
<1>5. /\ row[x] # "none" /\ job[x] = "running" /\ attempts[x] < MaxAttempts
      /\ attempts[x] \in 0 .. MaxAttempts
  BY <1>1, <1>2, WorkParts DEF IInv, TypeOK
<1>6. /\ \A s \in Source : s # x => job'[s] = job[s] /\ attempts'[s] = attempts[s]
      /\ job' \in [Source -> {"none", "pending", "running", "completed", "failed"}]
      /\ attempts' \in [Source -> 0 .. MaxAttempts]
      /\ \/ work.pc = "complete" /\ job'[x] = "completed" /\ attempts'[x] = attempts[x]
         \/ /\ work.pc = "fail" /\ job'[x] \in {"pending", "failed"}
            /\ job'[x] = "pending" => attempts'[x] < MaxAttempts
  <2>1. CASE CompleteJob
    BY <1>1, <2>1 DEF CompleteJob, IInv, TypeOK
  <2>2. CASE FailJob
    <3>1. attempts[x] + 1 \in 0 .. MaxAttempts
      BY <1>5, Limits
    <3>2. attempts' = [attempts EXCEPT ![x] = attempts[x] + 1]
      BY <1>1, <2>2 DEF FailJob
    <3>3. job' = [job EXCEPT ![x] = IF attempts[x] + 1 >= MaxAttempts THEN "failed" ELSE "pending"]
      BY <1>1, <2>2 DEF FailJob
    <3>4. QED
      BY <2>2, <3>1, <3>2, <3>3, Limits DEF FailJob, IInv, TypeOK
  <2>3. QED
    BY <2>1, <2>2
<1>7. TypeOK'
  BY <1>3, <1>4, <1>6 DEF IInv, TypeOK
<1>8. RowBeforeJob'
  BY <1>4, <1>5, <1>6 DEF IInv, Order, RowBeforeJob
<1>9. DeletesDoom' /\ VectorsHaveRows'
  BY <1>4 DEF IInv, Order, DeletesDoom, VectorsHaveRows
<1>10. WorkerHoldsJob' /\ InsertedIsThere' /\ UpdatedIsThere' /\ RacesAreSeen'
  BY <1>3 DEF WorkerHoldsJob, InsertedIsThere, UpdatedIsThere, RacesAreSeen
<1>11. CompletedMeansSearchable'
  <2>1. \A s \in Source : s # x => VectorOf(s)' = VectorOf(s)
    BY <1>6 DEF VectorOf
  <2>2. attempts'[x] = attempts[x] => VectorOf(x)' = VectorOf(x)
    BY DEF VectorOf
  <2>3. work.pc = "complete" /\ x \notin doomed => Searchable(x)
    BY <1>1 DEF IInv, Order, UpdatedIsThere
  <2>4. QED
    BY <1>4, <1>6, <2>1, <2>2, <2>3 DEF IInv, Order, CompletedMeansSearchable, Searchable
<1>12. OwnRefsMeanDone'
  <2>1. NamesOwn(x) => work.pc = "complete"
    BY <1>1, <1>2 DEF IInv, Order, OwnRefsMeanDone
  <2>2. QED
    BY <1>3, <1>4, <1>6, <2>1 DEF IInv, Order, OwnRefsMeanDone, NamesOwn
<1>13. Order'
  BY <1>8, <1>9, <1>10, <1>11, <1>12 DEF Order
<1>14. SpentRaces \subseteq SpentRaces'
  <2>1. ASSUME NEW y \in raced, ~Open(y) PROVE ~Open(y)'
    BY <1>3, <1>4, <2>1 DEF Open, Indexing, NamesOwn
  <2>2. QED
    BY <1>4, <2>1 DEF SpentRaces
<1>15. Stranded' \subseteq Stranded
  BY <1>2, <1>4 DEF Stranded, Missed
<1>16. faults' >= faults /\ crashes' >= crashes /\ IsFiniteSet(vectors')
  BY <1>4 DEF IInv, TypeOK, Order, VectorsHaveRows
<1>17. StrandedIsCharged'
  BY <1>7, <1>14, <1>15, <1>16, NoMore
<1>18. QED
  BY <1>7, <1>13, <1>17 DEF IInv

-----------------------------------------------------------------------------
(* Deletions.                                                               *)
LEMMA BeginDeleteStep ==
  ASSUME IInv, NEW h \in Deleter, NEW s \in Source, BeginDelete(h, s)
  PROVE  IInv'
<1> USE DEF InsideUnchanged, table, queue
<1>1. /\ row[s] = "saved" /\ del[h].pc = "idle" /\ ref[s] \in SUBSET Vector
      /\ del' = [del EXCEPT ![h] = [src |-> s, todo |-> ref[s], pc |-> "vectors"]]
  BY DEF BeginDelete, IInv, TypeOK
<1>2. /\ del' \in [Deleter -> [src : Source, todo : SUBSET Vector, pc : {"idle", "vectors"}]]
      /\ \A k \in Deleter : k # h => del'[k] = del[k]
      /\ del'[h].src = s /\ del'[h].todo = ref[s] /\ del'[h].pc = "vectors"
  BY <1>1 DEF IInv, TypeOK
<1>3. UNCHANGED <<row, ref, vectors, handler, used, job, attempts, work, crashes, faults, lost, rated>>
  BY DEF BeginDelete
<1>4. /\ doomed' = doomed \cup {s} /\ raced \subseteq raced' /\ raced' \subseteq raced \cup {s}
      /\ work.pc # "idle" /\ work.src = s => s \in raced'
  BY DEF BeginDelete
<1>5. TypeOK'
  <2>1. doomed' \subseteq Source /\ raced' \subseteq doomed'
    BY <1>4 DEF IInv, TypeOK
  <2>2. QED
    BY <1>2, <1>3, <2>1 DEF IInv, TypeOK
<1>6. RowBeforeJob' /\ VectorsHaveRows' /\ WorkerHoldsJob' /\ OwnRefsMeanDone'
  BY <1>3 DEF IInv, Order, RowBeforeJob, VectorsHaveRows, WorkerHoldsJob, OwnRefsMeanDone, NamesOwn
<1>7. DeletesDoom'
  BY <1>1, <1>2, <1>3, <1>4 DEF IInv, Order, DeletesDoom
<1>8. \A y : VectorOf(y)' = VectorOf(y)
  BY <1>3 DEF VectorOf
<1>9. InsertedIsThere' /\ UpdatedIsThere' /\ CompletedMeansSearchable'
  BY <1>3, <1>4, <1>8
     DEF IInv, Order, InsertedIsThere, UpdatedIsThere, CompletedMeansSearchable, Searchable
<1>10. RacesAreSeen'
  BY <1>2, <1>3, <1>4 DEF IInv, Order, RacesAreSeen, BeingDeleted, Indexing
<1>11. Order'
  BY <1>6, <1>7, <1>9, <1>10 DEF Order
<1>12. SpentRaces \subseteq SpentRaces'
  BY <1>3, <1>4 DEF SpentRaces, Open, Indexing, NamesOwn
<1>13. \A v : v \in ref[v.src] /\ Missed(v)' => Missed(v)
  BY <1>2 DEF Missed
<1>14. Stranded' \subseteq Stranded
  BY <1>3, <1>8, <1>13 DEF Stranded
<1>15. faults' >= faults /\ crashes' >= crashes /\ IsFiniteSet(vectors')
  BY <1>3 DEF IInv, TypeOK, Order, VectorsHaveRows
<1>16. StrandedIsCharged'
  BY <1>5, <1>12, <1>14, <1>15, NoMore
<1>17. QED
  BY <1>5, <1>11, <1>16 DEF IInv

LEMMA DeleteVectorStep ==
  ASSUME IInv, NEW h \in Deleter, NEW v \in del[h].todo,
         DeleteVector(h, v) \/ DeleteVectorFails(h, v)
  PROVE  IInv'
<1> USE DEF InsideUnchanged, table, queue
<1>1. del[h].pc = "vectors" /\ del' = [del EXCEPT ![h].todo = @ \ {v}]
  BY DEF DeleteVector, DeleteVectorFails
<1>2. /\ del' \in [Deleter -> [src : Source, todo : SUBSET Vector, pc : {"idle", "vectors"}]]
      /\ \A k \in Deleter : del'[k].src = del[k].src /\ del'[k].pc = del[k].pc
      /\ \A k \in Deleter : del[k].todo \ {v} \subseteq del'[k].todo
      /\ del[h].src \in doomed
  BY <1>1 DEF IInv, TypeOK, Order, DeletesDoom
<1>3. UNCHANGED <<row, ref, handler, used, job, attempts, work, crashes, doomed, raced, rated>>
  BY DEF DeleteVector, DeleteVectorFails
<1>4. /\ vectors' \subseteq vectors /\ vectors \subseteq vectors' \cup {v}
      /\ lost \subseteq lost' /\ lost' \subseteq lost \cup vectors
      /\ v \in vectors /\ v \notin vectors' => v \in lost' \/ v.src = del[h].src
  BY DEF DeleteVector, DeleteVectorFails
<1>5. \/ v \notin vectors' /\ faults' = faults
      \/ faults' = faults + 1 /\ faults' \in 0 .. MaxFaults
  BY FaultParts DEF DeleteVector, DeleteVectorFails, IInv
<1>6. TypeOK'
  BY <1>2, <1>3, <1>4, <1>5 DEF IInv, TypeOK
<1>7. IsFiniteSet(vectors')
  BY <1>4, FS_Subset DEF IInv, Order, VectorsHaveRows
<1>8. RowBeforeJob' /\ VectorsHaveRows' /\ WorkerHoldsJob' /\ OwnRefsMeanDone'
  BY <1>3, <1>4, <1>7
     DEF IInv, Order, RowBeforeJob, VectorsHaveRows, WorkerHoldsJob, OwnRefsMeanDone, NamesOwn
<1>9. DeletesDoom'
  BY <1>2, <1>3 DEF IInv, Order, DeletesDoom
<1>10. \A y : VectorOf(y)' = VectorOf(y)
  BY <1>3 DEF VectorOf
<1>11. ASSUME NEW x \in Source, x \notin doomed, VectorOf(x) \in vectors \cup lost
       PROVE  VectorOf(x) \in vectors' \cup lost'
  <2>1. VectorOf(x).src = x
    BY DEF VectorOf
  <2>2. VectorOf(x).src # del[h].src
    BY <1>2, <1>11, <2>1
  <2>3. QED
    BY <1>4, <1>11, <2>2
<1>12. \A x \in Source : x \notin doomed /\ Searchable(x) => Searchable(x)'
  BY <1>3, <1>10, <1>11 DEF Searchable
<1>13. InsertedIsThere' /\ UpdatedIsThere'
  BY <1>3, <1>10, <1>11, <1>12, WorkParts DEF IInv, Order, InsertedIsThere, UpdatedIsThere
<1>14. CompletedMeansSearchable'
  BY <1>3, <1>12 DEF IInv, Order, CompletedMeansSearchable, Searchable
<1>15. RacesAreSeen'
  BY <1>2, <1>3 DEF IInv, Order, RacesAreSeen, BeingDeleted, Indexing
<1>16. Order'
  BY <1>8, <1>9, <1>13, <1>14, <1>15 DEF Order
<1>17. SpentRaces \subseteq SpentRaces'
  BY <1>3 DEF SpentRaces, Open, Indexing, NamesOwn
<1>18. ASSUME NEW w \in Stranded', w # v PROVE w \in Stranded
  <2>1. Missed(w)' => Missed(w)
    BY <1>2, <1>18 DEF Missed
  <2>2. QED
    BY <1>3, <1>4, <1>10, <2>1 DEF Stranded
<1>19. Stranded' \subseteq Stranded \cup {v} /\ Stranded' \subseteq vectors'
  BY <1>18 DEF Stranded
<1>20. faults' >= faults /\ crashes' >= crashes
  BY <1>3, <1>5 DEF IInv, TypeOK
<1>21. StrandedIsCharged'
  <2>1. CASE v \notin vectors'
    <3>1. Stranded' \subseteq Stranded
      BY <1>18, <1>19, <2>1
    <3>2. QED
      BY <1>6, <1>7, <1>17, <1>20, <3>1, NoMore
  <2>2. CASE faults' = faults + 1
    BY <1>6, <1>7, <1>17, <1>19, <1>20, <2>2, OneMore
  <2>3. QED
    BY <1>5, <2>1, <2>2
<1>22. QED
  BY <1>6, <1>16, <1>21 DEF IInv

(* The deletion of a row takes what it still names with it.                 *)
LEMMA DeleteRowStep ==
  ASSUME IInv, NEW h \in Deleter, DeleteRow(h)
  PROVE  IInv'
<1> USE DEF InsideUnchanged, queue
<1>1. PICK x \in Source : x = del[h].src
  BY DEF IInv, TypeOK
<1>2. /\ del[h].pc = "vectors" /\ del[h].todo = {} /\ x \in doomed
      /\ row' = [row EXCEPT ![x] = "deleted"] /\ ref' = [ref EXCEPT ![x] = {}]
      /\ del' = [del EXCEPT ![h] = IdleDelete]
  BY <1>1 DEF DeleteRow, IInv, Order, DeletesDoom
<1>3. /\ del' \in [Deleter -> [src : Source, todo : SUBSET Vector, pc : {"idle", "vectors"}]]
      /\ \A k \in Deleter : k # h => del'[k] = del[k]
      /\ del'[h].pc = "idle"
  BY <1>2, Idle DEF IInv, TypeOK
<1>4. /\ row' \in [Source -> {"none", "saved", "deleted"}] /\ ref' \in [Source -> SUBSET Vector]
      /\ \A s \in Source : s # x => row'[s] = row[s] /\ ref'[s] = ref[s]
      /\ row'[x] = "deleted" /\ ref'[x] = {}
  BY <1>2 DEF IInv, TypeOK
<1>5. UNCHANGED <<vectors, handler, used, job, attempts, work, crashes, faults, doomed, raced, lost, rated>>
  BY DEF DeleteRow
<1>6. TypeOK'
  BY <1>3, <1>4, <1>5 DEF IInv, TypeOK
<1>7. row[x] # "none"
  BY <1>2 DEF IInv, Order, DeletesDoom
<1>8. RowBeforeJob' /\ WorkerHoldsJob'
  BY <1>4, <1>5, <1>7 DEF IInv, Order, RowBeforeJob, WorkerHoldsJob
<1>9. VectorsHaveRows'
  <2>1. \A w \in vectors : w.src \in Source
    BY DEF IInv, TypeOK, Vector
  <2>2. QED
    BY <1>4, <1>5, <2>1 DEF IInv, Order, VectorsHaveRows
<1>10. DeletesDoom'
  <2>1. doomed \subseteq Source
    BY DEF IInv, TypeOK
  <2>2. QED
    BY <1>2, <1>3, <1>4, <1>5, <2>1 DEF IInv, Order, DeletesDoom
<1>11. OwnRefsMeanDone'
  BY <1>4, <1>5 DEF IInv, Order, OwnRefsMeanDone, NamesOwn
<1>12. \A y : VectorOf(y)' = VectorOf(y)
  BY <1>5 DEF VectorOf
<1>13. \A s \in Source : s \notin doomed /\ Searchable(s) => Searchable(s)'
  BY <1>2, <1>4, <1>5, <1>12 DEF Searchable
<1>14. InsertedIsThere' /\ UpdatedIsThere' /\ CompletedMeansSearchable'
  <2>1. InsertedIsThere' /\ UpdatedIsThere'
    BY <1>5, <1>12, <1>13, WorkParts DEF IInv, Order, InsertedIsThere, UpdatedIsThere
  <2>2. CompletedMeansSearchable'
    BY <1>5, <1>13 DEF IInv, Order, CompletedMeansSearchable, Searchable
  <2>3. QED
    BY <2>1, <2>2
<1>15. RacesAreSeen'
  <2>1. BeingDeleted(x)
    BY <1>1, <1>2 DEF BeingDeleted
  <2>2. BeingDeleted(work.src)' => BeingDeleted(work.src)
    BY <1>3, <1>5 DEF BeingDeleted
  <2>3. QED
    BY <1>4, <1>5, <2>1, <2>2, WorkParts DEF IInv, Order, RacesAreSeen, Indexing
<1>16. Order'
  BY <1>8, <1>9, <1>10, <1>11, <1>14, <1>15 DEF Order
<1>17. SpentRaces \subseteq SpentRaces'
  <2>1. ASSUME NEW y \in raced, ~Open(y) PROVE ~Open(y)'
    <3>1. CASE y # x
      <4>1. y \in Source
        BY DEF IInv, TypeOK
      <4>2. QED
        BY <1>4, <1>5, <2>1, <3>1, <4>1 DEF Open, Indexing, NamesOwn
    <3>2. CASE y = x
      <4>1. ~Indexing(x)
        BY <2>1, <3>2 DEF Open, Indexing, IInv, Order, OwnRefsMeanDone
      <4>2. ~Indexing(x)'
        BY <1>5, <4>1 DEF Indexing
      <4>3. QED
        BY <1>4, <3>2, <4>2 DEF Open
    <3>3. QED
      BY <3>1, <3>2
  <2>2. QED
    BY <1>5, <2>1 DEF SpentRaces
<1>18. ASSUME NEW w \in Stranded' PROVE w \in Stranded
  <2>1. w \in vectors /\ w.src \in Source
    BY <1>5 DEF Stranded, IInv, TypeOK, Vector
  <2>2. Missed(w)' => Missed(w)
    BY <1>3 DEF Missed
  <2>3. CASE w.src # x
    BY <1>4, <1>5, <1>12, <2>1, <2>2, <2>3 DEF Stranded
  <2>4. CASE w.src = x
    <3>1. w \notin ref'[w.src] /\ ~(work.pc = "update" /\ w = VectorOf(work.src))
      BY <1>4, <1>5, <1>12, <2>4 DEF Stranded
    <3>2. Missed(w)
      BY <1>1, <1>2, <2>4 DEF Missed
    <3>3. QED
      BY <2>1, <3>1, <3>2 DEF Stranded
  <2>5. QED
    BY <2>3, <2>4
<1>19. faults' >= faults /\ crashes' >= crashes /\ IsFiniteSet(vectors')
  BY <1>5 DEF IInv, TypeOK, Order, VectorsHaveRows
<1>20. StrandedIsCharged'
  <2>1. Stranded' \subseteq Stranded
    BY <1>18
  <2>2. QED
    BY <1>6, <1>17, <1>19, <2>1, NoMore
<1>21. QED
  BY <1>6, <1>16, <1>20 DEF IInv

LEMMA DeleteRowFailsStep ==
  ASSUME IInv, NEW h \in Deleter, DeleteRowFails(h)
  PROVE  IInv'
<1> USE DEF InsideUnchanged, table, queue
<1>1. del' = [del EXCEPT ![h] = IdleDelete] /\ faults' \in 0 .. MaxFaults /\ faults' = faults + 1
  BY FaultParts DEF DeleteRowFails, IInv
<1>2. /\ del' \in [Deleter -> [src : Source, todo : SUBSET Vector, pc : {"idle", "vectors"}]]
      /\ \A k \in Deleter : k # h => del'[k] = del[k]
      /\ del'[h].pc = "idle"
  BY <1>1, Idle DEF IInv, TypeOK
<1>3. UNCHANGED <<table, handler, used, queue, work, crashes, history>>
  BY DEF DeleteRowFails, history
<1> USE DEF history
<1>4. TypeOK'
  BY <1>1, <1>2, <1>3 DEF IInv, TypeOK
<1>5. \A y : VectorOf(y)' = VectorOf(y)
  BY <1>3 DEF VectorOf
<1>6. RowBeforeJob' /\ VectorsHaveRows' /\ WorkerHoldsJob' /\ OwnRefsMeanDone'
  BY <1>3 DEF IInv, Order, RowBeforeJob, VectorsHaveRows, WorkerHoldsJob, OwnRefsMeanDone, NamesOwn
<1>7. InsertedIsThere' /\ UpdatedIsThere' /\ CompletedMeansSearchable'
  BY <1>3, <1>5
     DEF IInv, Order, InsertedIsThere, UpdatedIsThere, CompletedMeansSearchable, Searchable
<1>8. DeletesDoom' /\ RacesAreSeen'
  BY <1>2, <1>3 DEF IInv, Order, DeletesDoom, RacesAreSeen, BeingDeleted, Indexing
<1>9. Order'
  BY <1>6, <1>7, <1>8 DEF Order
<1>10. SpentRaces \subseteq SpentRaces'
  BY <1>3 DEF SpentRaces, Open, Indexing, NamesOwn
<1>11. \A w : Missed(w)' => Missed(w)
  BY <1>2 DEF Missed
<1>12. Stranded' \subseteq Stranded
  BY <1>3, <1>5, <1>11 DEF Stranded
<1>13. faults' >= faults /\ crashes' >= crashes /\ IsFiniteSet(vectors')
  BY <1>1, <1>3 DEF IInv, TypeOK, Order, VectorsHaveRows
<1>14. StrandedIsCharged'
  BY <1>4, <1>10, <1>12, <1>13, NoMore
<1>15. QED
  BY <1>4, <1>9, <1>14 DEF IInv

LEMMA CrashStep == ASSUME IInv, CrashRestart PROVE IInv'
<1> USE DEF CrashRestart, table, queue, history
<1>1. /\ work' \in [src : Source, pc : WorkerPC] /\ work'.pc = "idle"
      /\ del' \in [Deleter -> [src : Source, todo : SUBSET Vector, pc : {"idle", "vectors"}]]
      /\ \A k \in Deleter : del'[k].pc = "idle"
  BY Idle
<1>2. /\ handler' \in [Source -> {"none", "chat", "enqueue", "over"}]
      /\ \A s \in Source : handler'[s] = IF handler[s] = "none" THEN "none" ELSE "over"
  BY DEF IInv, TypeOK
<1>3. crashes' = crashes + 1 /\ crashes' \in 0 .. MaxCrashes /\ crashes \in Nat
  BY Limits DEF IInv, TypeOK
<1>4. TypeOK'
  BY <1>1, <1>2, <1>3 DEF IInv, TypeOK
<1>5. \A y : VectorOf(y)' = VectorOf(y)
  BY DEF VectorOf
<1>6. RowBeforeJob' /\ VectorsHaveRows'
  BY <1>2 DEF IInv, Order, RowBeforeJob, VectorsHaveRows
<1>7. WorkerHoldsJob' /\ InsertedIsThere' /\ UpdatedIsThere' /\ RacesAreSeen'
  BY <1>1 DEF WorkerHoldsJob, InsertedIsThere, UpdatedIsThere, RacesAreSeen
<1>8. CompletedMeansSearchable'
  BY <1>5 DEF IInv, Order, CompletedMeansSearchable
<1>9. DeletesDoom' /\ OwnRefsMeanDone'
  BY <1>1 DEF IInv, Order, DeletesDoom, OwnRefsMeanDone, NamesOwn
<1>10. Order'
  BY <1>6, <1>7, <1>8, <1>9 DEF Order
<1>11. SpentRaces \subseteq SpentRaces'
  BY <1>1 DEF SpentRaces, Open, Indexing, NamesOwn
<1>12. Stranded' \subseteq Stranded \cup {VectorOf(work.src)}
  BY <1>1 DEF Stranded, Missed
<1>13. faults' >= faults /\ crashes' >= crashes /\ IsFiniteSet(vectors')
  BY <1>3 DEF IInv, TypeOK, Order, VectorsHaveRows
<1>14. StrandedIsCharged'
  BY <1>3, <1>4, <1>11, <1>12, <1>13, OneMore
<1>15. QED
  BY <1>4, <1>10, <1>14 DEF IInv

-----------------------------------------------------------------------------
LEMMA IdleStep == ASSUME IInv, UNCHANGED vars PROVE IInv'
<1> USE DEF vars, table, queue, history
<1>1. TypeOK'
  BY DEF IInv, TypeOK
<1>2. \A y : VectorOf(y)' = VectorOf(y)
  BY DEF VectorOf
<1>3. RowBeforeJob' /\ VectorsHaveRows' /\ WorkerHoldsJob' /\ DeletesDoom' /\ OwnRefsMeanDone'
  BY DEF IInv, Order, RowBeforeJob, VectorsHaveRows, WorkerHoldsJob, DeletesDoom,
         OwnRefsMeanDone, NamesOwn
<1>4. InsertedIsThere' /\ UpdatedIsThere' /\ CompletedMeansSearchable' /\ RacesAreSeen'
  BY <1>2 DEF IInv, Order, InsertedIsThere, UpdatedIsThere, CompletedMeansSearchable, Searchable,
              RacesAreSeen, BeingDeleted, Indexing
<1>5. Stranded' = Stranded /\ SpentRaces' = SpentRaces
  BY <1>2 DEF Stranded, Missed, SpentRaces, Open, Indexing, NamesOwn
<1>6. StrandedIsCharged'
  BY <1>5 DEF IInv, StrandedIsCharged
<1>7. QED
  BY <1>1, <1>3, <1>4, <1>6 DEF IInv, Order

LEMMA NextIInv == IInv /\ [Next]_vars => IInv'
<1> SUFFICES ASSUME IInv, [Next]_vars PROVE IInv'
  OBVIOUS
<1>1. CASE UNCHANGED vars
  BY <1>1, IdleStep
<1>2. CASE \/ \E d \in Doc : SaveContextDoc(d)
           \/ \E i \in Interaction : Chat(i) \/ SaveInteraction(i) \/ AdjustQuality(i)
           \/ \E s \in Source : EnqueueJob(s) \/ EnqueueFails(s)
  BY <1>2, RequestStep
<1>3. CASE WorkerStep
  <2>1. CASE \E s \in Source : ClaimNextJob(s)
    BY <2>1, ClaimStep
  <2>2. CASE LoadRow \/ Embed \/ EmbedFails \/ InsertFails \/ UpdateRefFails \/ FinishFails
    BY <2>2, WorkerMoveStep
  <2>3. CASE Insert
    BY <2>3, InsertStep
  <2>4. CASE UpdateRef
    BY <2>4, UpdateRefDone, UpdateRefGone
  <2>5. CASE CompleteJob \/ FailJob
    BY <2>5, FinishStep
  <2>6. QED
    BY <1>3, <2>1, <2>2, <2>3, <2>4, <2>5 DEF WorkerStep
<1>4. CASE \E h \in Deleter : DeleteStep(h)
  BY <1>4, BeginDeleteStep, DeleteVectorStep, DeleteRowStep, DeleteRowFailsStep DEF DeleteStep
<1>5. CASE CrashRestart
  BY <1>5, CrashStep
<1>6. QED
  BY <1>1, <1>2, <1>3, <1>4, <1>5 DEF Next

LEMMA Invariance == Spec => []IInv
BY InitIInv, NextIInv, PTL DEF Spec

-----------------------------------------------------------------------------
(* Every variable keeps its type; no job is attempted more than max_attempts *)
(* times.                                                                   *)
THEOREM TypeCorrect == Spec => []TypeOK
<1>1. IInv => TypeOK
  BY DEF IInv
<1>2. QED
  BY <1>1, Invariance, PTL

(* A job is marked completed only when its row names a vector that the      *)
(* store holds, and that stays so: only a deletion of the row, or of an     *)
(* interaction that used the vector, takes it away.                         *)
THEOREM CompletedIsSearchable == Spec => []CompletedMeansSearchable
<1>1. IInv => CompletedMeansSearchable
  BY DEF IInv, Order
<1>2. QED
  BY <1>1, Invariance, PTL

(* Each vector no row names is owed to a failed call, a crash, or a row     *)
(* that was deleted while it was indexed: however many retries, rows and    *)
(* deletions interleave, the rest leave nothing behind.                     *)
THEOREM OrphansAreCounted == Spec => []OrphansComeFromFaults
<1>1. ASSUME IInv PROVE OrphansComeFromFaults
  <2>1. TypeOK /\ IsFiniteSet(vectors) /\ StrandedIsCharged
    BY <1>1 DEF IInv, Order, VectorsHaveRows
  <2>2. Orphans \subseteq Stranded
    BY <1>1, WorkParts DEF Orphans, Stranded
  <2>3. IsFiniteSet(Orphans)
    BY <2>1, <2>2, FiniteParts, FS_Subset
  <2>4. Cardinality(Orphans) \in Nat /\ Cardinality(Orphans) <= Cardinality(Stranded)
    BY <2>1, <2>2, <2>3, FiniteParts, SubsetCounts, FS_CardinalityType
  <2>5. IsFiniteSet(raced) /\ SpentRaces \subseteq raced
    <3>1. raced \in SUBSET Source
      BY <2>1 DEF TypeOK
    <3>2. QED
      BY <3>1, Limits, FS_Subset DEF SpentRaces
  <2>6. Cardinality(raced) \in Nat /\ Cardinality(SpentRaces) <= Cardinality(raced)
    BY <2>5, SubsetCounts, FS_CardinalityType
  <2>7. QED
    BY <2>1, <2>4, <2>6, FiniteParts DEF StrandedIsCharged, OrphansComeFromFaults
<1>2. QED
  BY <1>1, Invariance, PTL
=============================================================================
