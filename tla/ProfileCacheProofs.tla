-------------------------- MODULE ProfileCacheProofs --------------------------
(***************************************************************************)
(* Theorems about ProfileCache, for any queries, requests, writers and     *)
(* number of writes.                                                       *)
(*                                                                         *)
(* The version counts the writes, each invalidation that is due (Pending)  *)
(* is paid for by at least one of them, and a request has captured its     *)
(* version before it loads the profile (GInv).  That nothing is left to    *)
(* announce follows a write to the end of its writer (AInv).  That no      *)
(* stale entry is served holds until the cache has drifted: before, the    *)
(* minimum and the version differ by exactly the invalidations that are    *)
(* due, and what is settled is at or below the minimum (FInv); and a delta *)
(* of one write never makes it drift (OneWriteNeverDrifts).                *)
(***************************************************************************)
EXTENDS ProfileCache, FiniteSetTheorems, TLAPS

VersionCountsWrites == version = stored

PendingIsCovered == minVersion + Cardinality(Pending) <= version

RequestsCaptureFirst ==
  \A r \in Request :
    /\ req[r].tag <= version
    /\ req[r].pc = "compose" => req[r].profile = NoProfile \/ req[r].tag <= req[r].profile

Applying == {"fields", "halfway"}

FieldsAreLeft == \A w \in Writer : wpc[w] \in Applying => left[w] > 0

GInv ==
  /\ TypeOK
  /\ CopyIsCurrent
  /\ VersionCountsWrites
  /\ PendingIsCovered
  /\ TagNeverOverstates
  /\ RequestsCaptureFirst
  /\ FieldsAreLeft

-----------------------------------------------------------------------------
(* Counting the invalidations that are due. *)

LEMMA PendingIsFinite == IsFiniteSet(Pending) /\ Cardinality(Pending) \in Nat
BY CacheAssumption, FS_Subset, FS_CardinalityType DEF Pending

LEMMA PendingStep ==
  ASSUME wpc \in [Writer -> WriterPC], NEW w \in Writer, NEW p \in WriterPC,
         wpc' = [wpc EXCEPT ![w] = p]
  PROVE  /\ IsFiniteSet(Pending') /\ Cardinality(Pending') \in Nat
         /\ Cardinality(Pending') =
             IF wpc[w] \notin Due /\ p \in Due THEN Cardinality(Pending) + 1
             ELSE IF wpc[w] \in Due /\ p \notin Due THEN Cardinality(Pending) - 1
             ELSE Cardinality(Pending)
<1>1. p \in Due => Pending' = Pending \cup {w}
  BY DEF Pending
<1>2. p \notin Due => Pending' = Pending \ {w}
  BY DEF Pending
<1>3. w \in Pending <=> wpc[w] \in Due
  BY DEF Pending
<1>4. /\ IsFiniteSet(Pending \cup {w}) /\ IsFiniteSet(Pending \ {w})
      /\ Cardinality(Pending \cup {w}) =
           IF w \in Pending THEN Cardinality(Pending) ELSE Cardinality(Pending) + 1
      /\ Cardinality(Pending \ {w}) =
           IF w \in Pending THEN Cardinality(Pending) - 1 ELSE Cardinality(Pending)
  BY PendingIsFinite, FS_AddElement, FS_RemoveElement
<1>5. IsFiniteSet(Pending')
  BY <1>1, <1>2, <1>4
<1>6. Cardinality(Pending') \in Nat
  BY <1>5, FS_CardinalityType
<1>7. QED
  BY <1>1, <1>2, <1>3, <1>4, <1>5, <1>6

(* A writer that is due keeps the count positive. *)
LEMMA DueCounts ==
  ASSUME NEW w \in Writer, wpc[w] \in Due
  PROVE  Cardinality(Pending) >= 1
<1>1. w \in Pending
  BY DEF Pending
<1>2. Cardinality(Pending) # 0
  BY <1>1, PendingIsFinite, FS_EmptySet
<1>3. QED
  BY <1>2, PendingIsFinite

-----------------------------------------------------------------------------
LEMMA InitGInv == Init => GInv
<1> SUFFICES ASSUME Init PROVE GInv
  OBVIOUS
<1> USE CacheAssumption
<1>1. IdleReq.query \in Query
  BY DEF IdleReq
<1>2. TypeOK
  BY <1>1 DEF Init, TypeOK, IdleReq, ReqState, ReqPC, WriterPC, Content, NoProfile, Entry
<1>3. CopyIsCurrent /\ VersionCountsWrites /\ TagNeverOverstates /\ FieldsAreLeft
  BY DEF Init, CopyIsCurrent, VersionCountsWrites, TagNeverOverstates, FieldsAreLeft, Applying
<1>4. RequestsCaptureFirst
  BY DEF Init, RequestsCaptureFirst, IdleReq
<1>5. PendingIsCovered
  <2>1. Pending = {}
    BY DEF Init, Pending, Due
  <2>2. QED
    BY <2>1, FS_EmptySet DEF Init, PendingIsCovered
<1>6. QED
  BY <1>2, <1>3, <1>4, <1>5 DEF GInv

(* Types survive a step that only adds to the content. *)
LEMMA GrowingTypes ==
  ASSUME TypeOK, NEW n \in Nat, stored' = stored + n,
         UNCHANGED <<exact, semantic, req>>
  PROVE  /\ stored' \in Nat
         /\ Content \subseteq Content'
         /\ exact' \subseteq Entry' /\ semantic' \subseteq Entry'
         /\ \A e, f \in exact' : e.query = f.query => e = f
         /\ req' \in [Request -> ReqState']
         /\ settled \in 0 .. stored' /\ announced \in 0 .. stored' /\ refused \in 0 .. stored'
<1>1. stored' \in Nat /\ Content \subseteq Content' /\ 0 .. stored \subseteq 0 .. stored'
  BY DEF TypeOK, Content
<1>2. Entry \subseteq Entry'
  BY <1>1 DEF Entry
<1>3. ReqState \subseteq ReqState'
  BY <1>1 DEF ReqState
<1>4. QED
  BY <1>1, <1>2, <1>3 DEF TypeOK

(* A writer commits n keys and goes on: what every write does to GInv. *)
LEMMA WriteStep ==
  ASSUME GInv, NEW w \in Writer, NEW n \in Nat, NEW p \in WriterPC, NEW k \in Nat,
         Commit(n), WriterTo(w, p, k),
         mu' \in Writer \cup {Free}, storeErrors' \in 0 .. MaxStoreErrors,
         UNCHANGED <<cache, req, announced>>, refused' \in {refused, stored'},
         wpc[w] \notin Due, p \in Due => n > 0, p \in Applying => k > 0
  PROVE  GInv'
<1> USE DEF GInv
<1>1. /\ stored' = stored + n /\ stored \in Nat /\ version' = version + n
      /\ wpc' = [wpc EXCEPT ![w] = p] /\ left' = [left EXCEPT ![w] = k]
      /\ UNCHANGED <<minVersion, exact, semantic, req, announced>>
  BY DEF Commit, WriterTo, TypeOK, cache
<1>2. settled' \in 0 .. stored' /\ refused' \in 0 .. stored'
  <2>1. settled' = stored' \/ settled' = settled
    BY DEF WriterTo
  <2>2. QED
    BY <1>1, <2>1, GrowingTypes
<1>3. cached' \in Content' /\ (cached' # NoProfile => cached' = stored')
  BY <1>1 DEF Commit, TypeOK, Content, CopyIsCurrent, NoProfile
<1>4. TypeOK'
  <2>1. version' \in Nat /\ minVersion' \in Nat
    BY <1>1 DEF TypeOK
  <2>2. wpc' \in [Writer -> WriterPC] /\ left' \in [Writer -> Nat]
    BY <1>1 DEF TypeOK
  <2>3. QED
    BY <1>1, <1>2, <1>3, <2>1, <2>2, GrowingTypes DEF TypeOK
<1>5. CopyIsCurrent'
  BY <1>3 DEF CopyIsCurrent
<1>6. VersionCountsWrites'
  BY <1>1 DEF VersionCountsWrites
<1>7. PendingIsCovered'
  <2>1. /\ Cardinality(Pending') \in Nat
        /\ Cardinality(Pending') =
             IF p \in Due THEN Cardinality(Pending) + 1 ELSE Cardinality(Pending)
    BY <1>1, PendingStep DEF TypeOK
  <2>2. version \in Nat /\ minVersion \in Nat
    BY DEF TypeOK
  <2>3. QED
    BY <1>1, <2>1, <2>2, PendingIsFinite DEF PendingIsCovered
<1>8. TagNeverOverstates'
  BY <1>1 DEF TagNeverOverstates
<1>9. RequestsCaptureFirst'
  <2>1. \A r \in Request : req[r].tag \in Nat
    BY DEF TypeOK, ReqState
  <2>2. QED
    BY <1>1, <2>1 DEF RequestsCaptureFirst, TypeOK
<1>10. FieldsAreLeft'
  BY <1>1 DEF FieldsAreLeft, Applying, TypeOK
<1>11. QED
  BY <1>4, <1>5, <1>6, <1>7, <1>8, <1>9, <1>10

(* A writer goes on without a write and without paying an invalidation. *)
LEMMA MoveStep ==
  ASSUME GInv, NEW w \in Writer, NEW p \in WriterPC, NEW k \in Nat,
         WriterTo(w, p, k),
         UNCHANGED <<manager, cache, req, storeErrors, announced, refused>>,
         wpc[w] \in Due <=> p \in Due, p \in Applying => k > 0
  PROVE  GInv'
<1> USE DEF GInv
<1>1. /\ wpc' = [wpc EXCEPT ![w] = p] /\ left' = [left EXCEPT ![w] = k]
      /\ UNCHANGED <<stored, version, cached, mu, minVersion, exact, semantic, req,
                     storeErrors, announced, refused>>
  BY DEF WriterTo, manager, cache
<1>2. settled' \in 0 .. stored'
  BY <1>1 DEF WriterTo, TypeOK
<1>3. TypeOK'
  <2>1. wpc' \in [Writer -> WriterPC] /\ left' \in [Writer -> Nat]
    BY <1>1 DEF TypeOK
  <2>2. Entry' = Entry /\ ReqState' = ReqState /\ Content' = Content
    BY <1>1 DEF Entry, ReqState, Content
  <2>3. QED
    BY <1>1, <1>2, <2>1, <2>2 DEF TypeOK
<1>4. PendingIsCovered'
  <2>1. Cardinality(Pending') = Cardinality(Pending)
    BY <1>1, PendingStep DEF TypeOK
  <2>2. QED
    BY <1>1, <2>1 DEF PendingIsCovered
<1>5. CopyIsCurrent' /\ VersionCountsWrites' /\ TagNeverOverstates'
  BY <1>1 DEF CopyIsCurrent, VersionCountsWrites, TagNeverOverstates
<1>6. RequestsCaptureFirst'
  BY <1>1 DEF RequestsCaptureFirst
<1>7. FieldsAreLeft'
  BY <1>1 DEF FieldsAreLeft, Applying, TypeOK
<1>8. QED
  BY <1>3, <1>4, <1>5, <1>6, <1>7

LEMMA InvalidateStep ==
  ASSUME GInv, NEW w \in Writer, Invalidate(w)
  PROVE  GInv'
<1> USE DEF GInv
<1>1. /\ wpc' = [wpc EXCEPT ![w] = "idle"] /\ left' = [left EXCEPT ![w] = 0]
      /\ exact' = {} /\ semantic' = {} /\ minVersion' = minVersion + 1
      /\ announced' = stored
      /\ UNCHANGED <<stored, version, cached, req, storeErrors, refused>>
      /\ wpc[w] \in Due
  BY DEF Invalidate, WriterTo, Due
<1>2. settled' \in 0 .. stored' /\ mu' \in Writer \cup {Free}
  BY <1>1 DEF WriterTo, Invalidate, TypeOK
<1>3. TypeOK'
  <2>1. wpc' \in [Writer -> WriterPC] /\ left' \in [Writer -> Nat]
    BY <1>1 DEF TypeOK, WriterPC
  <2>2. ReqState' = ReqState /\ Content' = Content
    BY <1>1 DEF ReqState, Content
  <2>3. minVersion' \in Nat /\ announced' \in 0 .. stored'
    BY <1>1 DEF TypeOK
  <2>4. QED
    BY <1>1, <1>2, <2>1, <2>2, <2>3 DEF TypeOK
<1>4. PendingIsCovered'
  <2>1. Cardinality(Pending') = Cardinality(Pending) - 1
    BY <1>1, PendingStep DEF TypeOK, Due, WriterPC
  <2>2. version \in Nat /\ minVersion \in Nat
    BY DEF TypeOK
  <2>3. QED
    BY <1>1, <2>1, <2>2, PendingIsFinite DEF PendingIsCovered
<1>5. CopyIsCurrent' /\ VersionCountsWrites' /\ TagNeverOverstates'
  BY <1>1 DEF CopyIsCurrent, VersionCountsWrites, TagNeverOverstates
<1>6. RequestsCaptureFirst'
  BY <1>1 DEF RequestsCaptureFirst
<1>7. FieldsAreLeft'
  BY <1>1 DEF FieldsAreLeft, Applying, TypeOK
<1>8. QED
  BY <1>3, <1>4, <1>5, <1>6, <1>7

LEMMA WriterStepKeepsGInv ==
  ASSUME GInv, NEW w \in Writer, WriterStep(w)
  PROVE  GInv'
<1> USE CacheAssumption
<1>0. mu \in Writer \cup {Free} /\ storeErrors \in 0 .. MaxStoreErrors
  BY DEF GInv, TypeOK
<1>1. CASE SetField(w) \/ DeleteField(w)
  <2>1. LockedWrite(w)
    BY <1>1 DEF SetField, DeleteField
  <2>2. QED
    BY <1>0, <2>1, WriteStep DEF LockedWrite, WriterPC, Due, Applying
<1>2. ASSUME NEW d \in Delta, ApplyPreferences(w, d) PROVE GInv'
  <2>1. d.fields \in Nat
    OBVIOUS
  <2>2. CASE d.fields > 0
    BY <1>0, <1>2, <2>1, <2>2, WriteStep DEF ApplyPreferences, WriterPC, Due, Applying
  <2>3. CASE ~(d.fields > 0)
    BY <1>0, <1>2, <2>1, <2>3, WriteStep DEF ApplyPreferences, WriterPC, Due, Applying
  <2>4. QED
    BY <2>2, <2>3
<1>3. ASSUME NEW d \in Delta, SkipPreferences(w, d) PROVE GInv'
  <2>1. d.fields \in Nat
    OBVIOUS
  <2>2. QED
    BY <1>3, <2>1, MoveStep DEF SkipPreferences, WriterPC, Due, Applying
<1>4. CASE ApplyFields(w)
  <2>1. left[w] \in Nat /\ left[w] > 0
    BY <1>4 DEF ApplyFields, GInv, TypeOK, FieldsAreLeft, Applying
  <2>2. QED
    BY <1>0, <1>4, <2>1, WriteStep DEF ApplyFields, WriterPC, Due, Applying
<1>5. CASE ApplyFieldsFails(w)
  <2>1. PICK n \in 0 .. left[w] - 1 : Commit(n) /\ refused' \in {refused, stored'}
    BY <1>5 DEF ApplyFieldsFails
  <2>2. n \in Nat /\ storeErrors' \in 0 .. MaxStoreErrors /\ mu' = mu
    BY <1>0, <1>5 DEF ApplyFieldsFails
  <2>3. QED
    BY <1>0, <1>5, <2>1, <2>2, WriteStep DEF ApplyFieldsFails, WriterPC, Due, Applying
<1>6. CASE ReadCallback(w)
  BY <1>6, MoveStep DEF ReadCallback, WriterPC, Due, Applying
<1>7. CASE Invalidate(w)
  BY <1>7, InvalidateStep
<1>8. QED
  BY <1>1, <1>2, <1>3, <1>4, <1>5, <1>6, <1>7 DEF WriterStep

-----------------------------------------------------------------------------
(* Requests.  What a step of a request may put into req and the caches. *)

HonestReq(q) ==
  /\ q \in ReqState
  /\ q.tag <= version
  /\ q.pc = "compose" => q.profile = NoProfile \/ q.tag <= q.profile

FreshReq(q) ==
  /\ q.floor <= settled
  /\ q.pc = "hit" /\ q.profile # NoProfile => q.profile >= q.floor

HonestEntries(S) ==
  /\ S \subseteq Entry
  /\ \A e \in S : e.profile # NoProfile => e.tag <= e.profile

OnePerQuery(S) == \A e, f \in S : e.query = f.query => e = f

(* A request moves to q, and the caches hold what they held or honest entries. *)
Reader(r, q) ==
  /\ HonestReq(q)
  /\ req' = [req EXCEPT ![r] = q]
  /\ HonestEntries(exact') /\ OnePerQuery(exact') /\ HonestEntries(semantic')
  /\ cached' \in {cached, NoProfile, stored}
  /\ storeErrors' \in 0 .. MaxStoreErrors
  /\ RestUnchanged

LEMMA ReaderStep ==
  ASSUME GInv, NEW r \in Request, NEW q, Reader(r, q)
  PROVE  GInv'
<1> USE DEF GInv, Reader
<1>1. /\ UNCHANGED <<stored, version, mu, wpc, left, minVersion, settled, announced, refused>>
      /\ Entry' = Entry /\ ReqState' = ReqState /\ Content' = Content
  BY DEF RestUnchanged, writers, history, Entry, ReqState, Content
<1>2. cached' \in Content /\ (cached' # NoProfile => cached' = stored)
  BY DEF TypeOK, Content, NoProfile, CopyIsCurrent
<1>3. TypeOK'
  <2>1. req' \in [Request -> ReqState]
    BY DEF HonestReq, TypeOK
  <2>2. exact' \subseteq Entry /\ semantic' \subseteq Entry
    BY DEF HonestEntries
  <2>3. \A e, f \in exact' : e.query = f.query => e = f
    BY DEF OnePerQuery
  <2>4. QED
    BY <1>1, <1>2, <2>1, <2>2, <2>3 DEF TypeOK
<1>4. CopyIsCurrent'
  BY <1>1, <1>2 DEF CopyIsCurrent
<1>5. VersionCountsWrites' /\ FieldsAreLeft'
  BY <1>1 DEF VersionCountsWrites, FieldsAreLeft
<1>6. PendingIsCovered'
  <2>1. Pending' = Pending
    BY <1>1 DEF Pending
  <2>2. QED
    BY <1>1, <2>1 DEF PendingIsCovered
<1>7. TagNeverOverstates'
  BY DEF TagNeverOverstates, HonestEntries
<1>8. RequestsCaptureFirst'
  BY <1>1 DEF RequestsCaptureFirst, HonestReq, TypeOK
<1>9. QED
  BY <1>3, <1>4, <1>5, <1>6, <1>7, <1>8

LEMMA CachesAreHonest ==
  ASSUME GInv
  PROVE  /\ HonestEntries(exact) /\ OnePerQuery(exact) /\ HonestEntries(semantic)
         /\ \A r \in Request : HonestReq(req[r])
         /\ storeErrors \in 0 .. MaxStoreErrors
BY DEF GInv, TypeOK, TagNeverOverstates, RequestsCaptureFirst,
       HonestEntries, OnePerQuery, HonestReq

(* What every request that comes in starts with. *)
Asked(q) == [IdleReq EXCEPT !.pc = "embed", !.query = q, !.floor = settled]

LEMMA AskedIsHonest ==
  ASSUME GInv
  PROVE  /\ HonestReq(IdleReq) /\ IdleReq.pc = "idle" /\ IdleReq.floor = 0
         /\ \A q \in Query : /\ HonestReq(Asked(q)) /\ Asked(q).pc = "embed"
                              /\ Asked(q).floor = settled
<1>1. IdleReq.query \in Query
  BY CacheAssumption DEF IdleReq
<1>2. stored \in Nat /\ version \in Nat /\ settled \in 0 .. stored
  BY DEF GInv, TypeOK
<1>3. IdleReq \in ReqState
  BY <1>1, <1>2 DEF IdleReq, ReqState, ReqPC, Content, NoProfile
<1>4. ASSUME NEW q \in Query PROVE Asked(q) \in ReqState
  BY <1>2, <1>3, <1>4 DEF Asked, ReqState, ReqPC, Content
<1>5. ASSUME NEW q \in Query
      PROVE  Asked(q).pc = "embed" /\ Asked(q).floor = settled /\ Asked(q).tag = 0
  BY DEF Asked, IdleReq
<1>6. IdleReq.pc = "idle" /\ IdleReq.floor = 0 /\ IdleReq.tag = 0
  BY DEF IdleReq
<1>7. QED
  BY <1>2, <1>3, <1>4, <1>5, <1>6 DEF HonestReq

LEMMA HitIsHonest ==
  ASSUME GInv, NEW q, HonestReq(q), NEW e \in exact \cup semantic
  PROVE  HonestReq(Hit(q, e)) /\ Hit(q, e).floor = q.floor /\ Hit(q, e).pc = "hit"
         /\ Hit(q, e).profile = e.profile
<1>1. e \in Entry
  BY DEF GInv, TypeOK
<1>2. QED
  BY <1>1 DEF HonestReq, Hit, ReqState, Entry, ReqPC

(* A request that moves on stays a request. *)
LEMMA MovedReq ==
  ASSUME NEW q \in ReqState, NEW s \in ReqPC, NEW t \in Nat, NEW c \in Content
  PROVE  /\ [q EXCEPT !.pc = s, !.tag = t] \in ReqState
         /\ [q EXCEPT !.pc = s, !.profile = c] \in ReqState
<1>1. [q EXCEPT !.pc = s] \in ReqState
  BY DEF ReqState
<1>2. ASSUME NEW p \in ReqState
      PROVE  [p EXCEPT !.tag = t] \in ReqState /\ [p EXCEPT !.profile = c] \in ReqState
  BY <1>2 DEF ReqState
<1>3. QED
  BY <1>1, <1>2

(* Every step of a request is a Reader step, and the record it moves to is   *)
(* a hit only for an entry at or above the minimum.                          *)
LEMMA RequestShape ==
  ASSUME GInv, NEW r \in Request, RequestStep(r)
  PROVE  \E q : /\ Reader(r, q)
                /\ q.floor \in {0, settled, req[r].floor}
                /\ q.pc = "hit" =>
                     \E e \in exact \cup semantic : e.tag >= minVersion /\ q.profile = e.profile
<1> USE CachesAreHonest, AskedIsHonest
<1>0. HonestReq(req[r])
  OBVIOUS
<1>1. ASSUME NEW q \in Query, GetExact(r, q)
      PROVE  \E p : /\ Reader(r, p)
                    /\ p.floor \in {0, settled, req[r].floor}
                    /\ p.pc = "hit" =>
                         \E e \in exact \cup semantic :
                            e.tag >= minVersion /\ p.profile = e.profile
  <2>1. CASE req' = [req EXCEPT ![r] = Asked(q)]
    <3>1. Reader(r, Asked(q))
      BY <1>1, <2>1 DEF GetExact, Reader
    <3>2. QED
      BY <3>1
  <2>2. CASE \E e \in exact : e.tag >= minVersion /\ req' = [req EXCEPT ![r] = Hit(Asked(q), e)]
    <3>1. PICK e \in exact : e.tag >= minVersion /\ req' = [req EXCEPT ![r] = Hit(Asked(q), e)]
      BY <2>2
    <3>2. Reader(r, Hit(Asked(q), e))
      BY <1>1, <3>1, HitIsHonest DEF GetExact, Reader
    <3>3. QED
      BY <3>1, <3>2, HitIsHonest
  <2>3. QED
    BY <1>1, <2>1, <2>2 DEF GetExact, Asked
<1>2. CASE GetSemantic(r)
  <2>1. CASE req' = [req EXCEPT ![r].pc = "capture", ![r].embedded = TRUE]
    <3> DEFINE p == [req[r] EXCEPT !.pc = "capture", !.embedded = TRUE]
    <3>1. HonestReq(p) /\ p.floor = req[r].floor /\ p.pc = "capture"
      BY <1>0 DEF HonestReq, ReqState, ReqPC
    <3>2. req' = [req EXCEPT ![r] = p]
      BY <2>1 DEF GInv, TypeOK
    <3>3. Reader(r, p)
      BY <1>2, <3>1, <3>2 DEF GetSemantic, Reader
    <3>4. QED
      BY <3>1, <3>3
  <2>2. CASE \E e \in semantic : e.tag >= minVersion /\ req' = [req EXCEPT ![r] = Hit(req[r], e)]
    <3>1. PICK e \in semantic : e.tag >= minVersion /\ req' = [req EXCEPT ![r] = Hit(req[r], e)]
      BY <2>2
    <3>2. Reader(r, Hit(req[r], e))
      BY <1>0, <1>2, <3>1, HitIsHonest DEF GetSemantic, Reader
    <3>3. QED
      BY <1>0, <3>1, <3>2, HitIsHonest
  <2>3. QED
    BY <1>2, <2>1, <2>2 DEF GetSemantic, SemanticMatches
<1>3. CASE EmbedFails(r)
  <2> DEFINE p == [req[r] EXCEPT !.pc = "capture"]
  <2>1. HonestReq(p) /\ p.floor = req[r].floor /\ p.pc = "capture"
    BY <1>0 DEF HonestReq, ReqState, ReqPC
  <2>2. req' = [req EXCEPT ![r] = p]
    BY <1>3 DEF EmbedFails, GInv, TypeOK
  <2>3. Reader(r, p)
    BY <1>3, <2>1, <2>2 DEF EmbedFails, Reader
  <2>4. QED
    BY <2>1, <2>3
<1>4. CASE CaptureVersion(r)
  <2> DEFINE p == [req[r] EXCEPT !.pc = "profile", !.tag = version]
  <2>1. version \in Nat
    BY DEF GInv, TypeOK
  <2>2. HonestReq(p) /\ p.floor = req[r].floor /\ p.pc = "profile"
    <3>1. req[r] \in ReqState /\ "profile" \in ReqPC /\ -1 \in Content
      BY <1>0 DEF HonestReq, ReqPC, Content, GInv, TypeOK
    <3>2. p \in ReqState
      BY <2>1, <3>1, MovedReq
    <3>3. p.tag = version /\ p.floor = req[r].floor /\ p.pc = "profile"
      BY <3>1 DEF ReqState
    <3>4. QED
      BY <2>1, <3>2, <3>3 DEF HonestReq
  <2>3. req' = [req EXCEPT ![r] = p]
    BY <1>4 DEF CaptureVersion, GInv, TypeOK
  <2>4. Reader(r, p)
    BY <1>4, <2>2, <2>3 DEF CaptureVersion, Reader
  <2>5. QED
    BY <2>2, <2>4
<1>5. CASE LoadProfile(r)
  <2> DEFINE c == IF cached # NoProfile THEN cached ELSE stored
             p == [req[r] EXCEPT !.pc = "compose", !.profile = c]
  <2>1. c = stored /\ stored \in Nat /\ version = stored
    BY DEF GInv, TypeOK, CopyIsCurrent, VersionCountsWrites
  <2>2. HonestReq(p) /\ p.floor = req[r].floor /\ p.pc = "compose"
    <3>1. p \in ReqState
      <4>1. c \in Content /\ "compose" \in ReqPC /\ req[r] \in ReqState
        BY <1>0, <2>1 DEF HonestReq, ReqPC, Content
      <4>2. QED
        BY <4>1, MovedReq
    <3>2. p.tag = req[r].tag /\ p.profile = stored /\ p.floor = req[r].floor /\ p.pc = "compose"
      BY <1>0, <2>1 DEF HonestReq, ReqState
    <3>3. QED
      BY <1>0, <2>1, <3>1, <3>2 DEF HonestReq
  <2>3. req' = [req EXCEPT ![r] = p]
    BY <1>5 DEF LoadProfile, GInv, TypeOK
  <2>4. cached' = stored
    BY <1>5, <2>1 DEF LoadProfile
  <2>5. Reader(r, p)
    BY <1>5, <2>2, <2>3, <2>4 DEF LoadProfile, Reader
  <2>6. QED
    BY <2>2, <2>5
<1>6. CASE LoadProfileFails(r)
  <2> DEFINE p == [req[r] EXCEPT !.pc = "compose", !.profile = NoProfile]
  <2>1. HonestReq(p) /\ p.floor = req[r].floor /\ p.pc = "compose"
    <3>1. NoProfile \in Content /\ "compose" \in ReqPC /\ req[r] \in ReqState
      BY <1>0 DEF HonestReq, ReqPC, Content, NoProfile, GInv, TypeOK
    <3>2. p \in ReqState
      BY <3>1, MovedReq
    <3>3. /\ p.tag = req[r].tag /\ p.profile = NoProfile
          /\ p.floor = req[r].floor /\ p.pc = "compose"
      BY <3>1 DEF ReqState
    <3>4. QED
      BY <1>0, <3>2, <3>3 DEF HonestReq
  <2>2. req' = [req EXCEPT ![r] = p]
    BY <1>6 DEF LoadProfileFails, GInv, TypeOK
  <2>3. storeErrors' \in 0 .. MaxStoreErrors
    BY <1>6, CacheAssumption DEF LoadProfileFails
  <2>4. Reader(r, p)
    BY <1>6, <2>1, <2>2, <2>3 DEF LoadProfileFails, Reader
  <2>5. QED
    BY <2>1, <2>4
<1>7. CASE Set(r)
  <2> DEFINE e == NewEntry(req[r])
  <2>1. e \in Entry /\ (e.profile # NoProfile => e.tag <= e.profile)
    BY <1>0, <1>7 DEF HonestReq, ReqState, NewEntry, Entry, Set
  <2>2. HonestEntries(PutExact(e)) /\ OnePerQuery(PutExact(e))
    BY <2>1 DEF HonestEntries, OnePerQuery, PutExact
  <2>3. HonestEntries(semantic \cup {e})
    BY <2>1 DEF HonestEntries
  <2>4. Reader(r, IdleReq)
    BY <1>7, <2>2, <2>3 DEF Set, Reader
  <2>5. QED
    BY <2>4
<1>8. CASE Return(r)
  <2>1. Reader(r, IdleReq)
    BY <1>8 DEF Return, Reader
  <2>2. QED
    BY <2>1
<1>9. CASE GetProfile(r)
  <2>1. CASE cached = NoProfile /\ req' = [req EXCEPT ![r].pc = "load"]
    <3> DEFINE p == [req[r] EXCEPT !.pc = "load"]
    <3>1. HonestReq(p) /\ p.floor = req[r].floor /\ p.pc = "load"
      BY <1>0 DEF HonestReq, ReqState, ReqPC
    <3>2. req' = [req EXCEPT ![r] = p]
      BY <2>1 DEF GInv, TypeOK
    <3>3. Reader(r, p)
      BY <1>9, <3>1, <3>2 DEF GetProfile, Reader
    <3>4. QED
      BY <3>1, <3>3
  <2>2. CASE /\ cached # NoProfile
             /\ req' = [req EXCEPT ![r].pc = "compose", ![r].profile = cached]
    <3> DEFINE p == [req[r] EXCEPT !.pc = "compose", !.profile = cached]
    <3>1. cached = stored /\ stored \in Nat /\ version = stored
      BY <2>2 DEF GInv, TypeOK, CopyIsCurrent, VersionCountsWrites
    <3>2. HonestReq(p) /\ p.floor = req[r].floor /\ p.pc = "compose"
      <4>1. p \in ReqState
        <5>1. cached \in Content /\ "compose" \in ReqPC /\ req[r] \in ReqState
          BY <1>0, <3>1 DEF HonestReq, ReqPC, Content
        <5>2. QED
          BY <5>1, MovedReq
      <4>2. p.tag = req[r].tag /\ p.profile = stored /\ p.floor = req[r].floor /\ p.pc = "compose"
        BY <1>0, <3>1 DEF HonestReq, ReqState
      <4>3. QED
        BY <1>0, <3>1, <4>1, <4>2 DEF HonestReq
    <3>3. req' = [req EXCEPT ![r] = p]
      BY <2>2 DEF GInv, TypeOK
    <3>4. Reader(r, p)
      BY <1>9, <3>2, <3>3 DEF GetProfile, Reader
    <3>5. QED
      BY <3>2, <3>4
  <2>3. QED
    BY <1>9, <2>1, <2>2 DEF GetProfile
<1>10. QED
  BY <1>1, <1>2, <1>3, <1>4, <1>5, <1>6, <1>7, <1>8, <1>9 DEF RequestStep

(* Entries and the copy may go at any time. *)
LEMMA ExpiryKeepsGInv ==
  ASSUME GInv, (\E e \in exact \cup semantic : DropEntry(e)) \/ CopyExpires
  PROVE  GInv'
<1> USE CachesAreHonest DEF GInv
<1>1. /\ UNCHANGED <<stored, version, mu, wpc, left, minVersion, req, settled, announced,
                     refused, storeErrors>>
      /\ exact' \subseteq exact /\ semantic' \subseteq semantic
      /\ cached' \in {cached, NoProfile}
  BY DEF DropEntry, CopyExpires, RestUnchanged, writers, history
<1>2. Entry' = Entry /\ ReqState' = ReqState /\ Content' = Content /\ Pending' = Pending
  BY <1>1 DEF Entry, ReqState, Content, Pending
<1>3. cached' \in Content /\ CopyIsCurrent'
  BY <1>1 DEF TypeOK, Content, NoProfile, CopyIsCurrent
<1>4. TypeOK'
  BY <1>1, <1>2, <1>3 DEF TypeOK
<1>5. VersionCountsWrites' /\ TagNeverOverstates' /\ FieldsAreLeft'
  BY <1>1 DEF VersionCountsWrites, TagNeverOverstates, FieldsAreLeft
<1>6. PendingIsCovered' /\ RequestsCaptureFirst'
  BY <1>1, <1>2 DEF PendingIsCovered, RequestsCaptureFirst
<1>7. QED
  BY <1>3, <1>4, <1>5, <1>6

LEMMA StutterKeepsGInv == GInv /\ UNCHANGED vars => GInv'
<1> SUFFICES ASSUME GInv, UNCHANGED vars PROVE GInv'
  OBVIOUS
<1> USE DEF GInv
<1>1. UNCHANGED <<stored, version, cached, mu, wpc, left, minVersion, exact, semantic,
                  req, storeErrors, settled, announced, refused>>
  BY DEF vars, manager, writers, cache, history
<1>2. Entry' = Entry /\ ReqState' = ReqState /\ Content' = Content /\ Pending' = Pending
  BY <1>1 DEF Entry, ReqState, Content, Pending
<1>3. TypeOK'
  BY <1>1, <1>2 DEF TypeOK
<1>4. CopyIsCurrent' /\ VersionCountsWrites' /\ TagNeverOverstates' /\ FieldsAreLeft'
  BY <1>1 DEF CopyIsCurrent, VersionCountsWrites, TagNeverOverstates, FieldsAreLeft
<1>5. PendingIsCovered' /\ RequestsCaptureFirst'
  BY <1>1, <1>2 DEF PendingIsCovered, RequestsCaptureFirst
<1>6. QED
  BY <1>3, <1>4, <1>5

(* GInv holds in every reachable state. *)
THEOREM Invariance == Spec => []GInv
<1>1. Init => GInv
  BY InitGInv
<1>2. GInv /\ [Next]_vars => GInv'
  <2> SUFFICES ASSUME GInv, [Next]_vars PROVE GInv'
    OBVIOUS
  <2>1. CASE \E w \in Writer : WriterStep(w)
    BY <2>1, WriterStepKeepsGInv
  <2>2. CASE \E r \in Request : RequestStep(r)
    BY <2>2, RequestShape, ReaderStep
  <2>3. CASE (\E e \in exact \cup semantic : DropEntry(e)) \/ CopyExpires
    BY <2>3, ExpiryKeepsGInv
  <2>4. CASE UNCHANGED vars
    BY <2>4, StutterKeepsGInv
  <2>5. QED
    BY <2>1, <2>2, <2>3, <2>4 DEF Next
<1>3. QED
  BY <1>1, <1>2, PTL DEF Spec

(* Every variable keeps its type; the first-level cache has one entry per    *)
(* query (query.go keeps it in a map by normalized query).                   *)
THEOREM TypeCorrect == Spec => []TypeOK
<1>1. GInv => TypeOK
  BY DEF GInv
<1>2. QED
  BY <1>1, Invariance, PTL

(* Manager: the copy in memory is the stored profile, whatever the writers   *)
(* do between a reader's two looks at it.                                    *)
THEOREM CopyStaysCurrent == Spec => []CopyIsCurrent
<1>1. GInv => CopyIsCurrent
  BY DEF GInv
<1>2. QED
  BY <1>1, Invariance, PTL

(* Enrich: no cache entry carries a version newer than its profile.          *)
THEOREM TagsAreHonest == Spec => []TagNeverOverstates
<1>1. GInv => TagNeverOverstates
  BY DEF GInv
<1>2. QED
  BY <1>1, Invariance, PTL

(* Invalidate: the minimum stays at or below the version, so the cache can   *)
(* always be filled again.                                                   *)
THEOREM MinimumStaysReachable == Spec => []MinimumIsReachable
<1>1. GInv => MinimumIsReachable
  BY PendingIsFinite DEF GInv, TypeOK, PendingIsCovered, MinimumIsReachable
<1>2. QED
  BY <1>1, Invariance, PTL

-----------------------------------------------------------------------------
(* The last key written is announced, or its writer is still at work on     *)
(* what it owes, or was refused half way.                                   *)
Owing == Due \cup {"halfway"}

AInv == (\A w \in Writer : wpc[w] \notin Owing) => stored \in {announced, refused}

LEMMA WriterStepKeepsAInv ==
  ASSUME GInv, AInv, NEW w \in Writer, WriterStep(w)
  PROVE  AInv'
<1> USE DEF AInv, WriterTo
<1>1. /\ wpc \in [Writer -> WriterPC] /\ stored \in Nat
      /\ \A v \in Writer : wpc[v] \in Applying => left[v] \in Nat /\ left[v] > 0
  BY DEF GInv, TypeOK, FieldsAreLeft
<1>2. ASSUME NEW p \in Owing, wpc' = [wpc EXCEPT ![w] = p] PROVE AInv'
  BY <1>1, <1>2
<1>3. CASE SetField(w) \/ DeleteField(w)
  BY <1>2, <1>3 DEF SetField, DeleteField, LockedWrite, Owing, Due
<1>4. ASSUME NEW d \in Delta, ApplyPreferences(w, d) PROVE AInv'
  BY <1>2, <1>4 DEF ApplyPreferences, Owing, Due
<1>5. ASSUME NEW d \in Delta, SkipPreferences(w, d) PROVE AInv'
  <2>1. /\ wpc[w] = "idle" /\ wpc' = [wpc EXCEPT ![w] = "fields"]
        /\ UNCHANGED <<stored, announced, refused>>
    BY <1>5 DEF SkipPreferences, manager
  <2>2. \A v \in Writer : wpc'[v] \in Owing <=> wpc[v] \in Owing
    BY <1>1, <2>1 DEF Owing, Due
  <2>3. QED
    BY <2>1, <2>2
<1>6. CASE ApplyFields(w)
  BY <1>2, <1>6 DEF ApplyFields, Owing, Due
<1>7. CASE ApplyFieldsFails(w)
  <2>1. PICK n \in 0 .. left[w] - 1 :
          /\ Commit(n)
          /\ refused' = IF n > 0 \/ wpc[w] = "halfway" THEN stored' ELSE refused
    BY <1>7 DEF ApplyFieldsFails
  <2>2. /\ wpc' = [wpc EXCEPT ![w] = "idle"] /\ announced' = announced
        /\ wpc[w] \in {"fields", "halfway"}
    BY <1>7 DEF ApplyFieldsFails
  <2>3. CASE n > 0 \/ wpc[w] = "halfway"
    BY <2>1, <2>3
  <2>4. CASE ~(n > 0 \/ wpc[w] = "halfway")
    <3>1. stored' = stored /\ refused' = refused
      BY <1>1, <2>1, <2>4 DEF Commit, Applying
    <3>2. \A v \in Writer : wpc'[v] \in Owing <=> wpc[v] \in Owing
      BY <1>1, <2>2, <2>4 DEF Owing, Due
    <3>3. QED
      BY <2>2, <3>1, <3>2
  <2>5. QED
    BY <2>3, <2>4
<1>8. CASE ReadCallback(w)
  BY <1>2, <1>8 DEF ReadCallback, Owing, Due
<1>9. CASE Invalidate(w)
  BY <1>9 DEF Invalidate
<1>10. QED
  BY <1>3, <1>4, <1>5, <1>6, <1>7, <1>8, <1>9 DEF WriterStep

(* Manager: with any deltas, when no writer is at work, the last key written *)
(* has been announced to the cache, or was written by a delta that the store *)
(* refused half way.                                                         *)
THEOREM ChangesAreAnnounced == Spec => []EveryChangeAnnounced
<1>1. Init => AInv
  BY DEF Init, AInv
<1>2. GInv /\ AInv /\ [Next]_vars => AInv'
  <2> SUFFICES ASSUME GInv, AInv, [Next]_vars PROVE AInv'
    OBVIOUS
  <2>1. CASE \E w \in Writer : WriterStep(w)
    BY <2>1, WriterStepKeepsAInv
  <2>2. CASE UNCHANGED <<stored, wpc, announced, refused>>
    BY <2>2 DEF AInv
  <2>3. CASE \E r \in Request : RequestStep(r)
    BY <2>2, <2>3, RequestShape DEF Reader, RestUnchanged, writers, history
  <2>4. CASE (\E e \in exact \cup semantic : DropEntry(e)) \/ CopyExpires \/ UNCHANGED vars
    BY <2>2, <2>4 DEF DropEntry, CopyExpires, RestUnchanged, vars, manager, writers, history
  <2>5. QED
    BY <2>1, <2>3, <2>4 DEF Next
<1>3. AInv => EveryChangeAnnounced
  BY DEF AInv, EveryChangeAnnounced, Quiet, Owing, Due
<1>4. QED
  BY <1>1, <1>2, <1>3, Invariance, PTL DEF Spec

-----------------------------------------------------------------------------
(* Until the cache drifts, what is settled is at or below the minimum, and  *)
(* so is the floor of every request.                                        *)
SettledIsBelow == settled <= minVersion

FloorsAreSettled == \A r \in Request : req[r].floor <= settled

Fresh == SettledIsBelow /\ FloorsAreSettled /\ NoStaleHit

FInv == Drifted \/ Fresh

LEMMA InitFresh == Init => Fresh /\ ~Drifted
<1> SUFFICES ASSUME Init PROVE Fresh /\ ~Drifted
  OBVIOUS
<1>1. Pending = {}
  BY DEF Init, Pending, Due
<1>2. ~Drifted
  BY <1>1, FS_EmptySet DEF Init, Drifted
<1>3. SettledIsBelow
  BY DEF Init, SettledIsBelow
<1>4. FloorsAreSettled /\ NoStaleHit
  BY DEF Init, FloorsAreSettled, NoStaleHit, IdleReq
<1>5. QED
  BY <1>2, <1>3, <1>4 DEF Fresh

(* What settles is exactly what the minimum has reached. *)
LEMMA SettledStep ==
  ASSUME GInv, Fresh, NEW w \in Writer, NEW p, NEW k, WriterTo(w, p, k),
         GInv', ~Drifted', stored <= stored', minVersion <= minVersion',
         UNCHANGED req
  PROVE  Fresh'
<1>1. /\ settled \in Nat /\ stored \in Nat /\ stored' \in Nat /\ settled <= stored
      /\ minVersion \in Nat /\ minVersion' \in Nat /\ version' = stored'
  BY DEF GInv, TypeOK, VersionCountsWrites
<1>2. ASSUME \A v \in Writer : wpc'[v] = "idle" PROVE SettledIsBelow'
  <2>1. settled' = stored'
    BY <1>2 DEF WriterTo
  <2>2. Pending' = {}
    BY <1>2 DEF Pending, Due
  <2>3. minVersion' = version'
    BY <1>1, <2>2, FS_EmptySet DEF Drifted
  <2>4. QED
    BY <1>1, <2>1, <2>3 DEF SettledIsBelow
<1>3. ASSUME ~\A v \in Writer : wpc'[v] = "idle" PROVE SettledIsBelow'
  <2>1. settled' = settled
    BY <1>3 DEF WriterTo
  <2>2. QED
    BY <1>1, <2>1 DEF Fresh, SettledIsBelow
<1>4. settled <= settled' /\ SettledIsBelow'
  <2>1. settled <= settled'
    BY <1>1 DEF WriterTo
  <2>2. QED
    BY <1>2, <1>3, <2>1
<1>5. FloorsAreSettled'
  <2>1. \A r \in Request : req[r].floor \in Nat
    BY DEF GInv, TypeOK, ReqState
  <2>2. settled' \in Nat
    BY DEF GInv, TypeOK
  <2>3. QED
    BY <1>1, <1>4, <2>1, <2>2 DEF Fresh, FloorsAreSettled
<1>6. NoStaleHit'
  BY DEF Fresh, NoStaleHit
<1>7. QED
  BY <1>4, <1>5, <1>6 DEF Fresh

(* How far the version is ahead of what the minimum will reach.              *)
Ahead == version - minVersion - Cardinality(Pending)

LEMMA AheadIsNat == GInv => Ahead \in Nat /\ (Drifted <=> Ahead > 0)
BY PendingIsFinite DEF GInv, TypeOK, PendingIsCovered, Ahead, Drifted

(* A step of a writer changes the distance by the keys it writes, less one   *)
(* when an invalidation is due for them from then on.                        *)
LEMMA WriteAhead ==
  ASSUME GInv, NEW w \in Writer, NEW n \in Nat, NEW p \in WriterPC, NEW k \in Nat,
         Commit(n), WriterTo(w, p, k), UNCHANGED <<cache, req>>, wpc[w] \notin Due
  PROVE  /\ Ahead' = Ahead + n - (IF p \in Due THEN 1 ELSE 0)
         /\ stored <= stored' /\ minVersion <= minVersion' /\ UNCHANGED req
<1>1. /\ stored' = stored + n /\ version' = version + n
      /\ wpc' = [wpc EXCEPT ![w] = p] /\ UNCHANGED <<minVersion, req>>
      /\ stored \in Nat /\ version \in Nat /\ minVersion \in Nat
      /\ wpc \in [Writer -> WriterPC]
  BY DEF Commit, WriterTo, GInv, TypeOK, cache
<1>2. Cardinality(Pending) \in Nat
  BY PendingIsFinite
<1>3. CASE p \in Due
  <2>1. Cardinality(Pending') = Cardinality(Pending) + 1
    BY <1>1, <1>3, PendingStep
  <2>2. QED
    BY <1>1, <1>2, <1>3, <2>1 DEF Ahead
<1>4. CASE p \notin Due
  <2>1. Cardinality(Pending') = Cardinality(Pending)
    BY <1>1, <1>4, PendingStep
  <2>2. QED
    BY <1>1, <1>2, <1>4, <2>1 DEF Ahead
<1>5. QED
  BY <1>3, <1>4

LEMMA MoveAhead ==
  ASSUME GInv, NEW w \in Writer, NEW p \in WriterPC, NEW k \in Nat,
         WriterTo(w, p, k), UNCHANGED <<manager, cache, req>>, wpc[w] \in Due <=> p \in Due
  PROVE  Ahead' = Ahead /\ stored <= stored' /\ minVersion <= minVersion' /\ UNCHANGED req
<1>1. /\ wpc' = [wpc EXCEPT ![w] = p] /\ UNCHANGED <<stored, version, minVersion, req>>
      /\ wpc \in [Writer -> WriterPC] /\ stored \in Nat /\ minVersion \in Nat
  BY DEF WriterTo, GInv, TypeOK, manager, cache
<1>2. Pending' = Pending
  BY <1>1 DEF Pending
<1>3. QED
  BY <1>1, <1>2 DEF Ahead

LEMMA InvalidateAhead ==
  ASSUME GInv, NEW w \in Writer, Invalidate(w)
  PROVE  Ahead' = Ahead /\ stored <= stored' /\ minVersion <= minVersion' /\ UNCHANGED req
<1>1. /\ wpc' = [wpc EXCEPT ![w] = "idle"] /\ minVersion' = minVersion + 1
      /\ UNCHANGED <<stored, version, req>>
      /\ wpc[w] \in Due /\ "idle" \in WriterPC /\ "idle" \notin Due
      /\ wpc \in [Writer -> WriterPC]
      /\ stored \in Nat /\ version \in Nat /\ minVersion \in Nat
  BY DEF Invalidate, WriterTo, Due, WriterPC, GInv, TypeOK
<1>2. Cardinality(Pending) \in Nat /\ Cardinality(Pending') = Cardinality(Pending) - 1
  BY <1>1, PendingStep, PendingIsFinite
<1>3. QED
  BY <1>1, <1>2 DEF Ahead

(* Whatever a writer does, the distance does not shrink.                     *)
LEMMA WriterShape ==
  ASSUME GInv, NEW w \in Writer, WriterStep(w)
  PROVE  \E p, k : /\ WriterTo(w, p, k)
                   /\ Ahead' >= Ahead
                   /\ stored <= stored' /\ minVersion <= minVersion' /\ UNCHANGED req
<1> USE CacheAssumption, AheadIsNat
<1>1. CASE SetField(w) \/ DeleteField(w)
  <2>1. LockedWrite(w)
    BY <1>1 DEF SetField, DeleteField
  <2>2. QED
    BY <2>1, WriteAhead DEF LockedWrite, WriterPC, Due
<1>2. ASSUME NEW d \in Delta, ApplyPreferences(w, d)
      PROVE  \E p, k : /\ WriterTo(w, p, k)
                       /\ Ahead' >= Ahead
                       /\ stored <= stored' /\ minVersion <= minVersion' /\ UNCHANGED req
  <2>1. d.fields \in Nat
    OBVIOUS
  <2>2. CASE d.fields > 0
    BY <1>2, <2>1, <2>2, WriteAhead DEF ApplyPreferences, WriterPC, Due
  <2>3. CASE ~(d.fields > 0)
    BY <1>2, <2>1, <2>3, WriteAhead DEF ApplyPreferences, WriterPC, Due
  <2>4. QED
    BY <2>2, <2>3
<1>3. ASSUME NEW d \in Delta, SkipPreferences(w, d)
      PROVE  \E p, k : /\ WriterTo(w, p, k)
                       /\ Ahead' >= Ahead
                       /\ stored <= stored' /\ minVersion <= minVersion' /\ UNCHANGED req
  <2>1. d.fields \in Nat
    OBVIOUS
  <2>2. QED
    BY <1>3, <2>1, MoveAhead DEF SkipPreferences, WriterPC, Due
<1>4. CASE ApplyFields(w)
  <2>1. left[w] \in Nat /\ left[w] > 0
    BY <1>4 DEF ApplyFields, GInv, TypeOK, FieldsAreLeft, Applying
  <2>2. QED
    BY <1>4, <2>1, WriteAhead DEF ApplyFields, WriterPC, Due
<1>5. CASE ApplyFieldsFails(w)
  <2>1. PICK n \in 0 .. left[w] - 1 : Commit(n)
    BY <1>5 DEF ApplyFieldsFails
  <2>2. n \in Nat
    OBVIOUS
  <2>3. QED
    BY <1>5, <2>1, <2>2, WriteAhead DEF ApplyFieldsFails, WriterPC, Due
<1>6. CASE ReadCallback(w)
  BY <1>6, MoveAhead DEF ReadCallback, WriterPC, Due
<1>7. CASE Invalidate(w)
  BY <1>7, InvalidateAhead DEF Invalidate
<1>8. QED
  BY <1>1, <1>2, <1>3, <1>4, <1>5, <1>6, <1>7 DEF WriterStep

LEMMA WriterStepKeepsFInv ==
  ASSUME GInv, FInv, GInv', NEW w \in Writer, WriterStep(w)
  PROVE  FInv'
<1>1. PICK p, k : /\ WriterTo(w, p, k)
                  /\ Ahead' >= Ahead
                  /\ stored <= stored' /\ minVersion <= minVersion' /\ UNCHANGED req
  BY WriterShape
<1>2. /\ Ahead \in Nat /\ (Drifted <=> Ahead > 0)
      /\ Ahead' \in Nat /\ (Drifted' <=> Ahead' > 0)
  <2>1. Ahead \in Nat /\ (Drifted <=> Ahead > 0)
    BY AheadIsNat
  <2>2. IsFiniteSet(Pending')
    BY CacheAssumption, FS_Subset DEF Pending
  <2>3. Cardinality(Pending') \in Nat
    BY <2>2, FS_CardinalityType
  <2>4. Ahead' \in Nat /\ (Drifted' <=> Ahead' > 0)
    BY <2>3 DEF GInv, TypeOK, PendingIsCovered, Ahead, Drifted
  <2>5. QED
    BY <2>1, <2>4
<1>3. CASE Drifted'
  BY <1>3 DEF FInv
<1>4. CASE ~Drifted'
  <2>1. ~Drifted
    BY <1>1, <1>2, <1>4
  <2>2. Fresh
    BY <2>1 DEF FInv
  <2>3. Fresh'
    BY <1>1, <1>4, <2>2, SettledStep
  <2>4. QED
    BY <2>3 DEF FInv
<1>5. QED
  BY <1>3, <1>4

(* Steps that leave the writers, the version and the minimum alone. *)
LEMMA OtherStepKeepsFInv ==
  ASSUME FInv, UNCHANGED <<version, wpc, minVersion, settled>>,
         Fresh => FloorsAreSettled' /\ NoStaleHit'
  PROVE  FInv'
<1>1. Pending' = Pending
  BY DEF Pending
<1>2. Drifted' <=> Drifted
  BY <1>1 DEF Drifted
<1>3. QED
  BY <1>2 DEF FInv, Fresh, SettledIsBelow

LEMMA RequestStepKeepsFInv ==
  ASSUME GInv, FInv, NEW r \in Request, RequestStep(r)
  PROVE  FInv'
<1>1. PICK q : /\ Reader(r, q)
               /\ q.floor \in {0, settled, req[r].floor}
               /\ q.pc = "hit" =>
                    \E e \in exact \cup semantic : e.tag >= minVersion /\ q.profile = e.profile
  BY RequestShape
<1>2. /\ UNCHANGED <<version, wpc, minVersion, settled>>
      /\ req' = [req EXCEPT ![r] = q] /\ req \in [Request -> ReqState]
      /\ settled \in Nat /\ minVersion \in Nat
  BY <1>1 DEF Reader, RestUnchanged, writers, history, GInv, TypeOK
<1>3. ASSUME Fresh PROVE FloorsAreSettled' /\ NoStaleHit'
  <2>1. settled <= minVersion /\ q.floor <= settled
    BY <1>1, <1>2, <1>3 DEF Fresh, SettledIsBelow, FloorsAreSettled
  <2>2. FloorsAreSettled'
    BY <1>2, <1>3, <2>1 DEF Fresh, FloorsAreSettled
  <2>3. ASSUME q.pc = "hit", q.profile # NoProfile PROVE q.profile >= q.floor
    <3>1. PICK e \in exact \cup semantic : e.tag >= minVersion /\ q.profile = e.profile
      BY <1>1, <2>3
    <3>2. e.tag <= e.profile /\ e.tag \in Nat /\ e.profile \in Int
      BY <2>3, <3>1 DEF GInv, TagNeverOverstates, TypeOK, Entry, Content
    <3>3. q.floor \in Nat
      BY <1>1 DEF Reader, HonestReq, ReqState
    <3>4. QED
      BY <1>2, <2>1, <3>1, <3>2, <3>3
  <2>4. NoStaleHit'
    BY <1>2, <1>3, <2>3 DEF Fresh, NoStaleHit
  <2>5. QED
    BY <2>2, <2>4
<1>4. QED
  BY <1>2, <1>3, OtherStepKeepsFInv

LEMMA FreshInvariance == Spec => []FInv
<1>1. Init => FInv
  BY InitFresh DEF FInv
<1>2. GInv /\ GInv' /\ FInv /\ [Next]_vars => FInv'
  <2> SUFFICES ASSUME GInv, GInv', FInv, [Next]_vars PROVE FInv'
    OBVIOUS
  <2>1. CASE \E w \in Writer : WriterStep(w)
    BY <2>1, WriterStepKeepsFInv
  <2>2. CASE \E r \in Request : RequestStep(r)
    BY <2>2, RequestStepKeepsFInv
  <2>3. CASE (\E e \in exact \cup semantic : DropEntry(e)) \/ CopyExpires \/ UNCHANGED vars
    <3>1. UNCHANGED <<version, wpc, minVersion, settled, req>>
      BY <2>3 DEF DropEntry, CopyExpires, RestUnchanged,
                  vars, manager, writers, cache, history
    <3>2. Fresh => FloorsAreSettled' /\ NoStaleHit'
      BY <3>1 DEF Fresh, FloorsAreSettled, NoStaleHit
    <3>3. QED
      BY <3>1, <3>2, OtherStepKeepsFInv
  <2>4. QED
    BY <2>1, <2>2, <2>3 DEF Next
<1>3. QED
  BY <1>1, <1>2, Invariance, PTL DEF Spec

(* Enrich and Invalidate: until a delta writes two keys or is refused half   *)
(* way, no request is answered from an entry older than the profile that was *)
(* settled when it came in, whatever was in flight while the cache was       *)
(* invalidated.                                                              *)
THEOREM HitsAreFresh == Spec => []FreshUntilDrift
<1>1. FInv => FreshUntilDrift
  BY DEF FInv, Fresh, FreshUntilDrift
<1>2. QED
  BY <1>1, FreshInvariance, PTL

-----------------------------------------------------------------------------
OneWritePerDelta == \A d \in Delta : d.fields + (IF d.prefs THEN 1 ELSE 0) <= 1

OneFieldLeft == \A w \in Writer : wpc[w] \in Applying => wpc[w] = "fields" /\ left[w] = 1

LEMMA OneWriteStep ==
  ASSUME OneWritePerDelta, GInv, OneFieldLeft, NEW w \in Writer, WriterStep(w)
  PROVE  Ahead' = Ahead /\ OneFieldLeft'
<1> USE CacheAssumption, AheadIsNat
<1>1. wpc \in [Writer -> WriterPC] /\ left \in [Writer -> Nat]
  BY DEF GInv, TypeOK
<1>2. ASSUME NEW p, NEW k, WriterTo(w, p, k), p \in Applying => p = "fields" /\ k = 1
      PROVE  OneFieldLeft'
  BY <1>1, <1>2 DEF OneFieldLeft, WriterTo
<1>3. CASE SetField(w) \/ DeleteField(w)
  <2>1. LockedWrite(w)
    BY <1>3 DEF SetField, DeleteField
  <2>2. Commit(1) /\ WriterTo(w, "locked", 0) /\ UNCHANGED <<cache, req>> /\ wpc[w] \notin Due
    BY <2>1 DEF LockedWrite, Due
  <2>3. Ahead' = Ahead
    BY <2>2, WriteAhead DEF WriterPC, Due
  <2>4. QED
    BY <1>2, <2>2, <2>3 DEF Applying
<1>4. ASSUME NEW d \in Delta, ApplyPreferences(w, d) PROVE Ahead' = Ahead /\ OneFieldLeft'
  <2>1. d.fields \in Nat /\ d.prefs
    BY <1>4 DEF ApplyPreferences
  <2>2. d.fields = 0
    BY <2>1 DEF OneWritePerDelta
  <2>3. Commit(1) /\ WriterTo(w, "callback", 0) /\ UNCHANGED <<cache, req>> /\ wpc[w] \notin Due
    BY <1>4, <2>2 DEF ApplyPreferences, Due
  <2>4. Ahead' = Ahead
    BY <2>3, WriteAhead DEF WriterPC, Due
  <2>5. QED
    BY <1>2, <2>3, <2>4 DEF Applying
<1>5. ASSUME NEW d \in Delta, SkipPreferences(w, d) PROVE Ahead' = Ahead /\ OneFieldLeft'
  <2>1. d.fields \in Nat /\ ~d.prefs /\ d.fields > 0
    BY <1>5 DEF SkipPreferences
  <2>2. d.fields = 1
    BY <2>1 DEF OneWritePerDelta
  <2>3. WriterTo(w, "fields", 1) /\ UNCHANGED <<manager, cache, req>> /\ wpc[w] \notin Due
    BY <1>5, <2>2 DEF SkipPreferences, Due
  <2>4. Ahead' = Ahead
    BY <2>3, MoveAhead DEF WriterPC, Due
  <2>5. QED
    BY <1>2, <2>3, <2>4
<1>6. CASE ApplyFields(w)
  <2>1. left[w] = 1
    BY <1>6 DEF ApplyFields, OneFieldLeft, Applying
  <2>2. Commit(1) /\ WriterTo(w, "callback", 0) /\ UNCHANGED <<cache, req>> /\ wpc[w] \notin Due
    BY <1>6, <2>1 DEF ApplyFields, Due
  <2>3. Ahead' = Ahead
    BY <2>2, WriteAhead DEF WriterPC, Due
  <2>4. QED
    BY <1>2, <2>2, <2>3 DEF Applying
<1>7. CASE ApplyFieldsFails(w)
  <2>1. left[w] = 1
    BY <1>7 DEF ApplyFieldsFails, OneFieldLeft, Applying
  <2>2. Commit(0) /\ WriterTo(w, "idle", 0) /\ UNCHANGED <<cache, req>> /\ wpc[w] \notin Due
    BY <1>7, <2>1 DEF ApplyFieldsFails, Due
  <2>3. Ahead' = Ahead
    BY <2>2, WriteAhead DEF WriterPC, Due
  <2>4. QED
    BY <1>2, <2>2, <2>3 DEF Applying
<1>8. CASE ReadCallback(w)
  <2>1. WriterTo(w, "notify", 0) /\ UNCHANGED <<manager, cache, req>> /\ wpc[w] = "callback"
    BY <1>8 DEF ReadCallback
  <2>2. Ahead' = Ahead
    BY <2>1, MoveAhead DEF WriterPC, Due
  <2>3. QED
    BY <1>2, <2>1, <2>2 DEF Applying
<1>9. CASE Invalidate(w)
  <2>1. WriterTo(w, "idle", 0) /\ Ahead' = Ahead
    BY <1>9, InvalidateAhead DEF Invalidate
  <2>2. QED
    BY <1>2, <2>1 DEF Applying
<1>10. QED
  BY <1>3, <1>4, <1>5, <1>6, <1>7, <1>8, <1>9 DEF WriterStep

(* ApplyDelta: when no delta writes more than one key, the minimum never     *)
(* falls behind for good, so with HitsAreFresh no hit is ever stale.         *)
THEOREM OneWriteNeverDrifts ==
  ASSUME OneWritePerDelta
  PROVE  Spec => [](~Drifted /\ NoStaleHit)
<1> DEFINE DInv == OneFieldLeft /\ Ahead = 0
<1>1. Init => DInv
  <2> SUFFICES ASSUME Init PROVE DInv
    OBVIOUS
  <2>1. ~Drifted /\ GInv
    BY InitFresh, InitGInv
  <2>2. Ahead = 0
    BY <2>1, AheadIsNat
  <2>3. OneFieldLeft
    BY DEF Init, OneFieldLeft, Applying
  <2>4. QED
    BY <2>2, <2>3
<1>2. GInv /\ DInv /\ [Next]_vars => DInv'
  <2> SUFFICES ASSUME GInv, DInv, [Next]_vars PROVE DInv'
    OBVIOUS
  <2>1. CASE \E w \in Writer : WriterStep(w)
    BY <2>1, OneWriteStep
  <2>2. ASSUME UNCHANGED <<version, wpc, left, minVersion>> PROVE DInv'
    <3>1. Pending' = Pending
      BY <2>2 DEF Pending
    <3>2. QED
      BY <2>2, <3>1 DEF OneFieldLeft, Ahead
  <2>3. CASE \E r \in Request : RequestStep(r)
    BY <2>2, <2>3, RequestShape DEF Reader, RestUnchanged, writers
  <2>4. CASE (\E e \in exact \cup semantic : DropEntry(e)) \/ CopyExpires \/ UNCHANGED vars
    BY <2>2, <2>4 DEF DropEntry, CopyExpires, RestUnchanged, vars, manager, writers, cache
  <2>5. QED
    BY <2>1, <2>3, <2>4 DEF Next
<1>3. GInv /\ DInv /\ FInv => ~Drifted /\ NoStaleHit
  BY AheadIsNat DEF FInv, Fresh
<1>4. QED
  BY <1>1, <1>2, <1>3, Invariance, FreshInvariance, PTL DEF Spec
=============================================================================
