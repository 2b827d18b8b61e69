------------------------ MODULE QueryCacheRingProofs ------------------------
(***************************************************************************)
(* Theorems about QueryCacheRing, for any queries, similarities, sizes,    *)
(* times to live and concurrent requests.                                  *)
(*                                                                         *)
(* Compaction moves the kept slots to the first places one to one and in   *)
(* order (SlotsMoveDown): this is the fact under all properties of the     *)
(* ring.  The order in which entries were put there is proved between any  *)
(* two of them (OrderedPairwise), with the k-th entry written without a    *)
(* remainder, and rests on none having been put there later than now       *)
(* (NoneFromTheFuture).  NoNeedlessWork is carried by the requests that    *)
(* have scanned the ring and not yet put their entry (MissesHaveReason).   *)
(***************************************************************************)
EXTENDS QueryCacheRing, FiniteSetTheorems, TLAPS

ExactBounded == IsFiniteSet(Held) /\ Cardinality(Held) <= MaxExactSize

(* The entries of the ring that are in use.                                 *)
Entries == {ring[i] : i \in 0 .. len - 1}

NoneFromTheFuture ==
  /\ \A i \in Slot : ring[i].put <= now /\ ring[i].since <= now
  /\ \A r \in Reader : req[r].since <= now

(* The first entry of the ring, and the k-th from it on.                    *)
First == IF len = MaxSemanticSize THEN writeIdx ELSE 0
From(f, k) == IF f + k < MaxSemanticSize THEN f + k ELSE f + k - MaxSemanticSize

OrderedPairwise ==
  rotated \/ \A j, k \in 0 .. len - 1 : j < k => ring[From(First, j)].put <= ring[From(First, k)].put

(* Why f, an entry or a request, was not answered from e.                   *)
Reason(f, e) ==
  Alike(f.query, e.query) => f.since <= e.put \/ f.since > e.time + SemanticTTL

(* A request that has scanned the ring had a reason to miss each entry that *)
(* is in it now.                                                            *)
Missed(q) == q.embedded => \A e \in Entries : Reason(q, e)
MissesHaveReason == \A r \in Reader : Missed(req[r])

WorkHasReason == \A e, f \in Entries : Reason(f, e)

IInv ==
  /\ TypeOK
  /\ ExactBounded
  /\ \A r \in Reader : at[r] # "idle" => req[r] \in ReqState
  /\ NoneFromTheFuture
  /\ ValidPrefix
  /\ OrderedPairwise
  /\ MissesHaveReason
  /\ WorkHasReason

-----------------------------------------------------------------------------
(* Facts about the operators of the module.                                 *)
LEMMA NoEntryIsNone == NoEntry \notin Entry
BY RingAssumption DEF RingAssumption, NoEntry, Entry

LEMMA SizesPositive ==
  /\ MaxSemanticSize \in Nat /\ MaxSemanticSize > 0
  /\ MaxExactSize \in Nat /\ MaxExactSize > 0
  /\ ExactTTL \in Nat /\ SemanticTTL \in Nat /\ MaxTime \in Nat
BY RingAssumption DEF RingAssumption

LEMMA Remainder ==
  ASSUME NEW m \in 0 .. MaxSemanticSize + MaxSemanticSize - 1
  PROVE  m % MaxSemanticSize = IF m < MaxSemanticSize THEN m ELSE m - MaxSemanticSize
BY SizesPositive

Below(Kept, i) == {j \in Kept : j < i}

LEMMA BelowGrows ==
  ASSUME NEW n \in Nat, NEW Kept \in SUBSET (0 .. n - 1), NEW i \in Kept, NEW j \in Kept, i < j
  PROVE  Place(Kept, i) \in Nat /\ Place(Kept, j) \in Nat /\ Place(Kept, i) < Place(Kept, j)
<1>1. IsFiniteSet(0 .. n - 1)
  BY FS_Interval
<1>2. Below(Kept, i) \in SUBSET (0 .. n - 1) /\ Below(Kept, j) \in SUBSET (0 .. n - 1)
  BY DEF Below
<1>3. IsFiniteSet(Below(Kept, i))
  BY <1>1, <1>2, FS_Subset
<1>4. IsFiniteSet(Below(Kept, j))
  BY <1>1, <1>2, FS_Subset
<1>5. \A k \in Kept : k \in Int
  BY SMT
<1>6. Below(Kept, i) \subseteq Below(Kept, j) /\ i \in Below(Kept, j) /\ i \notin Below(Kept, i)
  <2>1. ASSUME NEW k \in Below(Kept, i) PROVE k \in Below(Kept, j)
    <3>1. k \in Kept /\ k < i
      BY DEF Below
    <3>2. k < j
      BY <1>5, <3>1
    <3>3. QED
      BY <3>1, <3>2 DEF Below
  <2>2. i \in Below(Kept, j) /\ ~(i < i)
    BY <1>5 DEF Below
  <2>3. QED
    BY <2>1, <2>2 DEF Below
<1>7. /\ Cardinality(Below(Kept, i)) \in Nat /\ Cardinality(Below(Kept, j)) \in Nat
  BY <1>3, <1>4, FS_CardinalityType
<1>8. /\ Cardinality(Below(Kept, i)) <= Cardinality(Below(Kept, j))
      /\ Cardinality(Below(Kept, i)) # Cardinality(Below(Kept, j))
  BY <1>6, <1>4, FS_Subset
<1>9. Place(Kept, i) = Cardinality(Below(Kept, i)) /\ Place(Kept, j) = Cardinality(Below(Kept, j))
  BY DEF Place, Below
<1>10. QED
  BY <1>7, <1>8, <1>9

LEMMA PlaceInRange ==
  ASSUME NEW n \in Nat, NEW Kept \in SUBSET (0 .. n - 1)
  PROVE  /\ IsFiniteSet(Kept) /\ Cardinality(Kept) \in 0 .. n
         /\ \A i \in Kept : Place(Kept, i) \in 0 .. Cardinality(Kept) - 1
<1>1. IsFiniteSet(0 .. n - 1) /\ Cardinality(0 .. n - 1) = n
  BY FS_Interval
<1>2. IsFiniteSet(Kept)
  BY <1>1, FS_Subset
<1>3. Cardinality(Kept) \in Nat
  BY <1>2, FS_CardinalityType
<1>4. Cardinality(Kept) <= n
  BY <1>1, FS_Subset
<1>5. ASSUME NEW i \in Kept PROVE Place(Kept, i) \in 0 .. Cardinality(Kept) - 1
  <2>1. Below(Kept, i) \in SUBSET Kept /\ Below(Kept, i) # Kept
    BY DEF Below
  <2>2. IsFiniteSet(Below(Kept, i))
    BY <1>2, <2>1, FS_Subset
  <2>3. Cardinality(Below(Kept, i)) \in Nat
    BY <2>2, FS_CardinalityType
  <2>4. /\ Cardinality(Below(Kept, i)) <= Cardinality(Kept)
        /\ Cardinality(Below(Kept, i)) # Cardinality(Kept)
    BY <1>2, <2>1, FS_Subset
  <2>5. Place(Kept, i) = Cardinality(Below(Kept, i))
    BY DEF Place, Below
  <2>6. QED
    BY <1>3, <2>3, <2>4, <2>5
<1>6. QED
  BY <1>2, <1>3, <1>4, <1>5

(* The kept slots go to the places 0 .. c-1, one to each, in their order.   *)
LEMMA SlotsMoveDown ==
  ASSUME NEW n \in Nat, NEW Kept \in SUBSET (0 .. n - 1)
  PROVE  /\ \A p \in 0 .. Cardinality(Kept) - 1 : SlotFor(Kept, p) \in Kept
         /\ \A p, q \in 0 .. Cardinality(Kept) - 1 : p < q => SlotFor(Kept, p) < SlotFor(Kept, q)
         /\ \A i \in Kept : \E p \in 0 .. Cardinality(Kept) - 1 : SlotFor(Kept, p) = i
<1> DEFINE c == Cardinality(Kept)
           place == [i \in Kept |-> Place(Kept, i)]
<1>1. IsFiniteSet(Kept) /\ c \in Nat /\ \A i \in Kept : Place(Kept, i) \in 0 .. c - 1
  BY PlaceInRange
<1>2. \A i, j \in Kept : i # j => Place(Kept, i) # Place(Kept, j)
  <2>1. \A i, j \in Kept : i # j => i < j \/ j < i
    OBVIOUS
  <2>2. \A i, j \in Kept : i < j =>
          Place(Kept, i) \in Nat /\ Place(Kept, j) \in Nat /\ Place(Kept, i) < Place(Kept, j)
    BY BelowGrows
  <2>3. QED
    BY <2>1, <2>2
<1>3. place \in Injection(Kept, 0 .. c - 1)
  BY <1>1, <1>2 DEF Injection, IsInjective
<1>4. IsFiniteSet(0 .. c - 1) /\ Cardinality(0 .. c - 1) = c
  BY <1>1, FS_Interval
<1>5. place \in Surjection(Kept, 0 .. c - 1)
  BY <1>3, <1>4, FS_Injection
<1>6. \A p \in 0 .. c - 1 : \E i \in Kept : Place(Kept, i) = p
  BY <1>5 DEF Surjection
<1>7. \A p \in 0 .. c - 1 : SlotFor(Kept, p) \in Kept /\ Place(Kept, SlotFor(Kept, p)) = p
  BY <1>6 DEF SlotFor
<1>8. \A i \in Kept : Place(Kept, i) \in 0 .. c - 1 /\ SlotFor(Kept, Place(Kept, i)) = i
  BY <1>1, <1>2, <1>7
<1>9. ASSUME NEW p \in 0 .. c - 1, NEW q \in 0 .. c - 1, p < q
      PROVE  SlotFor(Kept, p) < SlotFor(Kept, q)
  <2>1. SlotFor(Kept, p) \in Kept /\ SlotFor(Kept, q) \in Kept
    BY <1>7
  <2>2. \A k \in Kept : k \in Int
    BY SMT
  <2>3. SlotFor(Kept, p) \in Int /\ SlotFor(Kept, q) \in Int
    BY <2>1, <2>2
  <2>4. SlotFor(Kept, q) < SlotFor(Kept, p) => q < p
    BY <1>7, <2>1, BelowGrows
  <2>5. SlotFor(Kept, p) # SlotFor(Kept, q)
    BY <1>7, <1>9
  <2>6. QED
    BY <1>9, <2>4, <2>5, <2>3
<1>10. QED
  BY <1>7, <1>8, <1>9

-----------------------------------------------------------------------------
CacheTyped ==
  /\ exactCache \in [Query -> Time \cup {Never}]
  /\ ring \in [Slot -> Entry \cup {NoEntry}]
  /\ len \in 0 .. MaxSemanticSize /\ writeIdx \in Slot
  /\ rotated \in BOOLEAN

RequestsTyped ==
  /\ at \in [Reader -> ReqPC]
  /\ req \in [Reader -> ReqState \cup {NoReq}]
  /\ \A r \in Reader : at[r] # "idle" => req[r] \in ReqState

ClockTyped == now \in Time /\ sweep \in Time \cup {Never}

LEMMA TypeParts == IInv => CacheTyped /\ RequestsTyped /\ ClockTyped
BY DEF IInv, TypeOK, CacheTyped, RequestsTyped, ClockTyped

LEMMA EntryParts ==
  /\ \A e \in Entry \cup {NoEntry} : e.time \in Nat /\ e.put \in Nat /\ e.since \in Nat
  /\ \A e \in Entry : e # NoEntry
  /\ \A q \in ReqState \cup {NoReq} : q.since \in Nat
  /\ \A t \in Time : t \in Nat /\ t # Never
BY NoEntryIsNone, SizesPositive DEF Entry, NoEntry, ReqState, NoReq, Time, Never

LEMMA EntriesAreSlots ==
  ASSUME IInv
  PROVE  /\ \A i \in 0 .. len - 1 : i \in Slot /\ i < len
         /\ \A e \in Entries : /\ e.time \in Nat /\ e.put \in Nat /\ e.since \in Nat
                               /\ e.put <= now /\ e.since <= now
<1>1. \A i \in 0 .. len - 1 : i \in Slot /\ i < len
  BY SizesPositive, TypeParts DEF CacheTyped, Slot
<1>2. ASSUME NEW i \in 0 .. len - 1
      PROVE  /\ ring[i].time \in Nat /\ ring[i].put \in Nat /\ ring[i].since \in Nat
             /\ ring[i].put <= now /\ ring[i].since <= now
  BY <1>1, EntryParts, TypeParts DEF CacheTyped, IInv, NoneFromTheFuture
<1>3. QED
  BY <1>1, <1>2 DEF Entries

(* The property of a run compares entries by their slots.                   *)
LEMMA SlotsAndEntries == WorkHasReason <=> NoNeedlessWork
BY DEF WorkHasReason, NoNeedlessWork, Entries, Reason

LEMMA InitIInv == Init => IInv
<1> SUFFICES ASSUME Init PROVE IInv
  OBVIOUS
<1>1. Held = {} /\ IsFiniteSet({}) /\ Cardinality({}) = 0
  BY FS_EmptySet DEF Init, Held
<1>2. ExactBounded
  BY <1>1, SizesPositive DEF ExactBounded
<1>3. CacheTyped
  <2>1. rotated \in BOOLEAN
    BY Zenon DEF Init
  <2>2. QED
    BY <2>1, SizesPositive DEF Init, CacheTyped, Slot, Never
<1>4. RequestsTyped /\ ClockTyped
  BY SizesPositive DEF Init, RequestsTyped, ClockTyped, ReqPC, Time
<1>5. NoneFromTheFuture
  BY DEF Init, NoneFromTheFuture, NoEntry, NoReq
<1>6. ValidPrefix
  BY SizesPositive DEF Init, ValidPrefix, Slot
<1>7. 0 .. len - 1 = {}
  BY DEF Init
<1>8. OrderedPairwise /\ WorkHasReason /\ Entries = {}
  BY <1>7, Zenon DEF OrderedPairwise, WorkHasReason, Entries
<1>9. MissesHaveReason
  BY <1>8, Zenon DEF MissesHaveReason, Missed
<1>10. QED
  BY <1>2, <1>3, <1>4, <1>5, <1>6, <1>8, <1>9, Zenon
     DEF IInv, TypeOK, CacheTyped, RequestsTyped, ClockTyped, ExactBounded, ExactSize

-----------------------------------------------------------------------------
(* A request that goes on without touching the cache.                       *)
LEMMA LookStep ==
  ASSUME IInv, NEW r \in Reader, NEW p \in ReqPC, NEW q \in ReqState \cup {NoReq},
         Goes(r, p, q), OnlyLooks, p # "idle" => q \in ReqState,
         q.since <= now, Missed(q)
  PROVE  IInv'
<1> USE DEF OnlyLooks, cacheVars
<1>1. CacheTyped /\ RequestsTyped /\ ClockTyped
  BY TypeParts
<1>2. /\ \A x \in Reader : at'[x] = IF x = r THEN p ELSE at[x]
      /\ \A x \in Reader : req'[x] = IF x = r THEN q ELSE req[x]
  BY <1>1 DEF Goes, RequestsTyped
<1>3. CacheTyped' /\ ClockTyped'
  BY <1>1, Zenon DEF CacheTyped, ClockTyped
<1>4. RequestsTyped'
  <2>1. /\ at' \in [Reader -> ReqPC] /\ req' \in [Reader -> ReqState \cup {NoReq}]
    BY <1>1 DEF Goes, RequestsTyped
  <2>2. \A x \in Reader : at'[x] # "idle" => req'[x] \in ReqState
    BY <1>1, <1>2 DEF RequestsTyped
  <2>3. QED
    BY <2>1, <2>2 DEF RequestsTyped
<1>5. ExactBounded' /\ ValidPrefix' /\ OrderedPairwise'
  BY Zenon DEF IInv, ExactBounded, Held, ValidPrefix, OrderedPairwise, First
<1>6. NoneFromTheFuture'
  BY <1>2 DEF IInv, NoneFromTheFuture
<1>7. Entries' = Entries
  BY Zenon DEF Entries
<1>8. WorkHasReason'
  BY <1>7, Zenon DEF IInv, WorkHasReason
<1>9. MissesHaveReason'
  BY <1>2, <1>7, Zenon DEF IInv, MissesHaveReason, Missed
<1>10. QED
  BY <1>3, <1>4, <1>5, <1>6, <1>8, <1>9, Zenon
     DEF IInv, TypeOK, CacheTyped, RequestsTyped, ClockTyped, ExactBounded, ExactSize

LEMMA RequestLooks ==
  ASSUME IInv, NEW r \in Reader,
         \/ \E q \in Query : Get(r, q)
         \/ GetExact(r) \/ Embed(r) \/ EmbedFails(r) \/ GetSemantic(r) \/ Misses(r)
         \/ ComposeFails(r) \/ Set(r)
  PROVE  IInv'
<1>1. /\ RequestsTyped /\ now \in Time /\ req[r] \in ReqState \cup {NoReq}
      /\ at[r] # "idle" => req[r] \in ReqState
      /\ req[r].since <= now /\ Missed(req[r])
  BY TypeParts DEF ClockTyped, RequestsTyped, IInv, NoneFromTheFuture, MissesHaveReason
<1>2. NoReq.since <= now /\ Missed(NoReq)
  BY <1>1, SizesPositive DEF NoReq, Missed, Time
<1>3. ASSUME NEW q \in Query, Get(r, q) PROVE IInv'
  <2> DEFINE s == [query |-> q, since |-> now, embedded |-> FALSE, time |-> 0]
  <2>1. s \in ReqState /\ s.since = now /\ ~s.embedded
    BY <1>1, SizesPositive DEF ReqState, Time
  <2>2. s.since <= now /\ Missed(s)
    BY <1>1, <2>1, SizesPositive DEF Missed, Time
  <2>3. Goes(r, "exact", s) /\ OnlyLooks
    BY <1>3 DEF Get
  <2>4. QED
    <3> HIDE DEF s
    <3>1. QED
      BY <2>1, <2>2, <2>3, LookStep DEF ReqPC
<1>4. CASE GetExact(r) \/ Embed(r) \/ EmbedFails(r)
  <2>1. OnlyLooks /\ at[r] # "idle"
        /\ (Goes(r, "idle", NoReq) \/ \E p \in ReqPC : Goes(r, p, req[r]))
    BY <1>4 DEF GetExact, Embed, EmbedFails, ReqPC
  <2>2. CASE Goes(r, "idle", NoReq)
    BY <1>2, <2>1, <2>2, LookStep DEF ReqPC
  <2>3. CASE \E p \in ReqPC : Goes(r, p, req[r])
    BY <1>1, <2>1, <2>3, LookStep
  <2>4. QED
    BY <2>1, <2>2, <2>3
<1>5. CASE GetSemantic(r) \/ ComposeFails(r)
  BY <1>2, <1>5, LookStep DEF GetSemantic, ComposeFails, ReqPC
<1>6. CASE Misses(r)
  <2> DEFINE s == [req[r] EXCEPT !.embedded = TRUE]
  <2>1. req[r] \in ReqState /\ Eligible(r) = {} /\ Goes(r, "compose", s) /\ OnlyLooks
    BY <1>1, <1>6 DEF Misses
  <2>2. s \in ReqState /\ s.since = req[r].since /\ s.query = req[r].query
    BY <2>1 DEF ReqState
  <2>3. \A i \in 0 .. len - 1 : Reason(s, ring[i])
    <3>1. TAKE i \in 0 .. len - 1
    <3>2. ring[i] \in Entries
      BY DEF Entries
    <3>3. ring[i].time \in Nat /\ s.since \in Nat /\ SemanticTTL \in Nat
      BY <3>2, <2>2, EntriesAreSlots, EntryParts, SizesPositive
    <3>4. ~(s.since <= ring[i].time + SemanticTTL) \/ ~Alike(s.query, ring[i].query)
      BY <2>1, <2>2 DEF Eligible
    <3>5. QED
      BY <3>3, <3>4 DEF Reason
  <2>4. Missed(s)
    BY <2>3 DEF Missed, Entries
  <2>5. QED
    <3> HIDE DEF s
    <3>1. QED
      BY <1>1, <2>1, <2>2, <2>4, LookStep DEF ReqPC
<1>7. CASE Set(r)
  <2> DEFINE s == [req[r] EXCEPT !.time = now]
  <2>1. req[r] \in ReqState /\ Goes(r, "put", s) /\ OnlyLooks
    BY <1>1, <1>7 DEF Set
  <2>2. /\ s \in ReqState /\ s.since = req[r].since /\ s.query = req[r].query
        /\ s.embedded = req[r].embedded
    BY <1>1, <2>1 DEF ReqState
  <2>3. Missed(s)
    BY <1>1, <2>2, Zenon DEF Missed, Reason
  <2>4. QED
    <3> HIDE DEF s
    <3>1. QED
      BY <1>1, <2>1, <2>2, <2>3, LookStep DEF ReqPC
<1>8. QED
  BY <1>3, <1>4, <1>5, <1>6, <1>7

(* Reading the clock, and the clock going on.                               *)
LEMMA ClockStep ==
  ASSUME IInv, Tick \/ evictExpired
  PROVE  IInv'
<1> USE DEF Tick, evictExpired, cacheVars, requests
<1>1. CacheTyped /\ RequestsTyped /\ ClockTyped
  BY TypeParts
<1>2. UNCHANGED <<exactCache, ring, len, writeIdx, rotated, at, req>>
  OBVIOUS
<1>3. CacheTyped' /\ RequestsTyped'
  BY <1>1, <1>2, Zenon DEF CacheTyped, RequestsTyped
<1>4. now' \in Time /\ now \in Int /\ now <= now' /\ now' \in Int
  BY <1>1, SizesPositive DEF ClockTyped, Time
<1>5. ClockTyped'
  BY <1>1, <1>4 DEF ClockTyped
<1>6. ExactBounded' /\ ValidPrefix' /\ OrderedPairwise'
  BY <1>2, Zenon DEF IInv, ExactBounded, Held, ValidPrefix, OrderedPairwise, First
<1>7. WorkHasReason' /\ MissesHaveReason'
  BY <1>2, Zenon DEF IInv, WorkHasReason, MissesHaveReason, Missed, Entries
<1>8. NoneFromTheFuture'
  <2>1. \A x \in Nat : x <= now => x <= now'
    BY <1>4
  <2>2. /\ \A i \in Slot : ring[i].put \in Nat /\ ring[i].since \in Nat
        /\ \A r \in Reader : req[r].since \in Nat
    BY <1>1, EntryParts DEF CacheTyped, RequestsTyped
  <2>3. QED
    BY <1>2, <2>1, <2>2 DEF IInv, NoneFromTheFuture
<1>9. QED
  BY <1>3, <1>5, <1>6, <1>7, <1>8, Zenon
     DEF IInv, TypeOK, CacheTyped, RequestsTyped, ClockTyped, ExactBounded, ExactSize

(* The exact level after entries went and at most one came.                 *)
LEMMA ExactShrinks ==
  ASSUME IInv, Held' \subseteq Held
  PROVE  ExactBounded'
<1>1. IsFiniteSet(Held) /\ Cardinality(Held) <= MaxExactSize /\ MaxExactSize \in Nat
  BY SizesPositive DEF IInv, ExactBounded
<1> DEFINE U == Held'
<1>2. IsFiniteSet(U) /\ Cardinality(U) <= Cardinality(Held)
  <2> HIDE DEF U
  <2>1. U \in SUBSET Held
    BY DEF U
  <2>2. QED
    BY <1>1, <2>1, FS_Subset
<1>3. Cardinality(Held) \in Nat /\ Cardinality(U) \in Nat
  <2> HIDE DEF U
  <2>1. QED
    BY <1>1, <1>2, FS_CardinalityType
<1>4. Cardinality(U) <= MaxExactSize
  BY <1>1, <1>2, <1>3
<1>5. QED
  BY <1>2, <1>4 DEF ExactBounded

LEMMA ExactGrows ==
  ASSUME IInv, NEW q \in Query, NEW V,
         Held' = V \cup {q}, V \subseteq Held,
         ExactSize >= MaxExactSize => \E o \in Held : V = Held \ {o}
  PROVE  ExactBounded'
<1>1. IsFiniteSet(Held) /\ Cardinality(Held) <= MaxExactSize /\ MaxExactSize \in Nat
      /\ ExactSize = Cardinality(Held)
  BY SizesPositive DEF IInv, ExactBounded, ExactSize
<1>2. IsFiniteSet(V) /\ Cardinality(V) <= Cardinality(Held)
  BY <1>1, FS_Subset
<1>3. Cardinality(V) \in Nat /\ Cardinality(Held) \in Nat
  BY <1>1, <1>2, FS_CardinalityType
<1>4. Cardinality(V) < MaxExactSize
  <2>1. CASE ExactSize >= MaxExactSize
    <3>1. PICK o \in Held : V = Held \ {o}
      BY <2>1
    <3>2. Cardinality(V) = Cardinality(Held) - 1
      BY <1>1, <3>1, FS_RemoveElement
    <3>3. QED
      BY <1>1, <1>3, <3>2
  <2>2. CASE ~(ExactSize >= MaxExactSize)
    BY <1>1, <1>2, <1>3, <2>2
  <2>3. QED
    BY <2>1, <2>2
<1>5. IsFiniteSet(V \cup {q}) /\ Cardinality(V \cup {q}) <= Cardinality(V) + 1
  BY <1>2, <1>3, FS_AddElement
<1>6. Cardinality(V \cup {q}) \in Nat
  BY <1>5, FS_CardinalityType
<1>7. Cardinality(V \cup {q}) <= MaxExactSize
  BY <1>1, <1>3, <1>4, <1>5, <1>6
<1>8. QED
  BY <1>5, <1>7 DEF ExactBounded

LEMMA PutExactStep ==
  ASSUME IInv, NEW q \in Query, NEW t \in Time, PutExact(q, t)
  PROVE  /\ exactCache' \in [Query -> Time \cup {Never}]
         /\ ExactBounded'
         /\ \A x \in Held : exactCache'[x] = Never =>
              /\ ExactSize >= MaxExactSize
              /\ \A p \in Held : exactCache[x] <= exactCache[p]
<1>1. exactCache \in [Query -> Time \cup {Never}]
  BY TypeParts DEF CacheTyped
<1>2. t # Never
  BY EntryParts
<1>3. CASE ExactSize >= MaxExactSize
  <2>1. PICK o \in Oldest : exactCache' = [exactCache EXCEPT ![o] = Never, ![q] = t]
    BY <1>3 DEF PutExact, evictOldestExact
  <2>2. o \in Held /\ o \in Query /\ \A p \in Held : exactCache[o] <= exactCache[p]
    BY DEF Oldest, Held
  <2>3. \A x \in Query : exactCache'[x] = IF x = q THEN t ELSE IF x = o THEN Never ELSE exactCache[x]
    BY <1>1, <2>1, <2>2
  <2>4. exactCache' \in [Query -> Time \cup {Never}]
    BY <1>1, <2>1, <2>2
  <2>5. Held' = (Held \ {o}) \cup {q}
    BY <1>2, <2>2, <2>3 DEF Held
  <2>6. ExactBounded'
    BY <2>2, <2>5, ExactGrows
  <2>7. \A x \in Held : exactCache'[x] = Never => x = o
    BY <1>2, <2>3 DEF Held
  <2>8. QED
    BY <1>3, <2>2, <2>4, <2>6, <2>7
<1>4. CASE ~(ExactSize >= MaxExactSize)
  <2>1. exactCache' = [exactCache EXCEPT ![q] = t]
    BY <1>4 DEF PutExact
  <2>2. \A x \in Query : exactCache'[x] = IF x = q THEN t ELSE exactCache[x]
    BY <1>1, <2>1
  <2>3. Held' = Held \cup {q}
    BY <1>2, <2>2 DEF Held
  <2>4. ExactBounded'
    BY <1>4, <2>3, ExactGrows
  <2>5. exactCache' \in [Query -> Time \cup {Never}]
    BY <1>1, <2>1
  <2>6. \A x \in Held : exactCache'[x] # Never
    BY <1>2, <2>2 DEF Held
  <2>7. QED
    BY <2>4, <2>5, <2>6
<1>5. QED
  BY <1>3, <1>4

-----------------------------------------------------------------------------
(* An entry put now takes the slot of the cursor.                           *)
LEMMA PutRingStep ==
  ASSUME IInv, NEW e \in Entry, e.put = now, PutRing(e), UNCHANGED <<now, rotated>>
  PROVE  /\ ring' \in [Slot -> Entry \cup {NoEntry}]
         /\ len' \in 0 .. MaxSemanticSize /\ writeIdx' \in Slot
         /\ \A i \in Slot : ring'[i].put <= now
         /\ \A i \in Slot : ring'[i] = ring[i] \/ ring'[i] = e
         /\ ValidPrefix' /\ OrderedPairwise'
<1> DEFINE N == MaxSemanticSize
<1>1. N \in Nat /\ N > 0 /\ Slot = 0 .. N - 1
  BY SizesPositive DEF Slot
<1>2. /\ ring \in [Slot -> Entry \cup {NoEntry}] /\ len \in 0 .. N /\ writeIdx \in 0 .. N - 1
      /\ \A i \in Slot : ring[i].put <= now
      /\ now \in 0 .. MaxTime
  BY <1>1, TypeParts DEF IInv, CacheTyped, ClockTyped, Time, NoneFromTheFuture
<1>3. ring' = [ring EXCEPT ![writeIdx] = e]
  BY DEF PutRing
<1>4. \A i \in Slot : ring'[i] = IF i = writeIdx THEN e ELSE ring[i]
  BY <1>1, <1>2, <1>3
<1>5. writeIdx' = IF writeIdx + 1 < N THEN writeIdx + 1 ELSE 0
  <2>1. PICK m : m = writeIdx + 1
    OBVIOUS
  <2>2. m \in 0 .. N + N - 1 /\ N \in Nat \ {0}
    BY <1>1, <1>2, <2>1
  <2>3. m % N = IF m < N THEN m ELSE m - N
    BY <2>2, Remainder
  <2>4. writeIdx' = m % N
    BY <2>1 DEF PutRing
  <2>5. QED
    BY <1>1, <1>2, <2>1, <2>3, <2>4
<1>6. len' = IF len < N THEN len + 1 ELSE len
  BY DEF PutRing
<1>7. len' \in 0 .. N /\ writeIdx' \in 0 .. N - 1
  BY <1>1, <1>2, <1>5, <1>6
<1>8. \A i \in Slot : ring'[i].put <= now
  BY <1>2, <1>4
<1>9. e # NoEntry
  BY EntryParts
<1>10. /\ \A i \in Slot : ring[i] # NoEntry <=> i < len
       /\ len < N => writeIdx = len
  BY DEF IInv, ValidPrefix
<1>11. ValidPrefix'
  <2>1. \A i \in Slot : ring'[i] # NoEntry <=> i < len'
    BY <1>1, <1>2, <1>4, <1>6, <1>9, <1>10
  <2>2. len' < N => writeIdx' = len'
    BY <1>1, <1>2, <1>5, <1>6, <1>10
  <2>3. QED
    BY <2>1, <2>2 DEF ValidPrefix
<1>12. OrderedPairwise'
  <2>1. SUFFICES ASSUME ~rotated, NEW j \in 0 .. len' - 1, NEW k \in 0 .. len' - 1, j < k
                 PROVE  ring'[From(First', j)].put <= ring'[From(First', k)].put
    BY DEF OrderedPairwise
  <2>2. j \in 0 .. N - 1 /\ k \in 1 .. N - 1
    <3>1. j \in 0 .. len' - 1 /\ k \in 0 .. len' - 1 /\ j < k
      BY <2>1
    <3>2. len' \in 0 .. N /\ N \in Nat
      BY <1>1, <1>7
    <3>3. \A l \in 0 .. N : \A a, b \in 0 .. l - 1 : a < b => a \in 0 .. N - 1 /\ b \in 1 .. N - 1
      BY <3>2
    <3>4. QED
      BY <3>1, <3>2, <3>3
  <2>3. \A m, n \in 0 .. len - 1 : m < n =>
          ring[From(First, m)].put <= ring[From(First, n)].put
    BY <2>1 DEF IInv, OrderedPairwise
  <2>4. CASE len < N
    <3>1. First = 0 /\ First' = 0
      BY <1>1, <1>2, <1>5, <1>6, <1>10, <2>4 DEF First
    <3>2. \A m \in 0 .. N - 1 : From(0, m) = m
      BY <1>1 DEF From
    <3>3. j \in 0 .. len - 1 /\ j \in Slot /\ k \in Slot /\ j # writeIdx
      BY <1>1, <1>2, <1>6, <1>10, <2>1, <2>2, <2>4
    <3>4. ring'[j] = ring[j] /\ ring[j].put <= now
      BY <1>2, <1>4, <3>3
    <3>5. CASE k = writeIdx
      BY <1>4, <2>2, <3>1, <3>2, <3>3, <3>4, <3>5
    <3>6. CASE k # writeIdx
      <4>1. k \in 0 .. len - 1
        BY <1>2, <1>6, <1>10, <2>1, <2>4, <3>6
      <4>2. ring[j].put <= ring[k].put
        BY <2>1, <2>2, <2>3, <3>1, <3>2, <3>3, <4>1
      <4>3. QED
        BY <1>4, <2>2, <3>1, <3>2, <3>3, <3>4, <3>6, <4>2
    <3>7. QED
      BY <3>5, <3>6
  <2>5. CASE len = N
    <3>1. First = writeIdx /\ First' = writeIdx' /\ len' = N
      BY <1>1, <1>6, <2>5 DEF First
    <3>2. \A m \in 0 .. N - 1 :
            /\ From(writeIdx', m) \in Slot
            /\ IF m < N - 1
                 THEN From(writeIdx', m) = From(writeIdx, m + 1) /\ From(writeIdx, m + 1) # writeIdx
                 ELSE From(writeIdx', m) = writeIdx
      BY <1>1, <1>2, <1>5 DEF From
    <3>3. j < N - 1 /\ j + 1 \in 0 .. len - 1
      BY <1>1, <2>1, <2>2, <2>5
    <3>4. ring'[From(writeIdx', j)] = ring[From(writeIdx, j + 1)]
      BY <1>4, <2>2, <3>2, <3>3
    <3>5. CASE k < N - 1
      <4>1. ring'[From(writeIdx', k)] = ring[From(writeIdx, k + 1)]
        BY <1>4, <2>2, <3>2, <3>5
      <4>2. k + 1 \in 0 .. len - 1 /\ j + 1 < k + 1
        BY <1>1, <2>1, <2>2, <2>5, <3>5
      <4>3. QED
        BY <2>3, <3>1, <3>3, <3>4, <4>1, <4>2
    <3>6. CASE k = N - 1
      <4>1. ring'[From(writeIdx', k)] = e
        BY <1>4, <2>2, <3>2, <3>6
      <4>2. ring'[From(writeIdx', j)].put <= now
        BY <1>8, <2>2, <3>2
      <4>3. QED
        BY <3>1, <4>1, <4>2
    <3>7. QED
      BY <1>1, <2>2, <3>5, <3>6
  <2>6. QED
    BY <1>1, <1>2, <2>4, <2>5
<1>13. ring' \in [Slot -> Entry \cup {NoEntry}]
  BY <1>1, <1>2, <1>3
<1>14. QED
  BY <1>1, <1>4, <1>7, <1>8, <1>11, <1>12, <1>13

(* Entries that were there before, and at most one that had its reasons.    *)
LEMMA NewEntryHasReasons ==
  ASSUME IInv, NEW e,
         Entries' \subseteq Entries \cup {e}, e.since <= now, e.put = now,
         \A f \in Entries : Reason(e, f),
         \A r \in Reader : req'[r] = req[r] \/ req'[r] = NoReq
  PROVE  WorkHasReason' /\ MissesHaveReason'
<1>1. \A f \in Entries \cup {e} : f.since <= now => Reason(f, e)
  BY DEF Reason
<1>2. \A f \in Entries : f.since <= now
  BY EntriesAreSlots
<1>3. \A f, g \in Entries : Reason(f, g)
  BY DEF IInv, WorkHasReason
<1>4. \A f, g \in Entries \cup {e} : Reason(f, g)
  BY <1>1, <1>2, <1>3
<1>5. WorkHasReason'
  BY <1>4, Zenon DEF WorkHasReason, Reason
<1>6. \A r \in Reader : req[r].since <= now => Reason(req[r], e)
  BY DEF Reason
<1>7. \A r \in Reader : req[r].since <= now /\ Missed(req[r])
  BY DEF IInv, NoneFromTheFuture, MissesHaveReason
<1>8. \A r \in Reader : req[r].embedded => \A f \in Entries \cup {e} : Reason(req[r], f)
  BY <1>6, <1>7 DEF Missed
<1>9. ~NoReq.embedded
  BY DEF NoReq
<1>10. MissesHaveReason'
  BY <1>8, <1>9, Zenon DEF MissesHaveReason, Missed, Reason
<1>11. QED
  BY <1>5, <1>10

(* Entries that were there before.                                          *)
LEMMA OldEntriesHaveReasons ==
  ASSUME IInv, Entries' \subseteq Entries,
         \A r \in Reader : req'[r] = req[r] \/ req'[r] = NoReq
  PROVE  WorkHasReason' /\ MissesHaveReason'
<1>1. WorkHasReason'
  BY Zenon DEF IInv, WorkHasReason, Reason
<1>2. ~NoReq.embedded
  BY DEF NoReq
<1>3. MissesHaveReason'
  BY <1>2, Zenon DEF IInv, MissesHaveReason, Missed, Reason
<1>4. QED
  BY <1>1, <1>3

LEMMA PutStep == ASSUME IInv, NEW r \in Reader, Put(r) PROVE IInv'
<1> DEFINE q == req[r]
           e == [query |-> q.query, since |-> q.since, time |-> q.time, put |-> now]
<1>1. CacheTyped /\ RequestsTyped /\ ClockTyped /\ q \in ReqState
  BY TypeParts DEF Put, RequestsTyped
<1>2. q.query \in Query /\ q.time \in Time /\ q.since \in Time /\ now \in Time /\ now \in Nat
  BY <1>1, SizesPositive DEF ReqState, ClockTyped, Time
<1>3. e \in Entry
  BY <1>2 DEF Entry
<1>4. e.put = now /\ e.since = q.since /\ e.query = q.query
  OBVIOUS
<1>5. q.since <= now /\ Missed(q)
  BY DEF IInv, NoneFromTheFuture, MissesHaveReason
<1>6. /\ PutExact(q.query, q.time) /\ Goes(r, "idle", NoReq) /\ UNCHANGED <<now, sweep, rotated>>
      /\ IF q.embedded THEN PutRing(e) ELSE UNCHANGED <<ring, len, writeIdx>>
  BY Zenon DEF Put
<1> HIDE DEF e
<1>7. exactCache' \in [Query -> Time \cup {Never}] /\ ExactBounded'
  <2> HIDE DEF q
  <2>1. QED
    BY <1>2, <1>6, PutExactStep
<1>8. /\ \A x \in Reader : req'[x] = req[x] \/ req'[x] = NoReq
      /\ at' \in [Reader -> ReqPC] /\ req' \in [Reader -> ReqState \cup {NoReq}]
      /\ \A x \in Reader : at'[x] # "idle" => req'[x] \in ReqState
  BY <1>1, <1>6 DEF Goes, RequestsTyped, ReqPC
<1>9. RequestsTyped'
  BY <1>8 DEF RequestsTyped
<1>10. /\ ring' \in [Slot -> Entry \cup {NoEntry}]
       /\ len' \in 0 .. MaxSemanticSize /\ writeIdx' \in Slot
       /\ \A i \in Slot : ring'[i].put <= now /\ ring'[i].since <= now
       /\ ValidPrefix' /\ OrderedPairwise' /\ WorkHasReason' /\ MissesHaveReason'
  <2>1. CASE q.embedded
    <3>1. PutRing(e)
      BY <1>6, <2>1
    <3>2. /\ ring' \in [Slot -> Entry \cup {NoEntry}]
          /\ len' \in 0 .. MaxSemanticSize /\ writeIdx' \in Slot
          /\ \A i \in Slot : ring'[i].put <= now
          /\ \A i \in Slot : ring'[i] = ring[i] \/ ring'[i] = e
          /\ ValidPrefix' /\ OrderedPairwise'
      BY <1>3, <1>4, <1>6, <3>1, PutRingStep
    <3>3. \A i \in Slot : ring'[i].since <= now
      BY <1>4, <1>5, <3>2 DEF IInv, NoneFromTheFuture
    <3>4. \A f \in Entries : Reason(e, f)
      BY <1>4, <1>5, <2>1, Zenon DEF Missed, Reason
    <3>5. Entries' \subseteq Entries \cup {e}
      <4>1. SUFFICES ASSUME NEW i \in 0 .. len' - 1 PROVE ring'[i] \in Entries \cup {e}
        BY DEF Entries
      <4>2. i \in Slot /\ ring'[i] # NoEntry
        <5>1. i \in 0 .. MaxSemanticSize - 1 /\ i < len'
          <6>1. \A l \in 0 .. MaxSemanticSize :
                  \A x \in 0 .. l - 1 : x \in 0 .. MaxSemanticSize - 1 /\ x < l
            BY SizesPositive
          <6>2. QED
            BY <3>2, <4>1, <6>1
        <5>2. \A k \in Slot : ring'[k] # NoEntry <=> k < len'
          BY <3>2, Zenon DEF ValidPrefix
        <5>3. QED
          BY <5>1, <5>2 DEF Slot
      <4>3. CASE ring'[i] = ring[i]
        <5>1. i < len
          BY <4>2, <4>3 DEF IInv, ValidPrefix
        <5>2. i \in 0 .. len - 1
          <6>1. len \in Nat /\ i \in Nat
            BY <1>1, <4>2, SizesPositive DEF Slot, CacheTyped
          <6>2. QED
            BY <5>1, <6>1
        <5>3. QED
          BY <4>3, <5>2 DEF Entries
      <4>4. QED
        BY <3>2, <4>2, <4>3
    <3>6. WorkHasReason' /\ MissesHaveReason'
      BY <1>4, <1>5, <1>8, <3>4, <3>5, NewEntryHasReasons
    <3>7. QED
      BY <3>2, <3>3, <3>6
  <2>2. CASE ~q.embedded
    <3>1. UNCHANGED <<ring, len, writeIdx, rotated>>
      BY <1>6, <2>2
    <3>2. ring' \in [Slot -> Entry \cup {NoEntry}] /\ len' \in 0 .. MaxSemanticSize /\ writeIdx' \in Slot
      BY <1>1, <3>1 DEF CacheTyped
    <3>3. /\ \A i \in Slot : ring'[i].put <= now /\ ring'[i].since <= now
          /\ ValidPrefix' /\ OrderedPairwise'
      BY <3>1, Zenon DEF IInv, NoneFromTheFuture, ValidPrefix, OrderedPairwise, First
    <3>4. Entries' \subseteq Entries
      BY <3>1, Zenon DEF Entries
    <3>5. WorkHasReason' /\ MissesHaveReason'
      BY <1>8, <3>4, OldEntriesHaveReasons
    <3>6. QED
      BY <3>2, <3>3, <3>5
  <2>3. QED
    BY <2>1, <2>2
<1>11. NoneFromTheFuture'
  <2>1. \A x \in Reader : req[x].since <= now
    BY DEF IInv, NoneFromTheFuture
  <2>2. NoReq.since <= now
    BY <1>2 DEF NoReq
  <2>3. QED
    BY <1>6, <1>8, <1>10, <2>1, <2>2 DEF NoneFromTheFuture
<1>12. CacheTyped' /\ ClockTyped'
  <2>1. rotated' \in BOOLEAN
    BY <1>1, <1>6, Zenon DEF CacheTyped
  <2>2. QED
    BY <1>1, <1>6, <1>7, <1>10, <2>1 DEF CacheTyped, ClockTyped
<1>13. QED
  BY <1>7, <1>9, <1>10, <1>11, <1>12, Zenon
     DEF IInv, TypeOK, CacheTyped, RequestsTyped, ClockTyped, ExactBounded, ExactSize

-----------------------------------------------------------------------------
(* What compaction leaves: the kept entries, as a prefix and in order.      *)
LEMMA CompactStep ==
  ASSUME IInv, NEW Kept \in SUBSET (0 .. len - 1), Compact(Kept), now' = now
  PROVE  /\ ring' \in [Slot -> Entry \cup {NoEntry}]
         /\ len' \in 0 .. MaxSemanticSize /\ writeIdx' \in Slot /\ rotated' \in BOOLEAN
         /\ \A i \in Slot : ring'[i] = NoEntry \/ \E k \in Slot : ring'[i] = ring[k]
         /\ Entries' \subseteq Entries
         /\ \A i \in Kept : \E k \in Slot : ring'[k] = ring[i]
         /\ ValidPrefix' /\ OrderedPairwise'
<1> DEFINE N == MaxSemanticSize
<1>1. N \in Nat /\ N > 0 /\ Slot = 0 .. N - 1
  BY SizesPositive DEF Slot
<1>2. /\ ring \in [Slot -> Entry \cup {NoEntry}] /\ len \in 0 .. N /\ writeIdx \in 0 .. N - 1
      /\ \A i \in Slot : ring[i].put <= now
      /\ now \in 0 .. MaxTime
  BY <1>1, TypeParts DEF IInv, CacheTyped, ClockTyped, Time, NoneFromTheFuture
<1>3. PICK c : c = Cardinality(Kept)
  OBVIOUS
<1>4. c \in 0 .. len
  BY <1>2, <1>3, PlaceInRange
<1>5. /\ \A p \in 0 .. c - 1 : SlotFor(Kept, p) \in Kept
      /\ \A p, q \in 0 .. c - 1 : p < q => SlotFor(Kept, p) < SlotFor(Kept, q)
      /\ \A i \in Kept : \E p \in 0 .. c - 1 : SlotFor(Kept, p) = i
  <2>1. len \in Nat /\ Kept \in SUBSET (0 .. len - 1)
    BY <1>2
  <2>2. /\ \A p \in 0 .. Cardinality(Kept) - 1 : SlotFor(Kept, p) \in Kept
        /\ \A p, q \in 0 .. Cardinality(Kept) - 1 : p < q => SlotFor(Kept, p) < SlotFor(Kept, q)
        /\ \A i \in Kept : \E p \in 0 .. Cardinality(Kept) - 1 : SlotFor(Kept, p) = i
    BY <2>1, SlotsMoveDown, Zenon
  <2>3. QED
    BY <1>3, <2>2
<1>6. /\ ring' = [p \in Slot |-> IF p < c THEN ring[SlotFor(Kept, p)] ELSE NoEntry]
      /\ len' = c /\ writeIdx' = c % N
  BY <1>3 DEF Compact
<1>7. c \in 0 .. N /\ \A i \in Kept : i \in 0 .. len - 1 /\ i \in Slot
  BY <1>1, <1>2, <1>4
<1>8. c % N = IF c < N THEN c ELSE 0
  <2>1. c \in 0 .. N + N - 1 /\ N \in Nat \ {0}
    BY <1>1, <1>7
  <2>2. c % N = IF c < N THEN c ELSE c - N
    BY <2>1, Remainder
  <2>3. QED
    BY <1>1, <1>7, <2>2
<1>9. len' \in 0 .. N /\ writeIdx' \in 0 .. N - 1
  BY <1>1, <1>6, <1>7, <1>8
<1>10. \A p \in Slot : p < c => p \in 0 .. c - 1
  BY <1>1, <1>7
<1>11. \A p \in Slot : IF p < c THEN SlotFor(Kept, p) \in Slot /\ ring'[p] = ring[SlotFor(Kept, p)]
                                ELSE ring'[p] = NoEntry
  BY <1>5, <1>6, <1>7, <1>10
<1>12. ring' \in [Slot -> Entry \cup {NoEntry}]
  BY <1>2, <1>5, <1>6, <1>7, <1>10
<1>13. /\ \A i \in Slot : ring'[i] = NoEntry \/ \E k \in Slot : ring'[i] = ring[k]
       /\ Entries' \subseteq Entries
  <2>1. \A p \in 0 .. c - 1 : p \in Slot /\ p < c
    BY <1>1, <1>7
  <2>2. \A p \in 0 .. c - 1 : ring'[p] \in Entries
    BY <1>5, <1>7, <1>11, <2>1 DEF Entries
  <2>3. Entries' \subseteq Entries
    BY <1>6, <2>2 DEF Entries
  <2>4. QED
    BY <1>11, <2>3
<1>14. \A i \in Kept : \E k \in Slot : ring'[k] = ring[i]
  <2>1. \A p \in 0 .. c - 1 : p \in Slot /\ p < c
    BY <1>1, <1>7
  <2>2. QED
    BY <1>5, <1>11, <2>1
<1>15. ValidPrefix'
  <2>1. \A i \in Slot : ring[i] # NoEntry <=> i < len
    BY DEF IInv, ValidPrefix
  <2>2. \A i \in Kept : ring[i] # NoEntry
    BY <1>2, <1>7, <2>1
  <2>3. \A p \in Slot : ring'[p] # NoEntry <=> p < c
    BY <1>5, <1>10, <1>11, <2>2
  <2>4. len' < N => writeIdx' = len'
    BY <1>6, <1>8
  <2>5. QED
    BY <1>6, <2>3, <2>4 DEF ValidPrefix
<1>16. rotated' \in BOOLEAN /\ (rotated' = FALSE => Kept = {} \/ (~rotated /\ ~(len = N /\ writeIdx # 0)))
  BY Zenon DEF Compact
<1>17. OrderedPairwise'
  <2>1. CASE rotated'
    BY <2>1 DEF OrderedPairwise
  <2>2. CASE Kept = {}
    <3>1. c = 0
      BY <1>3, <2>2, FS_EmptySet
    <3>2. 0 .. len' - 1 = {}
      BY <1>6, <3>1
    <3>3. QED
      BY <3>2, Zenon DEF OrderedPairwise
  <2>3. CASE ~rotated /\ ~(len = N /\ writeIdx # 0)
    <3>1. First = 0 /\ First' = 0
      BY <1>6, <1>8, <2>3 DEF First
    <3>2. \A m \in 0 .. N - 1 : From(0, m) = m
      BY <1>1 DEF From
    <3>3. \A j, k \in 0 .. len - 1 : j < k => ring[From(0, j)].put <= ring[From(0, k)].put
      BY <2>3, <3>1, Zenon DEF IInv, OrderedPairwise
    <3>4. \A j, k \in Kept : j < k => ring[j].put <= ring[k].put
      BY <1>1, <1>7, <3>2, <3>3
    <3>5. ASSUME NEW j \in 0 .. c - 1, NEW k \in 0 .. c - 1, j < k
          PROVE  ring'[From(0, j)].put <= ring'[From(0, k)].put
      <4>1. j \in Slot /\ k \in Slot /\ j < c /\ k < c
        BY <1>1, <1>7
      <4>2. ring'[j] = ring[SlotFor(Kept, j)] /\ ring'[k] = ring[SlotFor(Kept, k)]
        BY <1>11, <4>1
      <4>3. ring[SlotFor(Kept, j)].put <= ring[SlotFor(Kept, k)].put
        BY <1>5, <3>4, <3>5
      <4>4. From(0, j) = j /\ From(0, k) = k
        BY <1>1, <3>2, <4>1
      <4>5. QED
        BY <4>2, <4>3, <4>4
    <3>6. 0 .. len' - 1 = 0 .. c - 1
      BY <1>6
    <3>7. QED
      BY <3>1, <3>5, <3>6, Zenon DEF OrderedPairwise
  <2>4. QED
    BY <1>16, <2>1, <2>2, <2>3, Zenon
<1>18. QED
  BY <1>1, <1>9, <1>12, <1>13, <1>14, <1>15, <1>16, <1>17, Zenon

(* Steps that empty places of the exact level and compact the ring.         *)
LEMMA EvictStep ==
  ASSUME IInv, NEW Gone, NEW Kept \in SUBSET (0 .. len - 1), Compact(Kept),
         exactCache' = [q \in Query |-> IF q \in Gone THEN Never ELSE exactCache[q]],
         UNCHANGED <<now, requests>>, sweep' \in {sweep, Never}
  PROVE  IInv'
<1>1. CacheTyped /\ RequestsTyped /\ ClockTyped
  BY TypeParts
<1>2. now' = now /\ at' = at /\ req' = req
  BY DEF requests
<1>3. /\ ring' \in [Slot -> Entry \cup {NoEntry}]
      /\ len' \in 0 .. MaxSemanticSize /\ writeIdx' \in Slot /\ rotated' \in BOOLEAN
      /\ \A i \in Slot : ring'[i] = NoEntry \/ \E k \in Slot : ring'[i] = ring[k]
      /\ Entries' \subseteq Entries
      /\ ValidPrefix' /\ OrderedPairwise'
  BY <1>2, CompactStep
<1>4. exactCache' \in [Query -> Time \cup {Never}]
  BY <1>1 DEF CacheTyped
<1>5. ExactBounded'
  <2>1. Held' \subseteq Held
    BY DEF Held
  <2>2. QED
    BY <2>1, ExactShrinks
<1>6. NoneFromTheFuture'
  <2>1. NoEntry.put <= now /\ NoEntry.since <= now
    BY <1>1, SizesPositive DEF ClockTyped, Time, NoEntry
  <2>2. QED
    BY <1>2, <1>3, <2>1 DEF IInv, NoneFromTheFuture
<1>7. WorkHasReason' /\ MissesHaveReason'
  BY <1>2, <1>3, OldEntriesHaveReasons
<1>8. CacheTyped' /\ RequestsTyped' /\ ClockTyped'
  BY <1>1, <1>2, <1>3, <1>4, Zenon DEF CacheTyped, RequestsTyped, ClockTyped
<1>9. QED
  BY <1>3, <1>5, <1>6, <1>7, <1>8, Zenon
     DEF IInv, TypeOK, CacheTyped, RequestsTyped, ClockTyped, ExactBounded, ExactSize

LEMMA InvalidateStep == ASSUME IInv, Invalidate PROVE IInv'
<1>1. CacheTyped /\ RequestsTyped /\ ClockTyped
  BY TypeParts
<1>2. /\ exactCache' = [q \in Query |-> Never]
      /\ ring' = [i \in Slot |-> NoEntry] /\ len' = 0 /\ writeIdx' = 0
      /\ UNCHANGED <<now, at, req, sweep>>
  BY DEF Invalidate, requests
<1>3. CacheTyped'
  <2>1. rotated' \in BOOLEAN
    BY Zenon DEF Invalidate
  <2>2. QED
    BY <1>2, <2>1, SizesPositive DEF CacheTyped, Slot
<1>4. RequestsTyped' /\ ClockTyped'
  BY <1>1, <1>2, Zenon DEF RequestsTyped, ClockTyped
<1>5. ExactBounded'
  <2>1. Held' \subseteq Held
    BY <1>2 DEF Held
  <2>2. QED
    BY <2>1, ExactShrinks
<1>6. NoneFromTheFuture'
  <2>1. NoEntry.put <= now /\ NoEntry.since <= now
    BY <1>1, SizesPositive DEF ClockTyped, Time, NoEntry
  <2>2. QED
    BY <1>2, <2>1 DEF IInv, NoneFromTheFuture
<1>7. 0 .. len' - 1 = {}
  BY <1>2
<1>8. ValidPrefix'
  BY <1>2, SizesPositive DEF ValidPrefix, Slot
<1>9. OrderedPairwise'
  BY <1>7, Zenon DEF OrderedPairwise
<1>10. Entries' \subseteq Entries
  BY <1>7, Zenon DEF Entries
<1>11. WorkHasReason' /\ MissesHaveReason'
  BY <1>2, <1>10, OldEntriesHaveReasons
<1>12. QED
  BY <1>3, <1>4, <1>5, <1>6, <1>8, <1>9, <1>11, Zenon
     DEF IInv, TypeOK, CacheTyped, RequestsTyped, ClockTyped, ExactBounded, ExactSize

LEMMA SweepStep == ASSUME IInv, Sweep PROVE IInv'
<1> DEFINE Gone == {q \in Query : sweep > exactCache[q] + ExactTTL}
           Kept == {i \in 0 .. len - 1 : sweep < ring[i].time + SemanticTTL}
<1>1. exactCache' = [q \in Query |-> IF q \in Gone THEN Never ELSE exactCache[q]]
  BY DEF Sweep
<1>2. /\ Kept \in SUBSET (0 .. len - 1) /\ Compact(Kept)
      /\ UNCHANGED <<now, requests>> /\ sweep' \in {sweep, Never}
  BY Zenon DEF Sweep
<1>3. QED
  <2> HIDE DEF Gone, Kept
  <2>1. QED
    BY <1>1, <1>2, EvictStep

LEMMA TopicStep == ASSUME IInv, NEW T, InvalidateByTopics(T) PROVE IInv'
<1> DEFINE Gone == {q \in Query : ShouldEvict(q, T)}
           Kept == {i \in 0 .. len - 1 : ~ShouldEvict(ring[i].query, T)}
<1>1. exactCache' = [q \in Query |-> IF q \in Gone THEN Never ELSE exactCache[q]]
  BY DEF InvalidateByTopics
<1>2. /\ Kept \in SUBSET (0 .. len - 1) /\ Compact(Kept)
      /\ UNCHANGED <<now, requests>> /\ sweep' \in {sweep, Never}
  BY Zenon DEF InvalidateByTopics
<1>3. QED
  <2> HIDE DEF Gone, Kept
  <2>1. QED
    BY <1>1, <1>2, EvictStep

LEMMA StutterStep == ASSUME IInv, UNCHANGED vars PROVE IInv'
<1>1. UNCHANGED <<exactCache, ring, len, writeIdx, rotated, now, at, req, sweep>>
  BY DEF vars, cacheVars, requests
<1>2. TypeOK'
  BY <1>1, Zenon DEF IInv, TypeOK, ExactSize, Held
<1>3. ExactBounded'
  BY <1>1, Zenon DEF IInv, ExactBounded, Held
<1>4. \A r \in Reader : at'[r] # "idle" => req'[r] \in ReqState
  BY <1>1, Zenon DEF IInv
<1>5. NoneFromTheFuture' /\ ValidPrefix'
  BY <1>1, Zenon DEF IInv, NoneFromTheFuture, ValidPrefix
<1>6. OrderedPairwise'
  BY <1>1, Zenon DEF IInv, OrderedPairwise, First
<1>7. MissesHaveReason' /\ WorkHasReason'
  BY <1>1, Zenon DEF IInv, MissesHaveReason, Missed, WorkHasReason, Entries
<1>8. QED
  BY <1>2, <1>3, <1>4, <1>5, <1>6, <1>7 DEF IInv

LEMMA NextIInv == IInv /\ [Next]_vars => IInv'
<1> SUFFICES ASSUME IInv, [Next]_vars PROVE IInv'
  OBVIOUS
<1>1. CASE UNCHANGED vars
  BY <1>1, StutterStep
<1>2. CASE \E r \in Reader : RequestStep(r)
  BY <1>2, RequestLooks, PutStep DEF RequestStep
<1>3. CASE Invalidate
  BY <1>3, InvalidateStep
<1>4. CASE Tick \/ evictExpired
  BY <1>4, ClockStep
<1>5. CASE Sweep
  BY <1>5, SweepStep
<1>6. CASE \E t \in Topics : InvalidateByTopics({t})
  BY <1>6, TopicStep
<1>7. QED
  BY <1>1, <1>2, <1>3, <1>4, <1>5, <1>6, Zenon DEF Next

LEMMA Invariance == Spec => []IInv
BY InitIInv, NextIInv, PTL DEF Spec

-----------------------------------------------------------------------------
(* Types and the bounds of both levels: neither ever holds more entries     *)
(* than its size, whatever is stored, evicted and invalidated.              *)
THEOREM TypeCorrect == Spec => []TypeOK
<1>1. IInv => TypeOK
  BY DEF IInv
<1>2. QED
  BY <1>1, Invariance, PTL

(* The slots in use are the first ones and the cursor is the first free one *)
(* until the ring is full, also after compaction and invalidation.          *)
THEOREM SlotsAreAPrefix == Spec => []ValidPrefix
<1>1. IInv => ValidPrefix
  BY DEF IInv
<1>2. QED
  BY <1>1, Invariance, PTL

(* Unless a full ring was compacted while its cursor was not at slot 0, the *)
(* next Set overwrites the entry that was put into the ring first.          *)
THEOREM FirstInIsNext == Spec => []RingInPutOrder
<1>1. ASSUME IInv PROVE RingInPutOrder
  <2>1. /\ MaxSemanticSize \in Nat /\ MaxSemanticSize > 0
        /\ len \in 0 .. MaxSemanticSize /\ writeIdx \in 0 .. MaxSemanticSize - 1
    BY <1>1, SizesPositive, TypeParts DEF IInv, CacheTyped, Slot
  <2>2. First \in 0 .. MaxSemanticSize - 1
    BY <2>1 DEF First
  <2>3. \A k \in 0 .. len - 1 : From(First, k) = (First + k) % MaxSemanticSize
    <3>1. TAKE k \in 0 .. len - 1
    <3>2. PICK m : m = First + k
      OBVIOUS
    <3>3. m \in 0 .. MaxSemanticSize + MaxSemanticSize - 1 /\ MaxSemanticSize \in Nat \ {0}
      BY <2>1, <2>2, <3>2
    <3>4. m % MaxSemanticSize = IF m < MaxSemanticSize THEN m ELSE m - MaxSemanticSize
      BY <3>3, Remainder
    <3>5. From(First, k) = IF m < MaxSemanticSize THEN m ELSE m - MaxSemanticSize
      BY <2>1, <2>2, <3>2, <3>3 DEF From
    <3>6. QED
      BY <3>2, <3>4, <3>5
  <2>4. CASE rotated
    BY <2>4, Zenon DEF RingInPutOrder
  <2>5. CASE ~rotated
    <3>1. \A j, k \in 0 .. len - 1 : j < k => ring[From(First, j)].put <= ring[From(First, k)].put
      BY <1>1, <2>5, Zenon DEF IInv, OrderedPairwise
    <3>2. ASSUME NEW k \in 1 .. len - 1
          PROVE  ring[(First + (k - 1)) % MaxSemanticSize].put <= ring[(First + k) % MaxSemanticSize].put
      <4>1. k - 1 \in 0 .. len - 1 /\ k \in 0 .. len - 1 /\ k - 1 < k
        BY <2>1
      <4>2. ring[From(First, k - 1)].put <= ring[From(First, k)].put
        BY <3>1, <4>1
      <4>3. /\ From(First, k - 1) = (First + (k - 1)) % MaxSemanticSize
            /\ From(First, k) = (First + k) % MaxSemanticSize
        BY <2>3, <4>1, Zenon
      <4>4. QED
        BY <4>2, <4>3, Zenon
    <3>3. QED
      BY <3>2, Zenon DEF RingInPutOrder, First
  <2>6. QED
    BY <2>4, <2>5
<1>2. QED
  BY <1>1, Invariance, PTL

(* An entry in the ring that is alive answers each alike request that comes *)
(* after it was put there: no two alike entries of the ring are there       *)
(* without the second request having begun before the first was put, or     *)
(* after its end.                                                           *)
THEOREM WorkIsNotRepeated == Spec => []NoNeedlessWork
<1>1. IInv => NoNeedlessWork
  BY SlotsAndEntries DEF IInv
<1>2. QED
  BY <1>1, Invariance, PTL

-----------------------------------------------------------------------------
(* What a step other than an invalidation may take out of each level.       *)
RingLosesOldOnly ==
  \A i \in 0 .. len - 1 :
    \/ \E k \in Slot : ring'[k] = ring[i]
    \/ now >= ring[i].time + SemanticTTL
    \/ /\ len = MaxSemanticSize /\ len' = len
       /\ rotated \/ \A k \in Slot : ring[i].put <= ring[k].put

ExactLosesOldOnly ==
  \A q \in Held :
    \/ exactCache'[q] # Never
    \/ now > exactCache[q] + ExactTTL
    \/ /\ ExactSize = MaxExactSize
       /\ \A p \in Held : exactCache[q] <= exactCache[p]

LEMMA KeptLosesNothing ==
  ASSUME IInv, UNCHANGED cacheVars
  PROVE  RingLosesOldOnly /\ ExactLosesOldOnly
BY EntriesAreSlots DEF RingLosesOldOnly, ExactLosesOldOnly, cacheVars, Held

(* The slot the cursor names in a full ring is the one that was filled first.*)
LEMMA CursorIsFirst ==
  ASSUME IInv, len = MaxSemanticSize, ~rotated, NEW k \in Slot
  PROVE  ring[writeIdx].put <= ring[k].put
<1> DEFINE N == MaxSemanticSize
<1>1. N \in Nat /\ N > 0 /\ k \in 0 .. N - 1 /\ writeIdx \in 0 .. N - 1
  BY SizesPositive, TypeParts DEF CacheTyped, Slot
<1>2. First = writeIdx
  BY DEF First
<1>3. \A i, j \in 0 .. N - 1 : i < j => ring[From(writeIdx, i)].put <= ring[From(writeIdx, j)].put
  BY <1>2, Zenon DEF IInv, OrderedPairwise
<1>4. PICK j \in 0 .. N - 1 : From(writeIdx, j) = k
  <2>1. CASE k >= writeIdx
    <3>1. k - writeIdx \in 0 .. N - 1 /\ From(writeIdx, k - writeIdx) = k
      BY <1>1, <2>1 DEF From
    <3>2. QED
      BY <3>1
  <2>2. CASE k < writeIdx
    <3>1. k + N - writeIdx \in 0 .. N - 1 /\ From(writeIdx, k + N - writeIdx) = k
      BY <1>1, <2>2 DEF From
    <3>2. QED
      BY <3>1
  <2>3. QED
    BY <1>1, <2>1, <2>2
<1>5. From(writeIdx, 0) = writeIdx /\ 0 \in 0 .. N - 1
  BY <1>1 DEF From
<1>6. CASE j = 0
  <2>1. ring[k] \in Entry \cup {NoEntry}
    BY TypeParts DEF CacheTyped
  <2>2. ring[k].put \in Nat
    BY <2>1, EntryParts
  <2>3. QED
    BY <1>4, <1>5, <1>6, <2>2
<1>7. CASE j # 0
  BY <1>1, <1>3, <1>4, <1>5, <1>7
<1>8. QED
  BY <1>6, <1>7

LEMMA PutLosesFirst ==
  ASSUME IInv, NEW r \in Reader, Put(r)
  PROVE  RingLosesOldOnly /\ ExactLosesOldOnly
<1>1. CacheTyped /\ RequestsTyped /\ ClockTyped /\ req[r] \in ReqState
  BY TypeParts DEF Put, RequestsTyped
<1>2. RingLosesOldOnly
  <2>1. CASE UNCHANGED <<ring, len, writeIdx>>
    BY <2>1, EntriesAreSlots DEF RingLosesOldOnly
  <2>2. ASSUME NEW e, PutRing(e) PROVE RingLosesOldOnly
    <3>1. /\ \A i \in Slot : i # writeIdx => ring'[i] = ring[i]
          /\ len' = IF len < MaxSemanticSize THEN len + 1 ELSE len
      BY <1>1, <2>2 DEF PutRing, CacheTyped
    <3>2. ASSUME NEW i \in 0 .. len - 1, i = writeIdx
          PROVE  len = MaxSemanticSize /\ len' = len
      <4>1. len < MaxSemanticSize => writeIdx = len
        BY DEF IInv, ValidPrefix
      <4>2. len \in 0 .. MaxSemanticSize
        BY <1>1 DEF CacheTyped
      <4>3. QED
        BY <3>1, <3>2, <4>1, <4>2, SizesPositive
    <3>3. ASSUME NEW i \in 0 .. len - 1
          PROVE  \/ \E k \in Slot : ring'[k] = ring[i]
                 \/ /\ len = MaxSemanticSize /\ len' = len
                    /\ rotated \/ \A k \in Slot : ring[i].put <= ring[k].put
      <4>1. CASE i # writeIdx
        BY <3>1, <4>1, EntriesAreSlots
      <4>2. CASE i = writeIdx
        BY <3>2, <4>2, CursorIsFirst, Zenon
      <4>3. QED
        BY <4>1, <4>2
    <3>4. QED
      BY <3>3, Zenon DEF RingLosesOldOnly
  <2>3. QED
    BY <2>1, <2>2, Zenon DEF Put
<1>3. ExactLosesOldOnly
  <2>1. /\ ExactSize = Cardinality(Held) /\ IsFiniteSet(Held)
        /\ Cardinality(Held) <= MaxExactSize /\ MaxExactSize \in Nat
    BY SizesPositive DEF IInv, ExactBounded, ExactSize
  <2>2. Cardinality(Held) \in Nat
    BY <2>1, FS_CardinalityType
  <2>3. ExactSize >= MaxExactSize => ExactSize = MaxExactSize
    BY <2>1, <2>2
  <2>4. req[r].query \in Query /\ req[r].time \in Time
    BY <1>1 DEF ReqState
  <2>5. PutExact(req[r].query, req[r].time)
    BY Zenon DEF Put
  <2>6. \A x \in Held : exactCache'[x] = Never =>
          /\ ExactSize >= MaxExactSize
          /\ \A p \in Held : exactCache[x] <= exactCache[p]
    BY <2>4, <2>5, PutExactStep
  <2>7. QED
    BY <2>3, <2>6, Zenon DEF ExactLosesOldOnly
<1>4. QED
  BY <1>2, <1>3

LEMMA SweepLosesExpired ==
  ASSUME IInv, Sweep, sweep <= now
  PROVE  RingLosesOldOnly /\ ExactLosesOldOnly
<1>1. CacheTyped /\ now \in Nat /\ sweep \in Nat /\ now' = now
  BY TypeParts, EntryParts DEF ClockTyped, Sweep
<1>2. RingLosesOldOnly
  <2> DEFINE Kept == {i \in 0 .. len - 1 : sweep < ring[i].time + SemanticTTL}
  <2>1. Kept \in SUBSET (0 .. len - 1) /\ Compact(Kept)
    BY Zenon DEF Sweep
  <2>2. \A i \in Kept : \E k \in Slot : ring'[k] = ring[i]
    <3> HIDE DEF Kept
    <3>1. QED
      BY <1>1, <2>1, CompactStep
  <2>3. \A i \in 0 .. len - 1 : ring[i].time \in Nat
    BY EntriesAreSlots DEF Entries
  <2>4. \A i \in 0 .. len - 1 : i \in Kept \/ now >= ring[i].time + SemanticTTL
    BY <1>1, <2>3, SizesPositive
  <2>5. QED
    <3> HIDE DEF Kept
    <3>1. QED
      BY <2>2, <2>4 DEF RingLosesOldOnly
<1>3. ExactLosesOldOnly
  <2>1. ASSUME NEW q \in Held, exactCache'[q] = Never
        PROVE  now > exactCache[q] + ExactTTL
    <3>1. q \in Query /\ exactCache[q] # Never /\ exactCache[q] \in Time
      BY <1>1 DEF Held, CacheTyped
    <3>2. sweep > exactCache[q] + ExactTTL
      BY <2>1, <3>1 DEF Sweep
    <3>3. exactCache[q] \in Nat
      BY <3>1, EntryParts
    <3>4. QED
      BY <1>1, <3>2, <3>3, SizesPositive
  <2>2. QED
    BY <2>1 DEF ExactLosesOldOnly
<1>4. QED
  BY <1>2, <1>3

(* The time of a pass is not in the future either.                          *)
SweepInPast == sweep <= now

LEMMA SweepIsPast == Spec => []SweepInPast
<1>1. Init => SweepInPast
  BY DEF Init, Never, SweepInPast
<1>2. IInv /\ SweepInPast /\ [Next]_vars => SweepInPast'
  <2> SUFFICES ASSUME IInv, sweep <= now, [Next]_vars PROVE sweep' <= now'
    BY DEF SweepInPast
  <2>1. now \in Nat /\ sweep \in Int /\ Never <= now
    BY TypeParts, EntryParts DEF ClockTyped, Never
  <2>2. CASE Tick \/ evictExpired \/ Sweep
    BY <2>1, <2>2 DEF Tick, evictExpired, Sweep
  <2>3. CASE UNCHANGED <<now, sweep>>
    BY <2>3
  <2>4. CASE \E r \in Reader : RequestStep(r)
    BY <2>3, <2>4 DEF RequestStep, Get, GetExact, Embed, EmbedFails, GetSemantic, Misses,
                      ComposeFails, Set, Put, OnlyLooks
  <2>5. CASE Invalidate \/ (\E t \in Topics : InvalidateByTopics({t})) \/ UNCHANGED vars
    BY <2>3, <2>5 DEF Invalidate, InvalidateByTopics, vars
  <2>6. QED
    BY <2>2, <2>4, <2>5 DEF Next
<1>3. QED
  BY <1>1, <1>2, Invariance, PTL DEF Spec

(* Nothing leaves the cache before its time but by an invalidation or for   *)
(* want of room; then the ring gives up what was put there first, unless it *)
(* was compacted while rotated, and the exact level one of the earliest     *)
(* time it holds.                                                           *)
THEOREM NothingLeavesEarly == Spec => NothingLostEarly
<1>1. ASSUME IInv, sweep <= now, [Next]_vars
      PROVE  \/ UNCHANGED vars \/ Invalidate
             \/ \E t \in Topics : InvalidateByTopics({t})
             \/ RingLosesOldOnly /\ ExactLosesOldOnly
  <2>1. CASE UNCHANGED cacheVars
    BY <1>1, <2>1, KeptLosesNothing
  <2>2. ASSUME NEW r \in Reader, RequestStep(r) PROVE RingLosesOldOnly /\ ExactLosesOldOnly
    <3>1. UNCHANGED cacheVars \/ Put(r)
      BY <2>2 DEF RequestStep, Get, GetExact, Embed, EmbedFails, GetSemantic, Misses,
                  ComposeFails, Set, OnlyLooks
    <3>2. QED
      BY <1>1, <3>1, KeptLosesNothing, PutLosesFirst
  <2>3. CASE Sweep
    BY <1>1, <2>3, SweepLosesExpired
  <2>4. CASE Tick \/ evictExpired
    BY <2>1, <2>4 DEF Tick, evictExpired
  <2>5. QED
    BY <1>1, <2>2, <2>3, <2>4, Zenon DEF Next
<1>2. IInv /\ SweepInPast /\ [Next]_vars =>
        [\/ Invalidate
         \/ \E t \in Topics : InvalidateByTopics({t})
         \/ /\ \A i \in 0 .. len - 1 :
                 \/ \E k \in Slot : ring'[k] = ring[i]
                 \/ now >= ring[i].time + SemanticTTL
                 \/ /\ len = MaxSemanticSize /\ len' = len
                    /\ rotated \/ \A k \in Slot : ring[i].put <= ring[k].put
            /\ \A q \in Held :
                 \/ exactCache'[q] # Never
                 \/ now > exactCache[q] + ExactTTL
                 \/ /\ ExactSize = MaxExactSize
                    /\ \A p \in Held : exactCache[q] <= exactCache[p]]_vars
  BY <1>1, Zenon DEF SweepInPast, RingLosesOldOnly, ExactLosesOldOnly
<1>3. QED
  BY <1>2, Invariance, SweepIsPast, PTL DEF Spec, NothingLostEarly
=============================================================================
