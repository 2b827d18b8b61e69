--------------------------- MODULE QueryCacheRing ---------------------------
(***************************************************************************)
(* What the query cache keeps (internal/cache/query.go): a map of bounded  *)
(* size for exact matches and a ring buffer of bounded size for semantic   *)
(* ones, each with a time to live, under one lock.  Get takes the lock     *)
(* twice, around the call that embeds the query; a request that misses     *)
(* calls Set when it has composed its answer.  A background pass drops     *)
(* what has expired and compacts the ring.  Get, Set and the pass all read *)
(* the clock before they ask for the lock, so they may come to the cache   *)
(* in another order than that of their times.                              *)
(*                                                                         *)
(* A query is what normalize makes of it.  How alike two embeddings are is *)
(* a number given by the constant Similarity.  ProfileCache is about the   *)
(* profile an entry was made from, and lets entries vanish at any time;    *)
(* this module leaves out their versions and is about which ones vanish.   *)
(***************************************************************************)
EXTENDS Integers, FiniteSets

CONSTANTS
  Query,            \* normalized queries, the keys of exactCache; {} is none
  Similarity,       \* [Query \X Query -> Nat]: dot products of the embeddings
  SemThreshold,     \* semThreshold
  TopicsOf,         \* [Query -> set of topics] the entries of a query carry
  Reader,           \* concurrent requests
  MaxExactSize,     \* 10000
  MaxSemanticSize,  \* 5000
  ExactTTL, SemanticTTL,
  MaxTime           \* bound: the clock stops here

ASSUME RingAssumption ==
  /\ {} \notin Query
  /\ Similarity \in [Query \X Query -> Nat]
  /\ MaxExactSize \in Nat \ {0} /\ MaxSemanticSize \in Nat \ {0}
  /\ ExactTTL \in Nat /\ SemanticTTL \in Nat /\ SemThreshold \in Nat
  /\ MaxTime \in Nat

VARIABLES
  exactCache,       \* CachedAt of a query's entry, or Never
  ring,             \* semanticCache
  len, writeIdx,    \* semanticLen, semanticWriteIdx
  now,
  at,               \* where a request is
  req,              \* its query, and the times Get and Set have read
  sweep,            \* the time the pass has read, or Never between passes
  rotated           \* history: a full ring was compacted while its first
                    \* entry was not in its first slot

cacheVars == <<exactCache, ring, len, writeIdx, rotated>>
requests == <<at, req>>
vars == <<cacheVars, now, requests, sweep>>

Never == -1
Time == 0 .. MaxTime
Slot == 0 .. MaxSemanticSize - 1

(* time is CachedAt.  History: when the request that made the entry called  *)
(* Get, and when the entry went into the ring.                              *)
Entry == [query : Query, since : Time, time : Time, put : Time]
NoEntry == [query |-> {}, since |-> 0, time |-> 0, put |-> 0]

(* "exact" and "semantic": about to take the lock for that level; "compose":*)
(* missed; "put": Set has read the clock.                                   *)
ReqPC == {"idle", "exact", "embed", "semantic", "compose", "put"}
ReqState == [query : Query, since : Time, embedded : BOOLEAN, time : Time]
NoReq == [query |-> {}, since |-> 0, embedded |-> FALSE, time |-> 0]

Held == {q \in Query : exactCache[q] # Never}
ExactSize == Cardinality(Held)

(* The type of the state, with the bounds of both levels. *)
TypeOK ==
  /\ exactCache \in [Query -> Time \cup {Never}]
  /\ ExactSize <= MaxExactSize
  /\ ring \in [Slot -> Entry \cup {NoEntry}]
  /\ len \in 0 .. MaxSemanticSize /\ writeIdx \in Slot
  /\ now \in Time
  /\ at \in [Reader -> ReqPC]
  /\ req \in [Reader -> ReqState \cup {NoReq}]
  /\ sweep \in Time \cup {Never}
  /\ rotated \in BOOLEAN

Init ==
  /\ exactCache = [q \in Query |-> Never]
  /\ ring = [i \in Slot |-> NoEntry]
  /\ len = 0 /\ writeIdx = 0
  /\ now = 0
  /\ at = [r \in Reader |-> "idle"]
  /\ req = [r \in Reader |-> NoReq]
  /\ sweep = Never
  /\ rotated = FALSE

-----------------------------------------------------------------------------
(* Get *)

(* Request r is at p from now on, with what q knows. *)
Goes(r, p, q) == at' = [at EXCEPT ![r] = p] /\ req' = [req EXCEPT ![r] = q]

OnlyLooks == UNCHANGED <<cacheVars, now, sweep>>

(* The clock is read once, before the first lock. *)
Get(r, q) ==
  /\ at[r] = "idle"
  /\ Goes(r, "exact", [query |-> q, since |-> now, embedded |-> FALSE, time |-> 0])
  /\ OnlyLooks

(* now.Before(CachedAt + exactTTL) *)
ServesExact(r) ==
  LET t == exactCache[req[r].query] IN t # Never /\ req[r].since < t + ExactTTL

GetExact(r) ==
  /\ at[r] = "exact"
  /\ IF ServesExact(r) THEN Goes(r, "idle", NoReq) ELSE Goes(r, "embed", req[r])
  /\ OnlyLooks

Embed(r) == at[r] = "embed" /\ Goes(r, "semantic", req[r]) /\ OnlyLooks

(* Without an embedding, or with one of length zero, the lookup is a miss,  *)
(* and Set fills the first level only.                                      *)
EmbedFails(r) == at[r] = "embed" /\ Goes(r, "compose", req[r]) /\ OnlyLooks

Alike(p, q) == Similarity[p, q] >= SemThreshold /\ Similarity[p, q] > 0

(* Seeded bug: only the slots below the cursor are scanned. *)
Eligible_ToCursor(r) ==
  {i \in 0 .. writeIdx - 1 :
     /\ req[r].since <= ring[i].time + SemanticTTL
     /\ Alike(req[r].query, ring[i].query)}

(* Not now.After(CachedAt + semanticTTL), with the time Get began with. *)
Eligible(r) ==
  {i \in 0 .. len - 1 :
     /\ req[r].since <= ring[i].time + SemanticTTL
     /\ Alike(req[r].query, ring[i].query)}

(* Which of the eligible entries is the most alike does not matter here. *)
GetSemantic(r) ==
  /\ at[r] = "semantic" /\ Eligible(r) # {}
  /\ Goes(r, "idle", NoReq)
  /\ OnlyLooks

Misses(r) ==
  /\ at[r] = "semantic" /\ Eligible(r) = {}
  /\ Goes(r, "compose", [req[r] EXCEPT !.embedded = TRUE])
  /\ OnlyLooks

(* Enrich returns the original request and stores nothing. *)
ComposeFails(r) == at[r] = "compose" /\ Goes(r, "idle", NoReq) /\ OnlyLooks

-----------------------------------------------------------------------------
(* Set *)

(* The clock first, the lock later. *)
Set(r) ==
  /\ at[r] = "compose"
  /\ Goes(r, "put", [req[r] EXCEPT !.time = now])
  /\ OnlyLooks

Oldest == {q \in Held : \A p \in Held : exactCache[q] <= exactCache[p]}

(* Seeded bug: the first key of the map's iteration is evicted. *)
evictOldestExact_Any == Held

(* Which of several oldest entries goes depends on the map's order. *)
evictOldestExact == Oldest

(* Put into exactCache; at capacity one entry goes first, also when the key *)
(* is there already.                                                        *)
PutExact(q, t) ==
  IF ExactSize >= MaxExactSize
    THEN \E o \in evictOldestExact :
           exactCache' = [exactCache EXCEPT ![o] = Never, ![q] = t]
    ELSE exactCache' = [exactCache EXCEPT ![q] = t]

(* Seeded bug: the cursor stays at the last slot instead of wrapping. *)
PutRing_NoWrap(e) ==
  /\ ring' = [ring EXCEPT ![writeIdx] = e]
  /\ writeIdx' = IF writeIdx + 1 < MaxSemanticSize THEN writeIdx + 1 ELSE writeIdx
  /\ len' = IF len < MaxSemanticSize THEN len + 1 ELSE len

PutRing(e) ==
  /\ ring' = [ring EXCEPT ![writeIdx] = e]
  /\ writeIdx' = (writeIdx + 1) % MaxSemanticSize
  /\ len' = IF len < MaxSemanticSize THEN len + 1 ELSE len

(* Set under the lock; the entry carries the time that was read before. *)
Put(r) ==
  /\ at[r] = "put"
  /\ PutExact(req[r].query, req[r].time)
  /\ IF req[r].embedded
       THEN PutRing([query |-> req[r].query, since |-> req[r].since,
                     time |-> req[r].time, put |-> now])
       ELSE UNCHANGED <<ring, len, writeIdx>>
  /\ Goes(r, "idle", NoReq)
  /\ UNCHANGED <<now, sweep, rotated>>

-----------------------------------------------------------------------------
(* Invalidation and eviction *)

(* Seeded bug: only the length is reset. *)
Invalidate_KeepsCursor ==
  /\ exactCache' = [q \in Query |-> Never]
  /\ ring' = [i \in Slot |-> NoEntry] /\ len' = 0 /\ writeIdx' = writeIdx
  /\ rotated' = FALSE
  /\ UNCHANGED <<now, requests, sweep>>

Invalidate ==
  /\ exactCache' = [q \in Query |-> Never]
  /\ ring' = [i \in Slot |-> NoEntry] /\ len' = 0 /\ writeIdx' = 0
  /\ rotated' = FALSE
  /\ UNCHANGED <<now, requests, sweep>>

(* Where a kept slot moves to, and the slot that moves to a place. *)
Place(Kept, i) == Cardinality({j \in Kept : j < i})
SlotFor(Kept, p) == CHOOSE i \in Kept : Place(Kept, i) = p

(* Kept slots move down in the order of their slots, not of their age. *)
Compact(Kept) ==
  /\ ring' = [p \in Slot |-> IF p < Cardinality(Kept) THEN ring[SlotFor(Kept, p)] ELSE NoEntry]
  /\ len' = Cardinality(Kept)
  /\ writeIdx' = Cardinality(Kept) % MaxSemanticSize
  /\ rotated' = (Kept # {} /\ (rotated \/ (len = MaxSemanticSize /\ writeIdx # 0)))

(* shouldEvict: no topics, or one of these. *)
ShouldEvict(q, T) == TopicsOf[q] = {} \/ TopicsOf[q] \cap T # {}

(* Not called by the program yet. *)
InvalidateByTopics(T) ==
  /\ exactCache' = [q \in Query |-> IF ShouldEvict(q, T) THEN Never ELSE exactCache[q]]
  /\ Compact({i \in 0 .. len - 1 : ~ShouldEvict(ring[i].query, T)})
  /\ UNCHANGED <<now, requests, sweep>>

(* The pass of the ticker: the clock first, the lock later. *)
evictExpired ==
  /\ sweep = Never /\ sweep' = now
  /\ UNCHANGED <<cacheVars, now, requests>>

(* The exact level drops after the end of life, the semantic one at it. *)
Sweep ==
  /\ sweep # Never /\ sweep' = Never
  /\ exactCache' = [q \in Query |-> IF sweep > exactCache[q] + ExactTTL THEN Never ELSE exactCache[q]]
  /\ Compact({i \in 0 .. len - 1 : sweep < ring[i].time + SemanticTTL})
  /\ UNCHANGED <<now, requests>>

Tick ==
  /\ now < MaxTime /\ now' = now + 1
  /\ UNCHANGED <<cacheVars, requests, sweep>>

-----------------------------------------------------------------------------
Topics == UNION {TopicsOf[q] : q \in Query}

RequestStep(r) ==
  \/ \E q \in Query : Get(r, q)
  \/ GetExact(r) \/ Embed(r) \/ EmbedFails(r) \/ GetSemantic(r) \/ Misses(r)
  \/ ComposeFails(r) \/ Set(r) \/ Put(r)

Next ==
  \/ \E r \in Reader : RequestStep(r)
  \/ Invalidate \/ evictExpired \/ Sweep \/ Tick
  \/ \E t \in Topics : InvalidateByTopics({t})

Spec == Init /\ [][Next]_vars

-----------------------------------------------------------------------------
(* What the code must achieve *)

(* "Only [0..semanticLen) are valid": the slots in use are the first ones,  *)
(* and until the ring is full the cursor is the first free slot, so nothing *)
(* is overwritten before.                                                   *)
ValidPrefix ==
  /\ \A i \in Slot : ring[i] # NoEntry <=> i < len
  /\ len < MaxSemanticSize => writeIdx = len

(* From the cursor on, a full ring holds its entries in the order they were *)
(* put there, so the next Set overwrites the first of them; a ring that is  *)
(* not full holds them so from slot 0.  Their times need not follow that    *)
(* order, since Set reads the clock before it has the lock.  Only an        *)
(* eviction or an invalidation by topic that met a full, rotated ring, with *)
(* or without something to remove, breaks the order: it resets the cursor   *)
(* and leaves the slots.                                                    *)
RingInPutOrder ==
  LET first == IF len = MaxSemanticSize THEN writeIdx ELSE 0
      PutAt(k) == ring[(first + k) % MaxSemanticSize].put
  IN rotated \/ \A k \in 1 .. len - 1 : PutAt(k - 1) <= PutAt(k)

(* An entry leaves the cache for a reason: its life is over, the cache was  *)
(* invalidated, or its level was full.  Then the ring gives up the entry    *)
(* that was put there first, unless it was compacted while rotated, and the *)
(* exact level one with the earliest time of those it held.                 *)
NothingLostEarly ==
  [][\/ Invalidate
     \/ \E t \in Topics : InvalidateByTopics({t})
     \/ /\ \A i \in 0 .. len - 1 :
             \/ \E k \in Slot : ring'[k] = ring[i]
             \/ now >= ring[i].time + SemanticTTL
             \/ /\ len = MaxSemanticSize /\ len' = len
                /\ rotated \/ \A k \in Slot : ring[i].put <= ring[k].put
        /\ \A q \in Held :
             \/ exactCache'[q] # Never
             \/ now > exactCache[q] + ExactTTL
             \/ /\ ExactSize = MaxExactSize
                /\ \A p \in Held : exactCache[q] <= exactCache[p]]_vars

(* "A concurrent Set might be missed (the caller runs the full pipeline)":  *)
(* that is the only reason for doing work again.  Of two alike entries in   *)
(* the ring, the request that made the second had begun when the first was  *)
(* put there, or found it dead: no Set, overwriting, compaction or pass     *)
(* hides an entry from a lookup.                                            *)
NoNeedlessWork ==
  \A i, j \in 0 .. len - 1 :
    Alike(ring[j].query, ring[i].query) =>
      \/ ring[j].since <= ring[i].put
      \/ ring[j].since > ring[i].time + SemanticTTL
=============================================================================
