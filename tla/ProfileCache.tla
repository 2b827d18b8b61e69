---------------------------- MODULE ProfileCache ----------------------------
(***************************************************************************)
(* The user profile and the two caches in front of it: profile.Manager     *)
(* (internal/profile/manager.go) keeps the profile in the store, a copy of *)
(* it in memory and a version; cache.QueryCache (internal/cache/query.go)  *)
(* keeps enriched requests by query; the enrichment pipeline               *)
(* (internal/pipeline/enrichment.go) fills it while writers change the     *)
(* profile.  cmd/tbyd/server.go wires OnInvalidate to Invalidate.          *)
(*                                                                         *)
(* The content of the profile is the number of writes committed to it.     *)
(* Each step takes a mutex at most once; mu records the writer that keeps  *)
(* Manager.mu across its call of Invalidate.  QueryCache.mu is never held  *)
(* across a step.  A SetField, DeleteField or preferences write that the   *)
(* store refuses changes nothing and is not a step.                        *)
(***************************************************************************)
EXTENDS Integers, FiniteSets

CONSTANTS
  Query,          \* normalized last user messages
  Similar,        \* pairs of queries at or above the semantic threshold
  Request,        \* concurrent chat requests
  Writer,         \* concurrent profile writers
  Delta,          \* shapes of ProfileDelta: preferences or not, number of fields
  MaxWrites,      \* bound: committed profile writes
  MaxStoreErrors  \* bound: failed reads and writes of the store that matter

ASSUME CacheAssumption ==
  /\ Query # {}
  /\ Similar \subseteq Query \X Query
  /\ IsFiniteSet(Writer)
  /\ Delta \subseteq [prefs : BOOLEAN, fields : Nat]
  /\ MaxWrites \in Nat
  /\ MaxStoreErrors \in Nat

NoProfile == -1
Free == "free"

VARIABLES
  stored,       \* content of the profile in the store
  version,      \* Manager.profileVersion
  cached,       \* content of Manager.cached, NoProfile when nil or expired
  mu,           \* the writer that holds Manager.mu, or Free
  wpc,          \* where a writer is
  left,         \* UpdateFields a writer's delta still has to write
  minVersion,   \* QueryCache.minProfileVersion
  exact,        \* QueryCache.exactCache
  semantic,     \* QueryCache.semanticCache
  req,          \* the chat requests inside Enrich
  storeErrors,
  settled,      \* history: content when last no write was in progress
  announced,    \* history: content when Invalidate last ran
  refused       \* history: content when a delta was last refused half way

manager == <<stored, version, cached, mu>>
writers == <<wpc, left>>
cache == <<minVersion, exact, semantic>>
history == <<settled, announced, refused>>
vars == <<manager, writers, cache, req, storeErrors, history>>

Content == -1 .. stored

Entry == [query : Query, tag : Nat, profile : Content]

(* A chat request: "embed" L1 missed, "capture" L2 missed, "profile" the    *)
(* version is captured, "load" there was no copy, "compose" the profile is  *)
(* loaded, "hit" a cached request is on its way back.  floor is history:    *)
(* settled when Get began.                                                  *)
ReqPC == {"idle", "embed", "capture", "profile", "load", "compose", "hit"}

ReqState ==
  [pc : ReqPC, query : Query, embedded : BOOLEAN, tag : Nat, profile : Content, floor : 0 .. stored]

IdleReq ==
  [pc |-> "idle", query |-> CHOOSE q \in Query : TRUE, embedded |-> FALSE,
   tag |-> 0, profile |-> NoProfile, floor |-> 0]

(* "halfway": the preferences of the delta are written, its fields are not. *)
WriterPC == {"idle", "locked", "fields", "halfway", "callback", "notify"}

(* The type of the state; the first level holds one entry per query. *)
TypeOK ==
  /\ stored \in Nat /\ version \in Nat
  /\ cached \in Content
  /\ mu \in Writer \cup {Free}
  /\ wpc \in [Writer -> WriterPC]
  /\ left \in [Writer -> Nat]
  /\ minVersion \in Nat
  /\ exact \subseteq Entry
  /\ \A e, f \in exact : e.query = f.query => e = f
  /\ semantic \subseteq Entry
  /\ req \in [Request -> ReqState]
  /\ storeErrors \in 0 .. MaxStoreErrors
  /\ settled \in 0 .. stored
  /\ announced \in 0 .. stored /\ refused \in 0 .. stored

-----------------------------------------------------------------------------

Init ==
  /\ stored = 0 /\ version = 0 /\ cached = NoProfile /\ mu = Free
  /\ wpc = [w \in Writer |-> "idle"]
  /\ left = [w \in Writer |-> 0]
  /\ minVersion = 0 /\ exact = {} /\ semantic = {}
  /\ req = [r \in Request |-> IdleReq]
  /\ storeErrors = 0
  /\ settled = 0 /\ announced = 0 /\ refused = 0

-----------------------------------------------------------------------------
(* profile.Manager: the writers. *)

(* Seeded bug: the version is not bumped. *)
Commit_NoBump(n) ==
  /\ stored + n <= MaxWrites
  /\ stored' = stored + n
  /\ cached' = NoProfile
  /\ version' = version

(* Seeded bug: the copy in memory survives the write. *)
Commit_KeepsCached(n) ==
  /\ stored + n <= MaxWrites
  /\ stored' = stored + n
  /\ cached' = cached
  /\ version' = version + n

(* n keys reach the store: each drops the copy and bumps the version. *)
Commit(n) ==
  /\ stored + n <= MaxWrites
  /\ stored' = stored + n
  /\ cached' = IF n = 0 THEN cached ELSE NoProfile
  /\ version' = version + n

(* Writer w goes on to step p; history notes a moment with no write open. *)
WriterTo(w, p, n) ==
  /\ wpc' = [wpc EXCEPT ![w] = p]
  /\ left' = [left EXCEPT ![w] = n]
  /\ settled' = IF \A v \in Writer : wpc'[v] = "idle" THEN stored' ELSE settled

(* SetField and DeleteField keep the mutex until Invalidate returns. *)
LockedWrite(w) ==
  /\ wpc[w] = "idle" /\ mu = Free
  /\ Commit(1)
  /\ mu' = w
  /\ WriterTo(w, "locked", 0)
  /\ UNCHANGED <<cache, req, storeErrors, announced, refused>>

SetField(w) == LockedWrite(w)
DeleteField(w) == LockedWrite(w)

(* Seeded bug: nobody is told when the delta only changes preferences. *)
ApplyPreferences_Silent(w, d) ==
  /\ wpc[w] = "idle" /\ mu = Free /\ d.prefs
  /\ Commit(1)
  /\ WriterTo(w, IF d.fields > 0 THEN "halfway" ELSE "idle", d.fields)
  /\ UNCHANGED <<mu, cache, req, storeErrors, announced, refused>>

(* ApplyDelta, phase 1: one read-modify-write of the preferences. *)
ApplyPreferences(w, d) ==
  /\ wpc[w] = "idle" /\ mu = Free /\ d.prefs
  /\ Commit(1)
  /\ WriterTo(w, IF d.fields > 0 THEN "halfway" ELSE "callback", d.fields)
  /\ UNCHANGED <<mu, cache, req, storeErrors, announced, refused>>

(* A delta without preferences goes straight to phase 2. *)
SkipPreferences(w, d) ==
  /\ wpc[w] = "idle" /\ ~d.prefs /\ d.fields > 0
  /\ UNCHANGED <<manager, cache, req, storeErrors, announced, refused>>
  /\ WriterTo(w, "fields", d.fields)

(* Phase 2: every field under one lock. *)
ApplyFields(w) ==
  /\ wpc[w] \in {"fields", "halfway"} /\ mu = Free
  /\ Commit(left[w])
  /\ WriterTo(w, "callback", 0)
  /\ UNCHANGED <<mu, cache, req, storeErrors, announced, refused>>

(* The store refuses a field: ApplyDelta returns, what is written stays and *)
(* the callback is not called.                                              *)
ApplyFieldsFails(w) ==
  /\ wpc[w] \in {"fields", "halfway"} /\ mu = Free
  /\ storeErrors < MaxStoreErrors
  /\ storeErrors' = storeErrors + 1
  /\ \E n \in 0 .. left[w] - 1 :
       /\ Commit(n)
       /\ refused' = IF n > 0 \/ wpc[w] = "halfway" THEN stored' ELSE refused
  /\ WriterTo(w, "idle", 0)
  /\ UNCHANGED <<mu, cache, req, announced>>

(* Phase 3 reads the callback under the read lock and calls it without. *)
ReadCallback(w) ==
  /\ wpc[w] = "callback" /\ mu = Free
  /\ UNCHANGED <<manager, cache, req, storeErrors, announced, refused>>
  /\ WriterTo(w, "notify", 0)

(* QueryCache.Invalidate, after which the writer returns (and unlocks). *)
Invalidate(w) ==
  /\ wpc[w] \in {"locked", "notify"}
  /\ exact' = {} /\ semantic' = {}
  /\ minVersion' = minVersion + 1
  /\ mu' = IF mu = w THEN Free ELSE mu
  /\ announced' = stored
  /\ UNCHANGED <<stored, version, cached, req, storeErrors, refused>>
  /\ WriterTo(w, "idle", 0)

-----------------------------------------------------------------------------
(* Enricher.Enrich: the readers. *)

RestUnchanged == UNCHANGED <<stored, version, mu, writers, minVersion, history>>

(* The cached request of entry e is returned for what request q asked. *)
Hit(q, e) == [q EXCEPT !.pc = "hit", !.profile = e.profile]

(* Get, first level: the same query, under the read lock. *)
GetExact(r, q) ==
  LET asked == [IdleReq EXCEPT !.pc = "embed", !.query = q, !.floor = settled]
      found == {e \in exact : e.query = q /\ e.tag >= minVersion}
  IN
  /\ req[r].pc = "idle"
  /\ \/ found = {} /\ req' = [req EXCEPT ![r] = asked]
     \/ \E e \in found : req' = [req EXCEPT ![r] = Hit(asked, e)]
  /\ UNCHANGED <<cached, exact, semantic, storeErrors>> /\ RestUnchanged

(* Seeded bug: the second level takes entries of any version. *)
SemanticMatches_AnyVersion(q) ==
  {e \in semantic : <<q, e.query>> \in Similar}

SemanticMatches(q) ==
  {e \in semantic : <<q, e.query>> \in Similar /\ e.tag >= minVersion}

(* Second level, under a lock of its own: the most similar entry, any of    *)
(* those above the threshold here.                                          *)
GetSemantic(r) ==
  LET found == SemanticMatches(req[r].query)
  IN
  /\ req[r].pc = "embed"
  /\ \/ found = {} /\ req' = [req EXCEPT ![r].pc = "capture", ![r].embedded = TRUE]
     \/ \E e \in found : req' = [req EXCEPT ![r] = Hit(req[r], e)]
  /\ UNCHANGED <<cached, exact, semantic, storeErrors>> /\ RestUnchanged

(* No embedding: a miss, and Set will only fill the first level. *)
EmbedFails(r) ==
  /\ req[r].pc = "embed"
  /\ req' = [req EXCEPT ![r].pc = "capture"]
  /\ UNCHANGED <<cached, exact, semantic, storeErrors>> /\ RestUnchanged

(* ProfileVersion, before any work. *)
CaptureVersion(r) ==
  /\ req[r].pc = "capture" /\ mu = Free
  /\ req' = [req EXCEPT ![r].pc = "profile", ![r].tag = version]
  /\ UNCHANGED <<cached, exact, semantic, storeErrors>> /\ RestUnchanged

(* GetProfile, under the read lock: the copy while it lasts.  Without one   *)
(* the read lock is given up, and the write lock has to be waited for.      *)
GetProfile(r) ==
  /\ req[r].pc = "profile" /\ mu = Free
  /\ \/ cached = NoProfile /\ req' = [req EXCEPT ![r].pc = "load"]
     \/ cached # NoProfile /\ req' = [req EXCEPT ![r].pc = "compose", ![r].profile = cached]
  /\ UNCHANGED <<cached, exact, semantic, storeErrors>> /\ RestUnchanged

(* Under the write lock: the copy another request has made meanwhile,       *)
(* otherwise the store.                                                     *)
LoadProfile(r) ==
  LET p == IF cached # NoProfile THEN cached ELSE stored
  IN
  /\ req[r].pc = "load" /\ mu = Free
  /\ req' = [req EXCEPT ![r].pc = "compose", ![r].profile = p]
  /\ cached' = p
  /\ UNCHANGED <<exact, semantic, storeErrors>> /\ RestUnchanged

(* The store cannot be read: Enrich goes on without a profile. *)
LoadProfileFails(r) ==
  /\ req[r].pc = "load" /\ mu = Free /\ cached = NoProfile
  /\ storeErrors < MaxStoreErrors
  /\ storeErrors' = storeErrors + 1
  /\ req' = [req EXCEPT ![r].pc = "compose", ![r].profile = NoProfile]
  /\ UNCHANGED <<cached, exact, semantic>> /\ RestUnchanged

(* Seeded bug: the version is read when the entry is stored. *)
NewEntry_LateTag(q) == [query |-> q.query, tag |-> version, profile |-> q.profile]

NewEntry(q) == [query |-> q.query, tag |-> q.tag, profile |-> q.profile]

PutExact(e) == {f \in exact : f.query # e.query} \cup {e}

(* Compose succeeded: Set stores the result and Enrich returns. *)
Set(r) ==
  LET e == NewEntry(req[r])
  IN
  /\ req[r].pc = "compose"
  /\ exact' = PutExact(e)
  /\ semantic' = IF req[r].embedded THEN semantic \cup {e} ELSE semantic
  /\ req' = [req EXCEPT ![r] = IdleReq]
  /\ UNCHANGED <<cached, storeErrors>> /\ RestUnchanged

(* Enrich returns a cached request, or the original if Compose failed. *)
Return(r) ==
  /\ req[r].pc \in {"hit", "compose"}
  /\ req' = [req EXCEPT ![r] = IdleReq]
  /\ UNCHANGED <<cached, exact, semantic, storeErrors>> /\ RestUnchanged

-----------------------------------------------------------------------------
(* Time: entries and the copy expire, or make room (QueryCacheRing). *)

DropEntry(e) ==
  /\ e \in exact \cup semantic
  /\ \/ exact' = exact \ {e} /\ semantic' = semantic
     \/ exact' = exact /\ semantic' = semantic \ {e}
  /\ UNCHANGED <<cached, req, storeErrors>> /\ RestUnchanged

CopyExpires ==
  /\ cached # NoProfile
  /\ cached' = NoProfile
  /\ UNCHANGED <<exact, semantic, req, storeErrors>> /\ RestUnchanged

WriterStep(w) ==
  \/ SetField(w) \/ DeleteField(w)
  \/ \E d \in Delta : ApplyPreferences(w, d) \/ SkipPreferences(w, d)
  \/ ApplyFields(w) \/ ApplyFieldsFails(w) \/ ReadCallback(w)
  \/ Invalidate(w)

RequestStep(r) ==
  \/ \E q \in Query : GetExact(r, q)
  \/ GetSemantic(r) \/ EmbedFails(r)
  \/ CaptureVersion(r) \/ GetProfile(r) \/ LoadProfile(r) \/ LoadProfileFails(r)
  \/ Set(r) \/ Return(r)

Next ==
  \/ \E w \in Writer : WriterStep(w)
  \/ \E r \in Request : RequestStep(r)
  \/ \E e \in exact \cup semantic : DropEntry(e)
  \/ CopyExpires

Spec == Init /\ [][Next]_vars

-----------------------------------------------------------------------------
(* Properties *)

(* Manager: the copy in memory never differs from the store, whatever the   *)
(* writers do between a reader's two looks at it.                           *)
CopyIsCurrent == cached # NoProfile => cached = stored

(* Enrich captures the version before it loads the profile, so an entry's   *)
(* version never claims a newer profile than the entry was made from.       *)
TagNeverOverstates ==
  \A e \in exact \cup semantic : e.profile # NoProfile => e.tag <= e.profile

(* Invalidate: the minimum never runs ahead of the version, which would     *)
(* make Get refuse every entry from then on.                                *)
MinimumIsReachable == minVersion <= version

(* Nothing is left to announce once the writers are done, except what a     *)
(* delta wrote that the store refused half way: ApplyDelta returns without  *)
(* the call the cache needs (phase-3: "ApplyDelta ... must call             *)
(* cache.Invalidate()"), and the entries made before stay until the next    *)
(* change.  So the last key written was announced, or refused its rest.     *)
Quiet == \A w \in Writer : wpc[w] = "idle"

EveryChangeAnnounced == Quiet => stored \in {announced, refused}

(* A cache hit never serves a profile older than the one that was settled   *)
(* when the request came in: no entry computed from an older profile, in    *)
(* flight during an invalidation, is accepted afterwards.                   *)
NoStaleHit ==
  \A r \in Request :
    req[r].pc = "hit" /\ req[r].profile # NoProfile => req[r].profile >= req[r].floor

(* Writers whose call of Invalidate is still to come. *)
Due == {"locked", "callback", "notify"}
Pending == {w \in Writer : wpc[w] \in Due}

(* The version has run ahead of the minimum and the invalidations to come:  *)
(* a delta has written more keys than the one Invalidate it calls, or has   *)
(* been refused half way.  The minimum never catches up.                    *)
Drifted == minVersion + Cardinality(Pending) # version

(* Until the first delta that writes two keys or is refused half way, no    *)
(* hit is stale, whatever other deltas are at work.                         *)
FreshUntilDrift == Drifted \/ NoStaleHit

=============================================================================
