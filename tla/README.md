# Formal models of tbyd

tbyd is a local daemon that sits between chat clients and a cloud model. It
enriches each request with what it knows about the user, saves the interaction,
indexes documents and answers, and learns preferences from feedback. This
directory holds TLA+ models of the parts of it that are concurrent, persistent or
algorithmic, the configurations that check them with TLC, and proofs of the main
results with TLAPS. Paths in this file are relative to the repository.

    tlc -config MCJobQueue_faults.cfg MCJobQueue     # one run
    tlapm JobQueueProofs.tla                         # one proof module

`PROJECT.json` lists components, runs, seeded bugs (mutants), the lines every
definition stands for, findings, hazards and theorems.

## 1. Inventory

One Go process (`cmd/tbyd/server.go`) with an SQLite database. Arrows are calls.

    chat client -> chat handler -> enrichment -> query cache, profile manager, retriever
                       |             
                       +-- channel -> save loop -> interactions, jobs
    management API -> context_docs, jobs, vectors, profile manager, pending deltas
    worker loops   -> jobs (claim, finish) -> vectors, rows, signal counts, profile manager
    profile manager -> (callback) query cache

| Component | State | Operations | What is hard | What makes it correct |
|---|---|---|---|---|
| Durable job queue (`internal/storage/sqlite.go`) | table `jobs`: status, attempts, run_after, updated_at | EnqueueJob, ClaimNextJob, ClaimJobs, CompleteJob, FailJob, ResetStaleJobs | crashes while a job runs, failing writes that are only logged, a reset whose read is outside its transaction | one holder per job, bounded starts, final verdicts, every job settles |
| Worker loops (`internal/ingest`, `internal/synthesis`) | jobs in hand, position in a pass | claim, work, complete or fail; the deep loop resets and claims a batch | four loops on one table, two of them slow, none awaited on shutdown | as above |
| Profile manager (`internal/profile/manager.go`) | profile keys in the store, a copy, a version, a callback | GetProfile, SetField, DeleteField, ApplyDelta | double-checked read, lock released between the phases of a delta, partial failure | the copy is current, each change is announced unless its delta was refused half way |
| Query cache (`internal/cache/query.go`) | exact map, semantic ring, minimum version | Get, Set, Invalidate, eviction | a lookup in two levels with a slow call between them, entries in flight during an invalidation, clocks read before locks | no hit older than an announced change while versions and minimum keep step, no lock-out, no entry lost or overlooked without a reason |
| Enrichment (`internal/pipeline/enrichment.go`) | a request's version and profile | Enrich | order of version capture and profile read | an entry's tag never overstates its profile |
| Ingest worker and vectors (`internal/ingest/worker.go`, `internal/retrieval/store.go`) | rows, their references, vectors | the two job handlers, Insert, Delete, AdjustQualityScores | three tables without a common transaction, retries, concurrent deletes | completed means searchable, orphans are accounted for |
| Management API (`internal/api/ingest.go`, `feedback.go`) | none of its own | ingest, delete, feedback, profile | multi-step handlers without a transaction | deletes remove what they should and no more |
| Chat handler and save loop (`internal/api/openai.go`) | bounded channel, drop counter | push, save, drain | full channel, select with two ready branches | saved once, in order, or counted |
| Server lifecycle (`cmd/tbyd/server.go`) | context, listener, PID file, API token (shared with the client commands) | start, stop, signal, shutdown, close | order of drain, last request and close; timeout; two starts at once, or a start during a shutdown | a stop ends and loses nothing buffered, the file names the server, token of server and clients agree, one of two servers ends |
| Process control of the application (`macos/Sources/TBYDKit/ProcessManager.swift`) | the current process | start, stop, handler of a termination | a termination handled after the next start | no server is forgotten |
| Pending deltas (`internal/api/deltas.go`), nightly synthesis (`internal/synthesis/nightly.go`) | table of deltas with a verdict | review, apply, unreview, propose | crash between verdict and application, an unconditional rollback, check then insert around a model call | verdict and profile agree, one applier, one open proposal a day |
| Feedback signals (`internal/synthesis/worker.go`, `aggregator.go`) | signals per interaction, counts per pattern | extract, count, aggregate, apply | retry after a partial success, repeated ratings | counted once, applied at the threshold |
| Deep enrichment (`internal/synthesis/deep_worker.go`, `batcher.go`, `grouper.go`) | batches, tags and metadata of documents | group, batch, enrich, merge | partial results, cancellation in the middle | every claimed job gets a verdict, batches fit |
| Reranker (`internal/reranking/reranker.go`) | goroutines, semaphore, result channel | score, collect | timeout against early return, sends nobody receives | no goroutine left, results complete, cut short on purpose, or an error |
| Retriever and search (`internal/retrieval`) | none of its own; reads the vectors | scan, fetch, fuse, deduplicate | records written between scan and fetch, failing halves, ties, many records of one source | best of each source, best first, as many as the store allows |
| Prompt context (`internal/pipeline`, `internal/composer`) | a request's candidates | retrieve, rerank or fall back, cut, select | the reranker fails, is late or is cut short | a subset of the candidates, nothing better passed over, the budget kept |
| Proxy client, engine client, intent, MCP tools, configuration, command line, onboarding, rest of the macOS application | little or none | calls over HTTP, text, files | see the hazards | not modelled; `PROJECT.json` gives a reason for each |

`PROJECT.json` lists forty hazards at their lines, each with the properties of the
modules below that would catch it going wrong. Four more that no property covers are
described in section 5.

## 2. Plan

Written, in this order: first what carries the durable state and the most delicate
concurrency, then what builds on it.

1. `JobLedger`, `JobQueue`, `JobQueueProofs`: the queue, what it promises, proofs.
2. `ProfileCache`, `ProfileCacheProofs`: manager, cache and pipeline together; proofs.
3. `IngestIndex`, `IngestIndexProofs`: rows, jobs and vectors under retries, deletes and
   crashes; proofs.
4. `SaveLoop`: channel, loop and shutdown.
5. `QueryCacheRing`, `QueryCacheRingProofs`: capacity, ring, times to live and eviction,
   which `ProfileCache` reduces to "any entry may vanish"; proofs.
6. `FeedbackSignals`, `FeedbackSignalsProofs`: ratings, extraction once, counts,
   thresholds, application; proofs.
7. `DeltaReview`, `DeltaReviewProofs`: proposal, review, application, rollback; proofs.
8. `DeepEnrich`: a pass over a batch; implements `JobLedger` like the queue does.
9. `HybridSearch`, `Reranker`, and `Enricher`, which composes them.
10. `ServerInstances`: several starts and stops on one data directory.
11. `ServerProofs`: what is proved of `SaveLoop` and `ServerInstances`, the two views of
    one process.
12. `EnrichmentProofs`: what is proved of `DeepEnrich` and of `Enricher` with its parts,
    which share lemmas about finite sets, sequences and folds.

Each invariant, action property and refinement that a passing run checks is proved; the
liveness properties are checked only. Section 7 lists what is left out.

## 3. Modules and the code

### JobQueue, JobLedger

Columns of `jobs` are the variables `status`, `attempts`, `runAfter`, `updatedAt`;
`hand[w]` is what the goroutine of loop `w` holds in local variables. Each store
call is one action, because each is one statement or one transaction, except
ResetStaleJobs, which reads outside its transaction and is `SelectStale` and
`ResetStaleJobs`. A job type belongs to one loop, so `Owner` stands for the type
filter. `Deep` is the set of loops that reset and claim in batches (one in the
program). `Crash` empties hands and keeps the table; it also stands for a normal
stop, since the worker goroutines are not awaited. `FinishError`, `ResetError` and
`ClaimError` are the errors the loops log. Time counts seconds; the clock runs on
past `MaxTime` only while a job waits for it. Enqueueing is one action whoever
does it; a failing claim of a single-job loop changes nothing and is a stutter.
The database is assumed to execute the statements of one call in isolation.

`JobLedger` is the promise: a job is accepted once, handed out a bounded number of
times to one holder at a time, closed once. `ImplementsLedger` maps statuses to its
phases and is checked and proved.

### ProfileCache

The content of the profile is the number of writes committed to it, so "older"
is `<`. `manager`, `cache` and `req` are the manager's fields, the cache's fields
and the local variables of each running Enrich. Every acquisition of a mutex is a
step; `mu` is needed only because SetField and DeleteField keep `Manager.mu` while
they call Invalidate. ApplyDelta is its three phases with the lock released
between them; a writer is `halfway` when its preferences are written and its fields
are not. GetProfile is its two looks, under the read lock (`GetProfile`) and, after
an unlock, under the write lock (`LoadProfile`), between which other requests load
and writers write. `DropEntry` and `CopyExpires` stand for time and for capacity.
`settled`, `announced` and `refused` are history: the content when no writer was last
active, at the last invalidation, and when a delta was last refused half way.

### IngestIndex

One row, one reference and one job for each document and interaction; a vector is
named after its source and the attempt that made it, as the code makes a random id
for a document at each attempt and a fixed one for an interaction. The worker goes
through load, embed, insert, update and finish, the delete handlers through read,
each vector, row; another actor may step between any two. Errors of the store are
`...Fails` actions limited by `MaxFaults`; failures of the model are not limited.
Feedback is the quality adjustment at the end of saveFeedback. `CrashRestart` drops
workers and requests and keeps the tables.

### SaveLoop

`chan` is the channel, `loop` the position in interactionSaveLoop (`drain...` for
the branch after cancellation), `hand` the record taken. The two ready branches of
Go's select are two enabled actions. `main` is runServer from the select on signal
and listener error to the close of the store. `aborted` is a return of runServer
that does not wait for the loop.

### QueryCacheRing

The cache alone, with its sizes and times. A query is what `normalize` makes of it,
and the similarity of two embeddings a number given by a constant. `ring`, `len` and
`writeIdx` are the fields of the same names; Invalidate, eviction and the compaction
of the ring are translated slot by slot, because the order of the slots is what the
properties are about. Get, Set and the eviction pass all read the clock before they ask
for the lock, so each is at least two steps: `Get`, `GetExact`, `Embed`, `GetSemantic`;
`Set`, `Put`; `evictExpired`, `Sweep`. Between two of them time passes, other requests
put entries, and a pass or an invalidation may run. Two concurrent Sets may thus put
their entries in the other order than that of the times they carry. An entry
keeps, as history, when it was put and when the request that made it had begun. The
program calls Set only with the outcome of a miss, and so does the model. Versions are
left to `ProfileCache`.

### FeedbackSignals

`UpdateFeedback` and `enqueueFeedbackExtract` are the two writes of a rating,
`Claim` to `CompleteJob` or `FailJob` the steps of the feedback worker, one for each
call of the store or the model. `extracted[i]` is the column `extracted_signals` (empty or one
list), `counts` the table `signal_counts`. Texts that agree up to case and blanks have
one key. A crash cuts off handlers and the worker; nothing resets the job it held.
`erased`, `edited` and `unqueued` are history.

### DeltaReview

The row of a delta, the nightly pass as check, model call and insertion, and for each
request the position in handleAcceptDelta: mark, read, the two phases of
ApplyDelta, rollback. Of the profile it keeps how much of a delta its last
application wrote. Nightly passes do not overlap, since one goroutine claims their
jobs; requests do.

### DeepEnrich

One pass of DeepEnrichmentWorker.Run, statement by statement where a statement can
fail: reset, claim, load, group, batch, call, update, verdict. `job` is reduced to
status and attempts; back-off and claim order are in `JobQueue`. `unresolved` is
refByDocID; `stranded` is history: jobs a pass left running. GroupByTopics folds
the pairs of similar documents (`SimilarPairs`) over a partition, which stands for the
union-find forest. BatchDocuments is the loop of the batcher as a fold: `Pack` is its body,
`Close` what ends a batch.

### HybridSearch, Reranker, Enricher

A search is two queries, scan and fetch, and records are inserted, deleted and rated between
them. An empty text is searched for by vectors only. Scores are integers; ranks are fused
exactly, with the weight of the strategy or the clamped ratio the intent gives. An embedding
whose norm is zero finds nothing, as a failing search does. Where heap, map iteration or
sort leave the order of equal scores open, the model allows every order. `Reranker` has a
state for each goroutine and for the channel; two ready branches of a select are two enabled
actions. A call may yield a score, an object without the key, which counts as 0
(`ScoreMissing`), or nothing, which keeps the score of retrieval. `Enricher` runs
RetrieveForIntent, then Rerank on its result, then keeps the best or, when the reranker
failed, the first candidates, and selects what fits the prompt (`TakeIfFits` is the body of
that loop). `at`, `hits` and `found` have an entry for each text and kind of search.
Goroutines of the reranker may outlive its call.

### ServerInstances

Each process of `tbyd start` is at a place of runServer (`at`); `port`, `pidFile` and
`token` are what the processes share, `held` the token a server has read, `target` the
PID a `tbyd stop` has read, `app` the field `process` of ProcessManager. Each read or
write of something shared is an action. Commands that call the server or ask its status
get the token the way a start does, and store a new one when they find none: `making` are
those between the two steps. A signal ends a process that has not reached
NotifyContext, or is past its stop function, at once and without deferred calls;
elsewhere it cancels the context. `disturbed` and `racing` are history: processes that
were in the file while another was about to replace it, and who was making a token when a
server took the stored one.

## 4. Runs

Bounds are the CONSTANTS of each cfg. Deadlock checking is off where the system
may stop: all jobs done and clock at its bound, all requests answered, server
ended. In the ProfileCache runs it is on.

| Run | Instance | Shows |
|---|---|---|
| `queue` | two loops, 3 jobs, claim limit 2, 2 attempts, 1 crash, 1 failing call, fair | `HeldJobsAreRunning`, `StartsBounded`, `OrphansComeFromFaults`, `ImplementsLedger`, `EveryJobSettles` |
| `cache` | 1 query, 2 requests, 2 writers, 2 writes by single changes and by deltas of preferences, two fields or both, 1 failing read or write | `CopyIsCurrent`, `TagNeverOverstates`, `MinimumIsReachable`, `EveryChangeAnnounced` (see finding 3), `FreshUntilDrift` |
| `cache_drift` | deltas of two writes, 2 queries | `NoStaleHit` violated: finding 1 |
| `index_safety` | 1 document, 1 interaction, 2 deletes, 2 attempts, 1 fault, 1 crash | `CompletedMeansSearchable`, `OrphansComeFromFaults` |
| `save` | 3 requests, capacity 2, fair | `RowsFollowTheChannel`, `LoopEndsEmpty`, `AnswerSavedOrCounted`, `ShutdownEnds` |
| `feedback` | 2 interactions, 3 ratings, 4 texts of 2 keys and none, 2 attempts, 2 mishaps, fair | `CountsMatchSignals`, `StaleProfileHasJob`, `RatingIsLearned` |
| `review` | 2 deltas, 2 requests, 2 days, 2 faults, fair | `VerdictMatchesProfile`, `OnePendingPerDay`, `VerdictStands`, `AcceptanceSettles` |
| `query_ring` | 2 similar queries, 2 requests, 2 exact and 3 semantic entries, lives of 1, times 0 to 2 | `ValidPrefix`, `RingInPutOrder`, `NothingLostEarly`, `NoNeedlessWork` |
| `deep` | 3 documents, a batch of 2, 2 attempts, 2 faults, fair | `RunningIsAccounted`, `PassLosesNothing`, `GroupsAreComponents`, `CompletedMeansEnriched`, `DeepJobSettles`, `ImplementsLedger` |
| `pipeline` | 4 records of 3 sources, 3 texts of which 1 is empty, vectors only or hybrid with a ratio, 1 write, 1 failing search, 3 chunks of which 2 are kept, 2 slots, fair goroutines | `CandidatesComplete`, `ContextIsSound`, `EveryScorerEnds` |
| `pipeline_penalised` | keyword-heavy search, no writes, no failing search | `FailureNotPenalised` violated: finding 2 |
| `instances` | 2 starts, a stop and a client command that may run again and again, signals, 1 crash or late answer, fair | `LoneServerIsNamed`, `TokensAgree`, `AppForgetsNoServer`, `DoubleStartResolves` |

Why the bounds are enough. Queue: three jobs make a batch smaller than the backlog and leave
a job of another loop beside it; one crash and one failing call give every place where a job
can be stranded, and a second loop shows that it cannot be taken by the wrong one. Two
attempts already have a retry and a final failure; with a claim limit of 2 a crash can
strand two jobs at once. The clock starts at its bound and goes on only while a job waits to
become due or stale, so back-off and reset happen, and time in which nothing is due does
not. Cache: two requests let one store an entry the other hits; two writers and two writes
give overlapping invalidations, a delta that raises the version twice, and one that is
refused after its first key; similar queries only matter to the second level, where one
query is similar to itself. Index: the two kinds of row share one worker, and an interaction
uses the vector of the document. Save loop: three requests overflow a channel of two, or
fill it while one record is in hand. For the invariants, action properties and refinements
the proofs remove the bounds altogether; they matter for liveness and for the two
violations. Feedback: three ratings of two interactions rate one of them twice; the lists of
the model repeat a pattern in another case, conflict with each other, hold a blank or an
unknown type, or are empty, and reach both thresholds; two mishaps are a failure with an
edit, a deletion or a crash beside it. Review: two requests contend for a delta while a
second one is proposed on the same or the next day; two faults are a failed application and
a failed rollback. Ring: three slots and three moments fill the ring, wrap the cursor to a
middle slot and let entries expire on both sides of it; two requests put their entries in
the order of their times or against it. Deep: one document similar to two others that are
not alike makes a component that is no clique, two fill a batch, one overflows a batch, and
the model leaves one out; two faults are, for instance, a stop and a lost verdict. Pipeline:
two records of one source compete with those of others, a record comes or goes between scan
and fetch, three chunks on two slots leave one waiting, and two of three are enough to
return early. `Widen` is 1 there and 4 in the program: with so few records, four times as
many would always be all of them. Instances: two starts overlap or follow each other in
every way; a command may find no token before a start stores one and store its own after; a
crash leaves a file nobody removes, as a signal in the first steps does, and a late answer
lets a start pass a server that is there.

Fairness. `JobQueue`: weak fairness of each loop's steps (the loops are goroutines that poll
for ever on a ticker), of the restart (the daemon is started again) and of the clock. The
outcome of a job is not chosen by fairness: failing for ever ends in `failed` by the attempt
limit. That the work on a job ends is justified by the timeouts of the calls to the model
(30 s for summaries and feedback, 120 s for a deep batch); the embedding call has none of
its own (`internal/ollama/client.go:44`), so for it fairness assumes that the local engine
answers or closes the connection. The deep loop runs at least once a day (`Schedule`).
Enqueueing, crashes and faults are not fair. `SaveLoop`: weak fairness of the loop, of a
handler that has its answer, and of runServer once the signal has come; none for the
upstream, which may never answer, and none for clients. `FeedbackSignals`: weak fairness of
the worker's loop and of a handler between its writes. `DeltaReview`: of each accepting
request. `DeepEnrich`: of the pass, including that another one begins (the scheduled hour
comes each day, and an idle detector that cannot measure the load says idle), of the
restart, and of the half hour after which a job is stale. `Enricher`: of each goroutine of
the reranker; the model answers or its call fails, at the latest by the timeout of the
context. `ServerInstances`: of each process that has started, of its answer to the signal
and of its shutdown; nobody has to start or stop one, and a pull of models is taken to end
or to be cancelled. `IngestIndex` and `QueryCacheRing` state safety only.

Every property of a passing run has a seeded bug (`..._Name` beside the definition
it replaces) under which the same run fails.

## 5. Findings and observations

`PROJECT.json` quotes the sentences the three findings contradict. The first two have a
run whose only property TLC refutes; the third shows in a property of a passing run.

1. A delta that writes two keys raises the profile version by two and the cache
   minimum by one, so stale enrichments pass the version check (`cache_drift`).
2. A chunk whose scoring call failed keeps its retrieval score "so the chunk is not
   penalised" (`internal/reranking/reranker.go:181`); after a hybrid search that is a
   sum of reciprocal ranks, at most 1/61, and the threshold of 0.3 drops it. A model
   server that fails every call thus leaves the prompt without context, and the caller
   does not fall back, because no error is returned (`pipeline_penalised`).
3. A delta whose store refuses a field after other keys were written has changed the
   profile and invalidates nothing (`ApplyFieldsFails`, `internal/profile/manager.go:438`),
   although the plan says that ApplyDelta must call `cache.Invalidate()`
   (`docs/phase-3-personalization.md:108`). `EveryChangeAnnounced` (run `cache`) names the
   case with `stored = refused` and says that there is no other; without it TLC refutes
   the property.

The following were met while modelling; some are stated as definitions that TLC
refutes, kept beside the properties that hold, and no run checks them.

- A job that was running when the process ended is never run again, except deep
  enrichment jobs (`NoJobLostOnRestart`); `ARCHITECTURE.md:570` promises no data loss on
  restart.
- The retry of a summary whose vector was stored collides with its fixed id
  (`RetryOverwrites`); `internal/ingest/worker.go:216` expects it to overwrite.
- A delete that overlaps indexing leaves a vector without a row (`DeleteRemovesVectors`).
- Deleting an interaction before its summary is indexed deletes the vectors of the
  documents it was enriched with (`DeleteSparesOthers`).
- Feedback after indexing rates the summary instead of the chunks used
  (`FeedbackRatesChunksUsed`), against `docs/phase-3-personalization.md:386`.
- Answers that arrive after the save loop has drained are never saved
  (`BufferEmptyAtClose`), against `internal/api/openai.go:74-78`.
- A stop while a deep pass loads its documents leaves the loaded jobs running until a
  later pass finds them stale (`CancelledInLoad`), and every cancellation costs a job
  one of its attempts (`FailUnloaded`, `FailLeftover`).
- When all goroutines of the reranker have given up at the timeout before the loop looks,
  Rerank may return the scores it has, or none, without an error (`Closed` with the
  context ended), against the comment at `internal/reranking/reranker.go:58`.
- The chunks reported as used (`ChunksUsed`) include those the composer leaves out of
  the prompt for lack of budget (`used` and `selected` of `Enricher`).
- A client command that looks for the API token before the first start has stored one, and
  stores its own after the server has read it, leaves a server that refuses every client
  until it is started again (`CommandSetsToken`; the case `token \subseteq racing[p]` of
  `TokensAgree`). `docs/phase-0-foundation.md:100` asks for one token however often it is
  looked for; its test makes the calls one after the other.
- On macOS any failure of the `security` tool counts as "not found"
  (`internal/config/keychain_darwin.go:18-21`), so that a command may make and store a new
  token when the keychain is locked; `internal/config/config.go:197` says that other errors
  are propagated. The model has the store of the other systems, which tells the two apart.
- ProcessManager.start sets its state to starting before it runs the process; when that
  throws, the state stays so, with no process (`AppStart` has only the case that works).
- The PID file is removed by whichever process ends, whomever it names, and the check
  before writing it asks a port that is free until the models are ready and again as soon
  as a shutdown begins. After two overlapping starts, or a start right after a stop, the
  server that stays has no PID file, and `tbyd stop` says that it is not running
  (`StopFindsServer`); `docs/phase-2-user-surfaces.md:153` says that both "work reliably".
- Requests are cached under the last user message alone (`pipeline/enrichment.go:99`), so
  a conversation that ends in the same words gets the messages of another one.
- When Shutdown times out, or the listener fails, runServer returns without waiting for
  the save loop, and the deferred Close of the store runs beside its writes
  (`ShutdownTimeout`, `ServerError`; `cmd/tbyd/server.go:356`, 368).
- Two starts may both run their workers on one database until the listener of the second
  fails; the types of jobs they claim are the same (`DoubleStartResolves` says only that
  one ends).
- After the signal the save loop may take a buffered record in its select and write it
  with the cancelled context (`TakeRecord`, `WriteCancelled`), although the comment at
  `internal/api/openai.go:54` says that the drain avoids it.

## 6. Proofs

`JobQueueProofs`, for every set of jobs, loops and owners, every limit and bound:
`TypeOK`, `HeldJobsAreRunning`, `StartsBounded`, `VerdictIsFinal` and
`ImplementsLedger`. The inductive invariant `IInv` adds two facts to the first two:

- `SnapshotIsCurrent`: between SelectStale and the reset, the rows selected are
  running, unheld and have the attempts that were read. This is why reading outside
  the transaction is harmless: only the loop itself could touch those rows, and it
  is busy resetting. Without it the reset could overwrite newer attempts.
- `StartsAreCounted`: starts never exceed attempts, plus one while the job runs.
  With attempts below the limit for any job not closed, it bounds the starts.

`VerdictIsFinal` is not inductive by itself: CompleteJob and FailJob update by id
without looking at the status, and it is `HeldJobsAreRunning` that says they only
meet running rows. Each action has a lemma that it preserves `IInv`; the ledger's
step is shown by cases on what happens to each job.

`OrphansComeFromFaults` rests on `OrphanInv`: a hand holds at most `ClaimLimit` jobs in a
deep loop and one elsewhere (`HandsBounded`), so what a crash strands can be numbered by
the places of all hands (`HeldCounted`), and a failed call strands one job.

Assumptions: `QueueAssumption` (types of the constants, `ClaimLimit` and `MaxAttempts`
positive, finitely many loops, of which the program starts four) and `PowersOfTwo`, a fact
of arithmetic the SMT backend cannot derive and TLC evaluates in every run.

`ProfileCacheProofs`, for every set of queries, requests and writers:

- from `GInv`, for every shape of delta: `TypeOK`, `CopyIsCurrent`,
  `TagNeverOverstates`, `MinimumIsReachable`. Its core is that the version counts the
  writes, and that the minimum plus the number of writers that still owe an
  invalidation never exceeds the version (`PendingIsCovered`). Counting pending
  writers is what makes the bound inductive: Invalidate raises the minimum and takes
  one writer off the count in the same step.
- from `AInv`, for every shape of delta: `EveryChangeAnnounced`. While the last key
  written is neither announced nor refused its rest, some writer still owes an
  invalidation or has fields to write (`Owing`).
- from `FInv`, for every shape of delta: `FreshUntilDrift`. Until the cache drifts, the
  minimum plus the pending writers equals the version (`Drifted` is the negation), so
  content that is settled never exceeds the minimum (`SettledIsBelow`); an entry accepted
  by the version check has a tag at or above the minimum, hence a profile at or above
  every floor. Drift is for ever: the distance between the two never shrinks (`Ahead`).
- `OneWriteNeverDrifts`, assuming `OneWritePerDelta`: then the distance stays 0 and
  `NoStaleHit` holds outright. The run `cache_drift` shows that the hypothesis cannot be
  dropped. Deltas of the feedback worker and PATCH and DELETE of the profile satisfy it; a
  delta of the nightly synthesis may not.

`DeltaReviewProofs`, for every set of deltas and concurrent requests and any number of
days, failed calls and crashes: `TypeOK`, `OneApplier`, `VerdictMatchesProfile` and
`VerdictStands`. The only assumption, `ReviewAssumption`, types the two bounds. The
inductive invariant adds `HeldIsAccepted` (a delta that a request works on stays marked:
this is what keeps a second request, and a rejection, from the row, and so makes the
unconditional reset of UnreviewDelta harmless) and `OpenIsClean` (a delta that is not
accepted has left nothing in the profile unless it was put back), without which a
rejection could say nothing of the profile. `OnePendingPerDay` is proved too, from
`DayInv`: while the pass waits for the model, a row of the day that is open again was put
back after the check (`AskedMeansNoneOpen`), and no row is dated in the future.

`ServerProofs`, on `ServerInstances`, for any number of starts, stops, commands and faults:
`FileHasOwner`, `LoneServerIsNamed`, `TokensAgree` and `AppForgetsNoServer`, without an
assumption on the constants. The inductive invariant adds `AloneInTheFile` (a process nobody
disturbed has the file to itself, and no stop has read another PID), `TokenIsSettled`
(whoever is making a token while a server serves was at it when the server took the stored
one, because `TokenExists` from then on) and `AppStartsOnce`. A signal is one lemma
(`EndStep`) for its three senders.

`ServerProofs`, on `SaveLoop`, for any finite set of requests and any capacity:
`RowsFollowTheChannel`, `LoopEndsEmpty`, and `RecordsAccounted` (a pushed record is in the
channel, in hand, written or in error). The rows alone do not determine where a record is,
so the inductive invariant ties everything to the history `pushed`: what has been received,
then the channel (`ChannelIsTail`); the hand is the last received (`HandIsLast`); all before
it are written or in error (`FinishedHasFate`), the written ones in order (`SavedInOrder`);
and a request pushes once (`PushedOnce`).

`FeedbackSignalsProofs`, for any answers, thresholds, ratings, failures and crashes:
`CountsMatchSignals` and `StaleProfileHasJob`. That counts are exact needs that the
interaction of the job in hand still has no list when the transaction begins
(`NotCountedYet`), which holds because one worker stores lists and holds one job; that the
table is exact then is a count of finite sets of occurrences. That the profile follows
needs that the delta of the worker is the one of the present counts (`DeltaIsCurrent`) and
that two patterns have no display form in common (`DisplaysKeyed`): without that a
removal could take back an addition of the same application.

`QueryCacheRingProofs`, for any sizes, times to live, similarities and requests:
`ValidPrefix`, `RingInPutOrder`, `NothingLostEarly` and `NoNeedlessWork`. One lemma carries
the ring (`SlotsMoveDown`: compaction moves the kept slots to the first places, one to one
and in order). `RingInPutOrder` compares neighbours; the invariant (`OrderedPairwise`)
compares any two, because compaction may make neighbours of any two. `NoneFromTheFuture`
makes a new entry the last put. `NoNeedlessWork` compares two entries that have been in the
ring at different times of their requests; the invariant says of each request that has
scanned the ring that it had a reason to miss every entry that is there now, whether it saw
it or the entry was put since (`MissesHaveReason`), and hands this to the entry it puts
(`WorkHasReason`). `NothingLostEarly` needs that a pass judges by a time that has passed
(`SweepIsPast`) and that the cursor of a full ring is at the first entry (`CursorIsFirst`).
`RingAssumption` types the constants and says that the constant for "no entry" is no query.

`IngestIndexProofs`, for any finite set of rows, limits and delete requests:
`CompletedMeansSearchable` and `OrphansComeFromFaults`. The first follows the vector from
the insert to the end of the job (`InsertedIsThere`, `UpdatedIsThere`) and needs that a job
never runs again once its row names a vector of its own (`OwnRefsMeanDone`): a second run
would replace the reference. The second is not inductive: a vector its row names becomes an
orphan when a delete that has not noted it removes the row. The invariant therefore counts
those vectors beforehand (`Stranded`), against failed calls, crashes and the races that
can strand nothing more (`SpentRaces`), and says that each race is recorded (`RacesAreSeen`).

`EnrichmentProofs` begins with facts about finite sets, sequences and folds. A fold of the
community modules is the choice of a function that unrolls the recursion, so that there is
one has to be shown. A finite set has a least member among any subsets of it (`LeastSet`,
from the well-founded order of subsets), and this takes the place of induction over data:
`UpTo` is induction up to a number over a set in place of a predicate, and with it the
function is built for FoldLeft over prefixes of a sequence and for FoldSet over subsets.
What a loop of the code computes is then stated for each prefix or subset it has been
through.

Of `DeepEnrich`, for any finite set of documents, tags, sizes, answers and faults:
`RunningIsAccounted`, `PassLosesNothing`, `GroupsAreComponents`, `CompletedMeansEnriched`
and `ImplementsLedger`. The inductive invariant `DeepInv` adds

- `WorkIsDivided`: groups, batches and the batch in hand divide the documents without
  outcome and name none twice. It is stronger than `PassLosesNothing`, which says so
  of the parts alone; the step from one group to its batches needs the sums over both.
  That nothing is lost there is `BatchesAreSound` (every document in one batch, every batch
  of several within the budget), by induction over the documents packed.
- `LoadedOnce` and `WorkInPlace`: a claim names no job twice, and what one pass works on is
  empty before the next. With them the jobs in hand are those claimed, loaded or unresolved.
- `OldAreStranded`: only a job that no pass holds can be found stale, so ResetStaleJobs
  takes none away.
- `AttemptsLeft`: a job that is pending or running has an attempt left, which is what the
  ledger asks of a start.

`GroupsAreComponents` is the correctness of the union-find: after any pairs, the blocks
divide the documents, unite each of the pairs, and join only what a chain of similar
documents links (`Blocks`); after all pairs the blocks are closed under similarity, hence
are the components. The documents without tags make the remaining group.

Of `Enricher` with `HybridSearch` and `Reranker`, for any finite sets of records and
texts, any similarities, relevances, limits and numbers of goroutines: `CandidatesComplete`
and `ContextIsSound`. The inductive invariant `EnrichInv` says of each part:

- search: a search by similarity that has read its scores holds every record that was there
  from the beginning and stayed, or as many as it was asked for, less those deleted since
  (`VectorReach`). This is followed through heap, fetch, fusion, merge and deduplication. What
  is lost on the way is bounded by counting: a source is lost only to a better record of
  its own, so at most one place for each second record (`CandidatesComplete`). `OneScores`
  (no result has two scores for a record) makes ids and entries equally many, and
  `FusedLast` that a merge finds one result for each text.
- reranker: a goroutine sends one result and it is collected once (`ResultsOnce`); while the
  context is live, whoever ended has sent (`EndedAccounted`). So when the channel is found
  closed and the time is not up, every chunk has its score (`RerankStages`).
- pipeline: the chunks reranked are the candidates retrieved, and no part begins before the
  one it depends on has ended (`Stages`).

Assumptions: the types of the constants; finitely many documents, records and texts; and
that retrieval returns no more than the reranker has numbers for
(`RetrieveK <= MaxChunks`), which bounds the model and not the code.

`VerdictIsFinal`, `OneApplier`, `FileHasOwner` and the types are proved and have no run of
their own: `ImplementsLedger`, `VerdictStands` and `LoneServerIsNamed`, which build on
them, do.

Only model-checked: the liveness properties (`EveryJobSettles`, `AnswerSavedOrCounted`,
`ShutdownEnds`, `RatingIsLearned`, `AcceptanceSettles`, `DeepJobSettles`,
`EveryScorerEnds`, `DoubleStartResolves`). They rest on fairness and need ENABLED, which is
out of reach of the prover.

## 7. Limits

Not modelled, with the reasons in `PROJECT.json`: intent extraction and the wording of
prompts, the proxy and engine clients, the MCP tools (thin wrappers of operations modelled
here), configuration beyond the API token, the command line beyond the token it makes, the
onboarding notice, the status command, and the user interface of the macOS application.

Text is not modelled: prompts, summaries, tags, profile shape and query
normalization are sets of values, embeddings and relevances tables of numbers. SQLite
is taken to execute a transaction atomically and to keep what it committed; a crash
loses memory only. `ServerInstances` shows that two
servers on one database are together only until one finds the port taken; the other
modules assume one. That the system gives the PID of a dead server to another program is
left out. Of the API token's store, each of the two steps is taken as one: that writing
`secrets.json` is itself reading and replacing a file is left out, and so are the failures
of the macOS keychain (section 5). Schedules (poll
intervals, the idle detector, the nightly and the deep hour) are left open: a round may
begin at any time. A keyword query is taken to match or not; that FTS5 may refuse its
text as a syntax error is the failing half of a search (`SearchFails`).
