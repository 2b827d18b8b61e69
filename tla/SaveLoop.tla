------------------------------ MODULE SaveLoop ------------------------------
(***************************************************************************)
(* How an answered chat request becomes a row: the handler pushes a record *)
(* into a bounded channel, one goroutine (interactionSaveLoop) takes       *)
(* records out and writes them, and runServer stops both when a signal     *)
(* comes (internal/api/openai.go, cmd/tbyd/server.go).                     *)
(*                                                                         *)
(* The context of the loop is the one the signal cancels.  A write with a  *)
(* cancelled context fails; the drain uses a context nobody cancels.       *)
(***************************************************************************)
EXTENDS Integers, Sequences, FiniteSets

CONSTANTS
  Request,          \* chat requests
  Capacity,         \* of saveCh (64)
  EnqueueSummarize  \* a summarizer model is configured

ASSUME SaveAssumption ==
  /\ Request # {} /\ IsFiniteSet(Request)
  /\ Capacity \in Nat \ {0}
  /\ EnqueueSummarize \in BOOLEAN

VARIABLES
  req,        \* where a request is
  complete,   \* requests whose answer was complete
  chan,       \* saveCh
  loop,       \* where interactionSaveLoop is
  hand,       \* the record it has taken, or none
  ctxDone,    \* the signal has come
  main,       \* where runServer is
  saved,      \* rows written, in order
  jobs,       \* interaction_summarize jobs enqueued
  dropped,    \* counted by droppedInteractions
  failed,     \* history: records the store refused
  cancelled,  \* history: records whose write met a cancelled context
  pushed      \* history: records sent to the channel, in order

vars == <<req, complete, chan, loop, hand, ctxDone, main, saved, jobs, dropped,
          failed, cancelled, pushed>>

Elements(s) == {s[k] : k \in DOMAIN s}

(* The type of the state; the channel never holds more than its capacity. *)
TypeOK ==
  /\ req \in [Request -> {"new", "upstream", "answered", "over"}]
  /\ complete \subseteq Request
  /\ chan \in Seq(Request) /\ Len(chan) <= Capacity
  /\ loop \in {"select", "save", "enqueue", "drain", "drainSave", "drainEnqueue", "done"}
  /\ hand \subseteq Request /\ Cardinality(hand) <= 1
  /\ ctxDone \in BOOLEAN
  /\ main \in {"serving", "stopping", "waiting", "closed", "aborted"}
  /\ saved \in Seq(Request) /\ pushed \in Seq(Request)
  /\ jobs \subseteq Request /\ dropped \subseteq Request
  /\ failed \subseteq Request /\ cancelled \subseteq Request

Init ==
  /\ req = [r \in Request |-> "new"]
  /\ complete = {}
  /\ chan = <<>> /\ loop = "select" /\ hand = {}
  /\ ctxDone = FALSE /\ main = "serving"
  /\ saved = <<>> /\ jobs = {} /\ dropped = {}
  /\ failed = {} /\ cancelled = {} /\ pushed = <<>>

Running == main \notin {"closed", "aborted"}

-----------------------------------------------------------------------------
(* handleChatCompletions *)

LoopUnchanged == UNCHANGED <<loop, hand, saved, jobs, failed, cancelled>>

(* The listener is open until Shutdown, also after the signal. *)
Accept(r) ==
  /\ main = "serving" /\ req[r] = "new"
  /\ req' = [req EXCEPT ![r] = "upstream"]
  /\ UNCHANGED <<complete, chan, ctxDone, main, dropped, pushed>> /\ LoopUnchanged

(* The answer has been sent; a stream without [DONE] counts as aborted. *)
Answer(r) ==
  /\ Running /\ req[r] = "upstream"
  /\ req' = [req EXCEPT ![r] = "answered"]
  /\ complete' \in {complete, complete \cup {r}}
  /\ UNCHANGED <<chan, ctxDone, main, dropped, pushed>> /\ LoopUnchanged

(* An upstream error or an empty answer leaves nothing to save. *)
NoAnswer(r) ==
  /\ Running /\ req[r] = "upstream"
  /\ req' = [req EXCEPT ![r] = "over"]
  /\ UNCHANGED <<complete, chan, ctxDone, main, dropped, pushed>> /\ LoopUnchanged

(* Seeded bug: a dropped record is not counted. *)
Push_NotCounted(r) ==
  /\ Running /\ req[r] = "answered"
  /\ req' = [req EXCEPT ![r] = "over"]
  /\ IF Len(chan) < Capacity
       THEN chan' = Append(chan, r) /\ pushed' = Append(pushed, r)
       ELSE UNCHANGED <<chan, pushed>>
  /\ UNCHANGED <<complete, ctxDone, main, dropped>> /\ LoopUnchanged

(* The send does not block: a full channel drops the record and counts it. *)
Push(r) ==
  /\ Running /\ req[r] = "answered"
  /\ req' = [req EXCEPT ![r] = "over"]
  /\ IF Len(chan) < Capacity
       THEN chan' = Append(chan, r) /\ pushed' = Append(pushed, r) /\ dropped' = dropped
       ELSE dropped' = dropped \cup {r} /\ UNCHANGED <<chan, pushed>>
  /\ UNCHANGED <<complete, ctxDone, main>> /\ LoopUnchanged

-----------------------------------------------------------------------------
(* interactionSaveLoop and doSaveInteraction *)

HandlersUnchanged == UNCHANGED <<req, complete, ctxDone, main, dropped, pushed>>

LoopTo(p) == loop' = p /\ HandlersUnchanged

(* Seeded bug: the record is looked at and not received. *)
Take_Peek(from, to) ==
  /\ Running /\ loop = from /\ chan # <<>>
  /\ hand' = {Head(chan)}
  /\ chan' = chan
  /\ LoopTo(to)
  /\ UNCHANGED <<saved, jobs, failed, cancelled>>

Take(from, to) ==
  /\ Running /\ loop = from /\ chan # <<>>
  /\ hand' = {Head(chan)}
  /\ chan' = Tail(chan)
  /\ LoopTo(to)
  /\ UNCHANGED <<saved, jobs, failed, cancelled>>

(* Go's select: with both cases ready either may be chosen. *)
TakeRecord == Take("select", "save")
SeeCancelled ==
  /\ Running /\ loop = "select" /\ ctxDone
  /\ LoopTo("drain")
  /\ UNCHANGED <<chan, hand, saved, jobs, failed, cancelled>>

NeedsJob == EnqueueSummarize /\ hand \subseteq complete

(* SaveInteraction succeeded. *)
Save(from, enqueue, next) ==
  /\ Running /\ loop = from
  /\ saved' = Append(saved, CHOOSE r \in hand : TRUE)
  /\ IF NeedsJob THEN LoopTo(enqueue) /\ hand' = hand
                 ELSE LoopTo(next) /\ hand' = {}
  /\ UNCHANGED <<chan, jobs, failed, cancelled>>

Enqueue(from, next) ==
  /\ Running /\ loop = from
  /\ jobs' = jobs \cup hand
  /\ hand' = {}
  /\ LoopTo(next)
  /\ UNCHANGED <<chan, saved, failed, cancelled>>

SaveRecord == ~ctxDone /\ Save("save", "enqueue", "select")
EnqueueRecord == ~ctxDone /\ Enqueue("enqueue", "select")

(* The write meets the cancelled context: it is logged, the row or the job *)
(* is missing, the loop goes on.                                            *)
WriteCancelled ==
  /\ Running /\ ctxDone /\ loop \in {"save", "enqueue"}
  /\ cancelled' = cancelled \cup hand
  /\ hand' = {}
  /\ LoopTo("select")
  /\ UNCHANGED <<chan, saved, jobs, failed>>

(* The store refuses a row or a job, which is logged. *)
WriteFails ==
  /\ Running /\ hand # {}
  /\ failed' = failed \cup hand
  /\ hand' = {}
  /\ LoopTo(IF loop \in {"save", "enqueue"} THEN "select" ELSE "drain")
  /\ UNCHANGED <<chan, saved, jobs, cancelled>>

DrainTake == Take("drain", "drainSave")
DrainSave == Save("drainSave", "drainEnqueue", "drain")
DrainEnqueue == Enqueue("drainEnqueue", "drain")

(* Seeded bug: the loop ends without emptying the channel. *)
DrainEnd_Early ==
  /\ Running /\ loop = "drain"
  /\ LoopTo("done")
  /\ UNCHANGED <<chan, hand, saved, jobs, failed, cancelled>>

(* Seeded bug: the drain waits for the channel to be closed. *)
DrainEnd_Never ==
  /\ Running /\ loop = "drain" /\ chan = <<>>
  /\ LoopTo("drain")
  /\ UNCHANGED <<chan, hand, saved, jobs, failed, cancelled>>

DrainEnd ==
  /\ Running /\ loop = "drain" /\ chan = <<>>
  /\ LoopTo("done")
  /\ UNCHANGED <<chan, hand, saved, jobs, failed, cancelled>>

-----------------------------------------------------------------------------
(* runServer *)

OthersUnchanged == UNCHANGED <<req, complete, chan, dropped, pushed>> /\ LoopUnchanged

Signal ==
  /\ main = "serving" /\ ~ctxDone
  /\ ctxDone' = TRUE /\ main' = main
  /\ OthersUnchanged

(* Shutdown closes the listener and waits for the requests in flight. *)
BeginShutdown ==
  /\ main = "serving" /\ ctxDone
  /\ main' = "stopping" /\ ctxDone' = ctxDone
  /\ OthersUnchanged

RequestsOver == \A r \in Request : req[r] \in {"new", "over"}

ShutdownDone ==
  /\ main = "stopping" /\ RequestsOver
  /\ main' = "waiting" /\ ctxDone' = ctxDone
  /\ OthersUnchanged

(* After five seconds runServer returns without waiting for the loop. *)
ShutdownTimeout ==
  /\ main = "stopping" /\ ~RequestsOver
  /\ main' = "aborted" /\ ctxDone' = ctxDone
  /\ OthersUnchanged

(* The listener broke: runServer returns the error at once. *)
ServerError ==
  /\ main = "serving"
  /\ main' = "aborted" /\ ctxDone' = ctxDone
  /\ OthersUnchanged

(* waitSaveLoop returned; the store is closed and the process ends. *)
Close ==
  /\ main = "waiting" /\ loop = "done"
  /\ main' = "closed" /\ ctxDone' = ctxDone
  /\ OthersUnchanged

LoopStep ==
  \/ TakeRecord \/ SaveRecord \/ EnqueueRecord \/ WriteCancelled \/ WriteFails
  \/ SeeCancelled \/ DrainTake \/ DrainSave \/ DrainEnqueue \/ DrainEnd

HandlerStep(r) == Answer(r) \/ NoAnswer(r) \/ Push(r)

StopStep == BeginShutdown \/ ShutdownDone \/ ShutdownTimeout \/ Close

Next ==
  \/ \E r \in Request : Accept(r) \/ HandlerStep(r)
  \/ LoopStep
  \/ Signal \/ StopStep \/ ServerError

Spec == Init /\ [][Next]_vars

(* The goroutines run: the loop, a handler that only has its record to send *)
(* (the upstream may take for ever) and runServer once the signal has come. *)
Fairness ==
  /\ WF_vars(LoopStep)
  /\ \A r \in Request : WF_vars(Push(r))
  /\ WF_vars(StopStep)

FairSpec == Spec /\ Fairness

-----------------------------------------------------------------------------
(* Properties *)

(* One consumer: rows are written in the order of the answers, none twice,  *)
(* whichever branch of the loop writes them.                                *)
RowsFollowTheChannel ==
  /\ \A k, l \in DOMAIN saved : k < l =>
       \E m, n \in DOMAIN pushed : m < n /\ pushed[m] = saved[k] /\ pushed[n] = saved[l]
  /\ Cardinality(Elements(saved)) = Len(saved)

(* While the server runs, an answer is saved, counted as dropped (the       *)
(* number /health reports), or met an error; or it came after the loop had  *)
(* ended.                                                                   *)
AnswerSavedOrCounted ==
  \A r \in Request :
    req[r] = "answered" ~>
      \/ r \in Elements(saved) \cup dropped \cup failed \cup cancelled
      \/ loop = "done"
      \/ ~Running

(* When the loop ends, every record sent so far was written or met an       *)
(* error: the drain leaves nothing in the channel or in hand.               *)
LoopEndsEmpty ==
  [][loop' = "done" /\ loop # "done" =>
       Elements(pushed) \subseteq Elements(saved) \cup failed \cup cancelled]_vars

(* A stop always comes to an end: waitSaveLoop does not hang. *)
ShutdownEnds == ctxDone ~> ~Running

(* Comment of NewOpenAIHandler: the cleanup blocks until the loop "has      *)
(* finished draining, ensuring all buffered saves complete before the store *)
(* is closed".  TLC refutes it: handlers that answer after the loop has     *)
(* drained push records that stay.                                          *)
BufferEmptyAtClose == main = "closed" => chan = <<>>

=============================================================================
