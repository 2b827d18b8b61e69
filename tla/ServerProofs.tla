--------------------------- MODULE ServerProofs ---------------------------
(***************************************************************************)
(* Theorems about the server of cmd/tbyd/server.go: SaveLoop, for any      *)
(* finite set of requests, any capacity of the channel, and any signals,   *)
(* refused writes and timeouts; and ServerInstances, for any number of     *)
(* starts, stops, commands and faults.                                     *)
(*                                                                         *)
(* SaveLoop.  The history variable pushed is what has been received, then  *)
(* what is in the channel (ChannelIsTail); the loop holds the last record  *)
(* received (HandIsLast), and what it has dealt with before are the first  *)
(* Finished records, each of them written or in error (FinishedHasFate),   *)
(* the written ones in their order (SavedInOrder).  A request pushes once  *)
(* (PushedOnce), which is why no row repeats.                              *)
(*                                                                         *)
(* ServerInstances.  Each safety property needs a fact about what others   *)
(* may still do: that nobody else is in the file or about to remove it     *)
(* (AloneInTheFile), that whoever is making a token was at it when the     *)
(* server took the stored one (TokenIsSettled), that the application's     *)
(* processes have left their start (AppStartsOnce).                        *)
(***************************************************************************)
EXTENDS SaveLoop, ServerInstances, FiniteSetTheorems, TLAPS

(* Records the loop has received.                                           *)
Taken == Len(pushed) - Len(chan)

ChannelIsTail ==
  /\ Len(chan) <= Len(pushed)
  /\ \A k \in 1 .. Len(chan) : chan[k] = pushed[Taken + k]

Holding == {"save", "enqueue", "drainSave", "drainEnqueue"}

HandIsLast ==
  IF loop \in Holding THEN Taken > 0 /\ hand = {pushed[Taken]}
                      ELSE hand = {}

(* Records written or given up; in the enqueue states the row is there.     *)
Finished == IF loop \in {"save", "drainSave"} THEN Taken - 1 ELSE Taken

FinishedHasFate ==
  \A m \in 1 .. Finished : pushed[m] \in Elements(saved) \cup failed \cup cancelled

SavedInOrder ==
  /\ \A k \in DOMAIN saved : \E m \in 1 .. Finished : pushed[m] = saved[k]
  /\ \A k, l \in DOMAIN saved : k < l =>
       \E m, n \in 1 .. Finished : m < n /\ pushed[m] = saved[k] /\ pushed[n] = saved[l]

PushedOnce ==
  /\ \A k \in DOMAIN pushed : req[pushed[k]] = "over"
  /\ \A k, l \in DOMAIN pushed : pushed[k] = pushed[l] => k = l

Track ==
  /\ ChannelIsTail
  /\ HandIsLast
  /\ FinishedHasFate
  /\ SavedInOrder
  /\ PushedOnce

IInv == TypeOK /\ Track

-----------------------------------------------------------------------------
LEMMA HandCounts ==
  ASSUME NEW H, H = {} \/ \E r \in Request : H = {r}
  PROVE  H \subseteq Request /\ Cardinality(H) <= 1
<1>1. Cardinality({}) = 0
  BY FS_EmptySet
<1>2. \A r : Cardinality({r}) = 1
  BY FS_Singleton
<1>3. QED
  BY <1>1, <1>2

LEMMA HeldRecord ==
  ASSUME IInv, loop \in Holding
  PROVE  /\ Taken \in 1 .. Len(pushed)
         /\ pushed[Taken] \in Request
         /\ hand = {pushed[Taken]}
         /\ (CHOOSE r \in hand : TRUE) = pushed[Taken]
BY DEF IInv, Track, TypeOK, HandIsLast, ChannelIsTail, Taken

LEMMA InitIInv == Init => IInv
<1> SUFFICES ASSUME Init PROVE IInv
  OBVIOUS
<1>1. TypeOK
  <2>1. <<>> \in Seq(Request) /\ Len(<<>>) = 0
    OBVIOUS
  <2>2. {} \subseteq Request /\ Cardinality({}) <= 1
    BY HandCounts
  <2>3. Len(<<>>) <= Capacity
    BY <2>1, SaveAssumption DEF SaveAssumption
  <2>4. ctxDone \in BOOLEAN
    BY Zenon DEF Init
  <2>5. QED
    BY <2>1, <2>2, <2>3, <2>4 DEF Init, TypeOK
<1>2. Track
  BY DEF Init, Track, ChannelIsTail, HandIsLast, FinishedHasFate, SavedInOrder, PushedOnce,
         Taken, Finished, Holding
<1>3. QED
  BY <1>1, <1>2 DEF IInv

(* Steps that leave the channel, the loop and the rows alone.               *)
LEMMA LoopUntouched ==
  ASSUME IInv, UNCHANGED <<chan, loop, hand, saved, failed, cancelled, pushed>>,
         \A r \in Request : req[r] = "over" => req'[r] = "over"
  PROVE  Track'
<1>1. \A k \in DOMAIN pushed : pushed[k] \in Request
  BY DEF IInv, TypeOK
<1>2. QED
  BY <1>1 DEF IInv, Track, ChannelIsTail, HandIsLast, FinishedHasFate, SavedInOrder, PushedOnce,
               Taken, Finished, Holding, Elements

LEMMA HandlerMove ==
  ASSUME IInv, NEW r \in Request, Accept(r) \/ Answer(r) \/ NoAnswer(r)
  PROVE  IInv'
<1>1. TypeOK'
  <2>1. /\ req' \in [Request -> {"new", "upstream", "answered", "over"}]
        /\ complete' \subseteq Request
    <3>1. CASE Accept(r)
      BY <3>1 DEF IInv, TypeOK, Accept
    <3>2. CASE Answer(r)
      BY <3>2 DEF IInv, TypeOK, Answer
    <3>3. CASE NoAnswer(r)
      BY <3>3 DEF IInv, TypeOK, NoAnswer
    <3>4. QED
      BY <3>1, <3>2, <3>3
  <2>2. UNCHANGED <<chan, loop, hand, ctxDone, main, saved, jobs, dropped, failed, cancelled, pushed>>
    BY Zenon DEF Accept, Answer, NoAnswer, LoopUnchanged
  <2>3. QED
    BY <2>1, <2>2 DEF IInv, TypeOK
<1>2. \A x \in Request : req[x] = "over" => req'[x] = "over"
  BY DEF IInv, TypeOK, Accept, Answer, NoAnswer
<1>3. UNCHANGED <<chan, loop, hand, saved, failed, cancelled, pushed>>
  BY DEF Accept, Answer, NoAnswer, LoopUnchanged
<1>4. Track'
  BY <1>2, <1>3, LoopUntouched
<1>5. QED
  BY <1>1, <1>4 DEF IInv

LEMMA MainMove ==
  ASSUME IInv,
         Signal \/ BeginShutdown \/ ShutdownDone \/ ShutdownTimeout \/ ServerError \/ Close
  PROVE  IInv'
<1>1. TypeOK' /\ UNCHANGED <<req, chan, loop, hand, saved, failed, cancelled, pushed>>
  BY DEF IInv, TypeOK, Signal, BeginShutdown, ShutdownDone, ShutdownTimeout, ServerError, Close,
         OthersUnchanged, LoopUnchanged
<1>2. Track'
  BY <1>1, LoopUntouched
<1>3. QED
  BY <1>1, <1>2 DEF IInv

LEMMA PushStep ==
  ASSUME IInv, NEW r \in Request, Push(r)
  PROVE  IInv'
<1> USE DEF Push, LoopUnchanged
<1>1. TypeOK'
  <2>1. chan \in Seq(Request) /\ pushed \in Seq(Request)
    BY DEF IInv, TypeOK
  <2>2. Len(chan) \in Nat /\ Capacity \in Nat
    BY <2>1, SaveAssumption DEF SaveAssumption
  <2>3. chan' \in Seq(Request) /\ pushed' \in Seq(Request)
    <3>1. Append(chan, r) \in Seq(Request) /\ Append(pushed, r) \in Seq(Request)
      BY <2>1
    <3>2. QED
      BY <2>1, <3>1
  <2>4. Len(chan') <= Capacity
    BY <2>1, <2>2 DEF IInv, TypeOK
  <2>5. req' \in [Request -> {"new", "upstream", "answered", "over"}] /\ dropped' \subseteq Request
    BY DEF IInv, TypeOK
  <2>6. QED
    BY <2>3, <2>4, <2>5 DEF IInv, TypeOK
<1>2. \A x \in Request : req[x] = "over" => req'[x] = "over"
  BY DEF IInv, TypeOK
<1>3. CASE ~(Len(chan) < Capacity)
  <2>1. Track'
    BY <1>2, <1>3, LoopUntouched
  <2>2. QED
    BY <1>1, <2>1 DEF IInv
<1>4. CASE Len(chan) < Capacity
  <2>1. chan' = Append(chan, r) /\ pushed' = Append(pushed, r)
    BY <1>4
  <2>2. chan \in Seq(Request) /\ pushed \in Seq(Request)
    BY DEF IInv, TypeOK
  <2>3. /\ Len(chan') = Len(chan) + 1 /\ Len(pushed') = Len(pushed) + 1
        /\ \A k \in 1 .. Len(chan) : chan'[k] = chan[k]
        /\ chan'[Len(chan) + 1] = r
        /\ \A k \in 1 .. Len(pushed) : pushed'[k] = pushed[k]
        /\ pushed'[Len(pushed) + 1] = r
    BY <2>1, <2>2
  <2>4. Len(chan) \in Nat /\ Len(pushed) \in Nat /\ Taken \in Nat /\ Taken <= Len(pushed)
    BY <2>2 DEF IInv, Track, ChannelIsTail, Taken
  <2>5. Taken' = Taken /\ Finished' = Finished
    BY <2>3, <2>4 DEF Taken, Finished
  <2>6. ChannelIsTail'
    BY <2>3, <2>4, <2>5 DEF IInv, Track, ChannelIsTail, Taken
  <2>7. HandIsLast'
    BY <2>3, <2>4, <2>5 DEF IInv, Track, HandIsLast
  <2>8. Finished \in Int /\ Finished <= Len(pushed)
    BY <2>4 DEF Finished
  <2>9. FinishedHasFate'
    BY <2>3, <2>4, <2>5, <2>8 DEF IInv, Track, FinishedHasFate
  <2>10. SavedInOrder'
    <3>1. \A m \in 1 .. Finished : pushed'[m] = pushed[m]
      BY <2>3, <2>4, <2>8
    <3>2. QED
      BY <3>1, <2>5 DEF IInv, Track, SavedInOrder
  <2>11. PushedOnce'
    <3>1. req[r] # "over" /\ req'[r] = "over"
      BY DEF IInv, TypeOK
    <3>2. DOMAIN pushed = 1 .. Len(pushed) /\ DOMAIN pushed' = 1 .. Len(pushed) + 1
      BY <2>1, <2>2
    <3>3. \A k \in DOMAIN pushed : pushed[k] # r /\ pushed[k] \in Request
      BY <3>1 DEF IInv, Track, TypeOK, PushedOnce
    <3>4. QED
      BY <1>2, <2>3, <2>4, <3>1, <3>2, <3>3 DEF IInv, Track, PushedOnce
  <2>12. QED
    BY <1>1, <2>6, <2>7, <2>9, <2>10, <2>11 DEF IInv, Track
<1>5. QED
  BY <1>3, <1>4

-----------------------------------------------------------------------------
(* A loop that received a record from one of its two selects.               *)
LEMMA TakeStep ==
  ASSUME IInv, NEW from \in {"select", "drain"}, NEW to \in {"save", "drainSave"}, Take(from, to)
  PROVE  IInv'
<1> USE DEF Take, LoopTo, HandlersUnchanged
<1>1. chan \in Seq(Request) /\ pushed \in Seq(Request) /\ chan # <<>>
  BY DEF IInv, TypeOK
<1>2. /\ Len(chan) \in Nat /\ Len(pushed) \in Nat /\ Len(chan) > 0 /\ Head(chan) = chan[1]
      /\ chan' \in Seq(Request) /\ Len(chan') = Len(chan) - 1
      /\ \A k \in 1 .. Len(chan) - 1 : chan'[k] = chan[k + 1]
      /\ Head(chan) \in Request
  BY <1>1
<1>3. Taken \in Nat /\ Taken < Len(pushed) /\ Taken' = Taken + 1 /\ chan[1] = pushed[Taken + 1]
  BY <1>2 DEF IInv, Track, ChannelIsTail, Taken
<1>4. Finished = Taken /\ Finished' = Taken
  BY <1>3 DEF Finished
<1>5. TypeOK'
  <2>1. hand' \subseteq Request /\ Cardinality(hand') <= 1
    BY <1>2, HandCounts
  <2>2. Len(chan') <= Capacity
    BY <1>2, SaveAssumption DEF IInv, TypeOK, SaveAssumption
  <2>3. QED
    BY <1>2, <2>1, <2>2 DEF IInv, TypeOK
<1>6. ChannelIsTail'
  BY <1>2, <1>3 DEF IInv, Track, ChannelIsTail
<1>7. HandIsLast'
  BY <1>2, <1>3 DEF HandIsLast, Holding
<1>8. FinishedHasFate' /\ SavedInOrder' /\ PushedOnce'
  BY <1>4 DEF IInv, Track, FinishedHasFate, SavedInOrder, PushedOnce, Elements
<1>9. QED
  BY <1>5, <1>6, <1>7, <1>8 DEF IInv, Track

(* The row is appended; the record stays in hand when it needs a job.       *)
LEMMA SaveStep ==
  ASSUME IInv, NEW from \in {"save", "drainSave"},
         NEW enqueue \in {"enqueue", "drainEnqueue"}, NEW next \in {"select", "drain"},
         Save(from, enqueue, next)
  PROVE  IInv'
<1> USE DEF Save, LoopTo, HandlersUnchanged
<1>1. loop \in Holding /\ loop \in {"save", "drainSave"}
  BY DEF Holding
<1>2. PICK x \in Request : x = pushed[Taken]
  BY <1>1, HeldRecord
<1>3. /\ Taken \in 1 .. Len(pushed) /\ hand = {x}
      /\ saved' = Append(saved, x)
  BY <1>1, <1>2, HeldRecord
<1>4. saved \in Seq(Request) /\ pushed \in Seq(Request) /\ chan' = chan /\ pushed' = pushed
  BY DEF IInv, TypeOK
<1>5. /\ Len(saved) \in Nat /\ DOMAIN saved = 1 .. Len(saved)
      /\ DOMAIN saved' = 1 .. Len(saved) + 1
      /\ \A k \in 1 .. Len(saved) : saved'[k] = saved[k]
      /\ saved'[Len(saved) + 1] = x
      /\ saved' \in Seq(Request)
  BY <1>3, <1>4
<1>6. Taken' = Taken /\ loop' \notin {"save", "drainSave"} /\ Taken \in Nat
  BY <1>3, <1>4 DEF Taken
<1>7. UNCHANGED <<req, failed, cancelled>>
  OBVIOUS
<1>8. Finished = Taken - 1 /\ Finished' = Taken
  BY <1>1, <1>6 DEF Finished
<1>9. hand' = {} \/ hand' = {x}
  BY <1>3
<1>10. TypeOK'
  BY <1>2, <1>5, <1>9, HandCounts DEF IInv, TypeOK
<1>11. ChannelIsTail'
  BY <1>4, <1>6 DEF IInv, Track, ChannelIsTail
<1>12. HandIsLast'
  BY <1>2, <1>3, <1>4, <1>6 DEF HandIsLast, Holding
<1> HIDE DEF Save, LoopTo, HandlersUnchanged
<1>13. FinishedHasFate'
  <2>1. x \in Elements(saved') /\ Elements(saved) \subseteq Elements(saved')
    BY <1>5 DEF Elements
  <2>2. \A m \in 1 .. Taken : m \in 1 .. Finished \/ m = Taken
    BY <1>6, <1>8
  <2>3. QED
    BY <1>2, <1>4, <1>8, <1>7, <2>1, <2>2 DEF IInv, Track, FinishedHasFate, Elements
<1>14. SavedInOrder'
  <2>1. \A m \in 1 .. Finished : m \in 1 .. Taken /\ m < Taken
    BY <1>6, <1>8
  <2>2. Taken \in 1 .. Taken
    BY <1>3
  <2>3. ASSUME NEW k \in DOMAIN saved'
        PROVE  \E m \in 1 .. Taken : pushed[m] = saved'[k]
    <3>1. CASE k \in 1 .. Len(saved)
      BY <1>5, <2>1, <3>1 DEF IInv, Track, SavedInOrder
    <3>2. CASE k = Len(saved) + 1
      <4>1. saved'[k] = pushed[Taken]
        BY <1>2, <1>5, <3>2
      <4>2. QED
        BY <2>2, <4>1
    <3>3. QED
      BY <1>5, <3>1, <3>2
  <2>4. ASSUME NEW k \in DOMAIN saved', NEW l \in DOMAIN saved', k < l
        PROVE  \E m, n \in 1 .. Taken : m < n /\ pushed[m] = saved'[k] /\ pushed[n] = saved'[l]
    <3>1. k \in 1 .. Len(saved) /\ (l \in 1 .. Len(saved) \/ l = Len(saved) + 1)
      BY <1>5, <2>4
    <3>2. CASE l \in 1 .. Len(saved)
      BY <1>5, <2>1, <2>4, <3>1, <3>2 DEF IInv, Track, SavedInOrder
    <3>3. CASE l = Len(saved) + 1
      <4>1. PICK m \in 1 .. Finished : pushed[m] = saved[k]
        BY <1>5, <3>1 DEF IInv, Track, SavedInOrder
      <4>2. QED
        BY <1>2, <1>5, <2>1, <2>2, <3>1, <3>3, <4>1
    <3>4. QED
      BY <3>1, <3>2, <3>3
  <2>5. pushed' = pushed /\ Finished' = Taken
    BY <1>4, <1>8
  <2>6. /\ \A k \in DOMAIN saved' : \E m \in 1 .. Finished' : pushed'[m] = saved'[k]
        /\ \A k, l \in DOMAIN saved' : k < l =>
             \E m, n \in 1 .. Finished' : m < n /\ pushed'[m] = saved'[k] /\ pushed'[n] = saved'[l]
    BY <2>3, <2>4, <2>5, Zenon
  <2>7. QED
    BY <2>6 DEF SavedInOrder
<1>15. PushedOnce'
  BY <1>4, <1>7 DEF IInv, Track, PushedOnce
<1>16. QED
  BY <1>10, <1>11, <1>12, <1>13, <1>14, <1>15 DEF IInv, Track

(* The loop is done with the record it holds: it was written, or this step  *)
(* notes the error.                                                         *)
LEMMA LetGo ==
  ASSUME IInv, TypeOK', hand' = {}, loop' \in {"select", "drain"},
         UNCHANGED <<req, chan, saved, pushed>>,
         failed \subseteq failed', cancelled \subseteq cancelled',
         loop \in Holding,
         loop \in {"save", "drainSave"} => hand \subseteq failed' \cup cancelled'
  PROVE  IInv'
<1>1. /\ Taken \in 1 .. Len(pushed) /\ hand = {pushed[Taken]} /\ Taken' = Taken
      /\ Taken \in Nat
  BY HeldRecord DEF Taken
<1>2. Finished' = Taken /\ (Finished = Taken \/ (Finished = Taken - 1 /\ loop \in {"save", "drainSave"}))
  BY <1>1 DEF Finished
<1>3. ChannelIsTail' /\ HandIsLast' /\ PushedOnce'
  BY <1>1 DEF IInv, Track, ChannelIsTail, HandIsLast, PushedOnce, Holding
<1>4. FinishedHasFate'
  <2>1. ASSUME NEW m \in 1 .. Taken
        PROVE  pushed[m] \in Elements(saved) \cup failed' \cup cancelled'
    <3>1. CASE m \in 1 .. Finished
      BY <3>1 DEF IInv, Track, FinishedHasFate
    <3>2. CASE m \notin 1 .. Finished
      <4>1. m = Taken /\ loop \in {"save", "drainSave"}
        BY <1>1, <1>2, <3>2
      <4>2. QED
        BY <1>1, <4>1
    <3>3. QED
      BY <3>1, <3>2
  <2>2. QED
    BY <1>2, <2>1 DEF FinishedHasFate, Elements
<1>5. SavedInOrder'
  <2>1. \A m \in 1 .. Finished : m \in 1 .. Taken
    BY <1>1, <1>2
  <2>2. QED
    BY <1>2, <2>1 DEF IInv, Track, SavedInOrder
<1>6. QED
  BY <1>3, <1>4, <1>5 DEF IInv, Track

LEMMA EnqueueStep ==
  ASSUME IInv, NEW from \in {"enqueue", "drainEnqueue"}, NEW next \in {"select", "drain"},
         Enqueue(from, next)
  PROVE  IInv'
<1> USE DEF Enqueue, LoopTo, HandlersUnchanged
<1>1. TypeOK'
  BY HandCounts DEF IInv, TypeOK
<1>2. loop \in Holding /\ loop \notin {"save", "drainSave"}
  BY DEF Holding
<1>3. QED
  BY <1>1, <1>2, LetGo

LEMMA WriteLost ==
  ASSUME IInv, WriteCancelled \/ WriteFails
  PROVE  IInv'
<1> USE DEF WriteCancelled, WriteFails, LoopTo, HandlersUnchanged
<1>1. TypeOK'
  BY HandCounts DEF IInv, TypeOK
<1>2. loop \in Holding
  BY DEF Holding, IInv, Track, HandIsLast
<1>3. QED
  BY <1>1, <1>2, LetGo

LEMMA LoopMove ==
  ASSUME IInv, SeeCancelled \/ DrainEnd
  PROVE  IInv'
<1> USE DEF SeeCancelled, DrainEnd, LoopTo, HandlersUnchanged
<1>1. TypeOK'
  BY DEF IInv, TypeOK
<1>2. Taken' = Taken /\ Finished' = Finished
  BY DEF Taken, Finished
<1>3. Track'
  BY <1>2 DEF IInv, Track, ChannelIsTail, HandIsLast, FinishedHasFate, SavedInOrder, PushedOnce,
              Holding, Elements
<1>4. QED
  BY <1>1, <1>3 DEF IInv

LEMMA LoopStepIInv ==
  ASSUME IInv, LoopStep
  PROVE  IInv'
<1>1. CASE TakeRecord \/ DrainTake
  BY <1>1, TakeStep DEF TakeRecord, DrainTake
<1>2. CASE SaveRecord \/ DrainSave
  BY <1>2, SaveStep DEF SaveRecord, DrainSave
<1>3. CASE EnqueueRecord \/ DrainEnqueue
  BY <1>3, EnqueueStep DEF EnqueueRecord, DrainEnqueue
<1>4. CASE WriteCancelled \/ WriteFails
  BY <1>4, WriteLost
<1>5. CASE SeeCancelled \/ DrainEnd
  BY <1>5, LoopMove
<1>6. QED
  BY <1>1, <1>2, <1>3, <1>4, <1>5 DEF LoopStep

LEMMA NextIInv == IInv /\ [Next]_vars => IInv'
<1> SUFFICES ASSUME IInv, [Next]_vars PROVE IInv'
  OBVIOUS
<1>1. CASE UNCHANGED vars
  <2>1. TypeOK' /\ Track'
    BY <1>1, LoopUntouched DEF vars, IInv, TypeOK
  <2>2. QED
    BY <2>1 DEF IInv
<1>2. CASE \E r \in Request : Accept(r) \/ HandlerStep(r)
  BY <1>2, HandlerMove, PushStep DEF HandlerStep
<1>3. CASE LoopStep
  BY <1>3, LoopStepIInv
<1>4. CASE Signal \/ StopStep \/ ServerError
  BY <1>4, MainMove DEF StopStep
<1>5. QED
  BY <1>1, <1>2, <1>3, <1>4 DEF Next

LEMMA Invariance == Spec => []IInv
BY InitIInv, NextIInv, PTL DEF Spec

-----------------------------------------------------------------------------
(* Every variable keeps its type; the channel never holds more records than *)
(* its capacity and the loop never more than one.                           *)
THEOREM TypeCorrect == Spec => []TypeOK
<1>1. IInv => TypeOK
  BY DEF IInv
<1>2. QED
  BY <1>1, Invariance, PTL

(* Rows are written in the order in which the handlers sent the records,    *)
(* none twice, through refused and cancelled writes, and whether the loop   *)
(* or its drain writes them.                                                *)
THEOREM RowsInOrder == Spec => []RowsFollowTheChannel
<1>1. ASSUME IInv PROVE RowsFollowTheChannel
  <2>1. saved \in Seq(Request) /\ pushed \in Seq(Request) /\ Len(saved) \in Nat
        /\ DOMAIN saved = 1 .. Len(saved) /\ DOMAIN pushed = 1 .. Len(pushed)
    BY <1>1 DEF IInv, TypeOK
  <2>2. 1 .. Finished \subseteq DOMAIN pushed
    BY <1>1, <2>1 DEF IInv, Track, TypeOK, ChannelIsTail, Finished, Taken
  <2>3. \A k, l \in DOMAIN saved : k < l =>
          \E m, n \in DOMAIN pushed : m < n /\ pushed[m] = saved[k] /\ pushed[n] = saved[l]
    BY <1>1, <2>2 DEF IInv, Track, SavedInOrder
  <2>4. \A k, l \in DOMAIN saved : k < l => saved[k] # saved[l]
    BY <1>1, <2>1, <2>3 DEF IInv, Track, PushedOnce
  <2>5. saved \in Surjection(1 .. Len(saved), Elements(saved))
    BY <2>1 DEF Surjection, Elements
  <2>6. saved \in Injection(1 .. Len(saved), Elements(saved))
    BY <2>1, <2>4, <2>5 DEF Injection, IsInjective, Surjection
  <2>7. ExistsBijection(1 .. Len(saved), Elements(saved))
    BY <2>5, <2>6 DEF ExistsBijection, Bijection
  <2>8. Cardinality(Elements(saved)) = Len(saved)
    BY <2>1, <2>7, FS_CountingElements
  <2>9. QED
    BY <2>3, <2>8 DEF RowsFollowTheChannel
<1>2. QED
  BY <1>1, Invariance, PTL

(* The loop ends with nothing owed: the drain has dealt with every record   *)
(* sent before, the one it took when the signal came included.              *)
THEOREM DrainLeavesNothing == Spec => LoopEndsEmpty
<1>1. ASSUME IInv, [Next]_vars, loop' = "done", loop # "done"
      PROVE  Elements(pushed) \subseteq Elements(saved) \cup failed \cup cancelled
  <2>1. DrainEnd
    BY <1>1 DEF Next, LoopStep, HandlerStep, StopStep, vars, Accept, Answer, NoAnswer, Push, Signal,
         BeginShutdown, ShutdownDone, ShutdownTimeout, ServerError, Close, OthersUnchanged,
         LoopUnchanged, LoopTo, TakeRecord, DrainTake, Take, SaveRecord, DrainSave, Save,
         EnqueueRecord, DrainEnqueue, Enqueue, WriteCancelled, WriteFails, SeeCancelled
  <2>2. chan = <<>> /\ loop = "drain" /\ pushed \in Seq(Request)
    BY <1>1, <2>1 DEF DrainEnd, IInv, TypeOK
  <2>3. Finished = Len(pushed) /\ DOMAIN pushed = 1 .. Len(pushed)
    BY <2>2 DEF Finished, Taken
  <2>4. QED
    BY <1>1, <2>3 DEF IInv, Track, FinishedHasFate, Elements
<1>2. IInv /\ [Next]_vars =>
        [loop' = "done" /\ loop # "done" =>
           Elements(pushed) \subseteq Elements(saved) \cup failed \cup cancelled]_vars
  BY <1>1
<1>3. QED
  BY <1>2, Invariance, PTL DEF Spec, LoopEndsEmpty

(* Where a record that was sent can be. *)
RecordsAccounted ==
  Elements(pushed) \subseteq
    Elements(chan) \cup hand \cup Elements(saved) \cup failed \cup cancelled

(* At every moment a record that was sent is in the channel, in the loop's  *)
(* hand, written, or met an error: none is lost between two steps.          *)
THEOREM NoRecordLost == Spec => []RecordsAccounted
<1>1. ASSUME IInv PROVE RecordsAccounted
  <2>1. chan \in Seq(Request) /\ pushed \in Seq(Request)
    BY <1>1 DEF IInv, TypeOK
  <2>2. ASSUME NEW m \in 1 .. Len(pushed)
        PROVE  pushed[m] \in Elements(chan) \cup hand \cup Elements(saved) \cup failed \cup cancelled
    <3>1. CASE m \in 1 .. Finished
      BY <1>1, <3>1 DEF IInv, Track, FinishedHasFate
    <3>2. CASE m > Taken
      <4>1. m - Taken \in 1 .. Len(chan) /\ chan[m - Taken] = pushed[m]
        BY <1>1, <2>1, <3>2 DEF IInv, Track, ChannelIsTail, Taken
      <4>2. QED
        BY <2>1, <4>1 DEF Elements
    <3>3. CASE m = Taken /\ loop \in Holding
      BY <1>1, <3>3, HeldRecord
    <3>4. QED
      BY <1>1, <2>1, <3>1, <3>2, <3>3
         DEF IInv, Track, ChannelIsTail, HandIsLast, Finished, Taken, Holding
  <2>3. QED
    BY <2>1, <2>2 DEF RecordsAccounted, Elements
<1>2. QED
  BY <1>1, Invariance, PTL

-----------------------------------------------------------------------------
(* ServerInstances *)

States == {"new", "ended"} \cup Early \cup Inside

(* What the proofs need of the types.                                        *)
Shape ==
  /\ at \in [Proc -> States]
  /\ held \in [Proc -> SUBSET Maker] /\ racing \in [Proc -> SUBSET Maker]
  /\ token \subseteq Maker /\ making \subseteq Command
  /\ target \in [Stop -> SUBSET Proc]
  /\ \A S \in {port, pidFile, app} : S = {} \/ \E p \in Proc : S = {p}

PortIsServed == \A p \in port : at[p] \in {"serve", "closing"}

AloneInTheFile ==
  \A p \in Proc : at[p] \in Inside /\ p \notin disturbed =>
    /\ pidFile = {p}
    /\ \A q \in Proc : q # p => at[q] \notin Inside
    /\ \A s \in Stop : target[s] \subseteq {p}

TokenExists == \A p \in Proc : at[p] \in {"check", "write"} \cup Inside => token # {}

(* Whoever may still put a token in its place was already making one when    *)
(* the server took its own.                                                  *)
TokenIsSettled ==
  \A p \in Proc : at[p] \in {"serve", "closing"} =>
    /\ held[p] # {}
    /\ held[p] = token \/ token \subseteq racing[p]
    /\ Makers \subseteq racing[p]

AppStartsOnce == byApp \subseteq Proc /\ \A p \in byApp : at[p] # "new"

InstancesInv ==
  /\ Shape
  /\ PortIsServed
  /\ FileHasOwner
  /\ AloneInTheFile
  /\ TokenExists
  /\ TokenIsSettled
  /\ AppStartsOnce
  /\ AppForgetsNoServer

-----------------------------------------------------------------------------
LEMMA InitInstancesInv == InstancesInit => InstancesInv
BY DEF InstancesInit, InstancesInv, Shape, States, PortIsServed, FileHasOwner, AloneInTheFile, TokenExists,
       TokenIsSettled, AppStartsOnce, AppForgetsNoServer, Live, Early, Inside, Maker

(* The steps of a process that only move it on.                              *)
Moves(p) ==
  \/ GetAPIToken(p) \/ CheckHealth(p) \/ HealthTimesOut(p) \/ FailsEarly(p)
  \/ NotifyContext(p) \/ StartFails(p) \/ ListenFails(p) \/ ContextDone(p) \/ StopNotify(p)

LEMMA MoveStep ==
  ASSUME InstancesInv, NEW p \in Proc, Moves(p)
  PROVE  InstancesInv'
<1> USE DEF InstancesInv, Moves, GetAPIToken, CheckHealth, HealthTimesOut, FailsEarly, NotifyContext,
            StartFails, ListenFails, ContextDone, StopNotify, Goes, RestUnchanged, files, mac
<1>1. \A q \in Proc : q # p => at'[q] = at[q]
  BY DEF Shape
<1>2. /\ at[p] \in Inside => at'[p] \in Inside
      /\ at[p] \notin Inside => at'[p] \notin Inside
      /\ at[p] \notin {"new", "ended"} /\ at'[p] # "new"
  BY DEF Shape, Early, Inside
<1>3. Shape'
  BY DEF Shape, States, Early, Inside
<1>4. PortIsServed'
  BY <1>1 DEF Shape, PortIsServed
<1>5. FileHasOwner'
  BY <1>1, <1>2 DEF Shape, FileHasOwner
<1>6. AloneInTheFile'
  BY <1>1, <1>2 DEF AloneInTheFile
<1>7. TokenExists'
  BY <1>1 DEF Shape, TokenExists, Inside
<1>8. TokenIsSettled'
  <2>1. at'[p] \in {"serve", "closing"} => at[p] = "serve"
    BY DEF Shape
  <2>2. ASSUME NEW q \in Proc, at'[q] \in {"serve", "closing"} PROVE at'[p] # "generate"
    BY <1>1, <2>1, <2>2 DEF Shape, TokenExists, Inside
  <2>3. ASSUME NEW q \in Proc, at'[q] \in {"serve", "closing"} PROVE Makers' \subseteq Makers
    BY <1>1, <2>2, <2>3 DEF Makers
  <2>4. QED
    BY <1>1, <2>1, <2>3 DEF TokenIsSettled
<1>9. AppStartsOnce' /\ AppForgetsNoServer'
  BY <1>1, <1>2 DEF AppStartsOnce, AppForgetsNoServer, Live, Early, Inside
<1>10. QED
  BY <1>3, <1>4, <1>5, <1>6, <1>7, <1>8, <1>9

-----------------------------------------------------------------------------
LEMMA SetTokenStep ==
  ASSUME InstancesInv, NEW p \in Proc, SetAPIToken(p)
  PROVE  InstancesInv'
<1> USE DEF InstancesInv, SetAPIToken, Goes, RestUnchanged, mac
<1>1. \A q \in Proc : at'[q] = IF q = p THEN "check" ELSE at[q]
  BY DEF Shape
<1>2. Shape' /\ PortIsServed' /\ FileHasOwner'
  BY <1>1 DEF Shape, States, Early, PortIsServed, FileHasOwner, Inside, Maker
<1>3. AloneInTheFile'
  BY <1>1 DEF AloneInTheFile, Inside
<1>4. TokenExists' /\ TokenIsSettled'
  <2>1. Makers' \subseteq Makers /\ p \in Makers /\ token' = {p}
    BY <1>1 DEF Makers
  <2>2. QED
    BY <1>1, <2>1 DEF TokenExists, TokenIsSettled, Makers
<1>5. AppStartsOnce' /\ AppForgetsNoServer'
  BY <1>1 DEF AppStartsOnce, AppForgetsNoServer, Live, Early
<1>6. QED
  BY <1>2, <1>3, <1>4, <1>5

LEMMA WriteStep ==
  ASSUME InstancesInv, NEW p \in Proc, WritePIDFile(p)
  PROVE  InstancesInv'
<1> USE DEF InstancesInv, WritePIDFile, Goes, RestUnchanged, mac
<1>1. \A q \in Proc : at'[q] = IF q = p THEN "install" ELSE at[q]
  BY DEF Shape
<1>2. Shape' /\ PortIsServed' /\ FileHasOwner'
  BY <1>1 DEF Shape, States, PortIsServed, FileHasOwner, Inside
<1>3. AloneInTheFile'
  <2>1. CASE InTheFile = {} /\ \A s \in Stop : target[s] = {}
    BY <1>1, <2>1 DEF AloneInTheFile, InTheFile
  <2>2. CASE InTheFile # {} \/ \E s \in Stop : target[s] # {}
    <3>1. disturbed' = disturbed \cup InTheFile \cup {p}
      BY <2>2
    <3>2. \A q \in Proc : at'[q] \in Inside => q \in disturbed'
      BY <1>1, <3>1 DEF InTheFile
    <3>3. QED
      BY <3>2 DEF AloneInTheFile
  <2>3. QED
    BY <2>1, <2>2
<1>4. TokenExists' /\ TokenIsSettled'
  BY <1>1 DEF TokenExists, TokenIsSettled, Makers, Inside
<1>5. AppStartsOnce' /\ AppForgetsNoServer'
  BY <1>1 DEF AppStartsOnce, AppForgetsNoServer, Live, Early
<1>6. QED
  BY <1>2, <1>3, <1>4, <1>5

LEMMA TakeTokenStep ==
  ASSUME InstancesInv, NEW p \in Proc, TakeAPIToken(p)
  PROVE  InstancesInv'
<1> USE DEF InstancesInv, TakeAPIToken, Goes, RestUnchanged, mac
<1>1. \A q \in Proc : at'[q] = IF q = p THEN "serve" ELSE at[q]
  BY DEF Shape
<1>2. Shape' /\ \A q \in Proc : q # p => held'[q] = held[q]
  <2>1. token \in SUBSET Maker /\ Makers \in SUBSET Maker
    BY DEF Shape, Maker, Makers
  <2>2. held' \in [Proc -> SUBSET Maker] /\ racing' \in [Proc -> SUBSET Maker]
    BY <2>1 DEF Shape
  <2>3. at' \in [Proc -> States]
    BY DEF Shape, States, Inside
  <2>4. QED
    BY <2>2, <2>3 DEF Shape
<1>3. PortIsServed' /\ FileHasOwner'
  BY <1>1 DEF Shape, PortIsServed, FileHasOwner, Inside
<1>4. AloneInTheFile'
  BY <1>1 DEF AloneInTheFile, Inside
<1>5. TokenExists'
  BY <1>1 DEF TokenExists, Inside
<1>6. TokenIsSettled'
  <2>1. held'[p] = token /\ token # {} /\ racing'[p] = Makers /\ Makers' \subseteq Makers
    BY <1>1 DEF Shape, TokenExists, Inside, Makers
  <2>2. \A q \in Proc : q # p => racing'[q] = racing[q]
    BY DEF Shape
  <2>3. QED
    BY <1>1, <1>2, <2>1, <2>2 DEF TokenIsSettled
<1>7. AppStartsOnce' /\ AppForgetsNoServer'
  BY <1>1 DEF AppStartsOnce, AppForgetsNoServer, Live, Inside
<1>8. QED
  BY <1>2, <1>3, <1>4, <1>5, <1>6, <1>7

LEMMA ListenStep ==
  ASSUME InstancesInv, NEW p \in Proc, Listen(p)
  PROVE  InstancesInv'
<1> USE DEF InstancesInv, Listen, RestUnchanged, files, mac
<1>1. Shape' /\ PortIsServed' /\ FileHasOwner'
  BY DEF Shape, PortIsServed, FileHasOwner
<1>2. AloneInTheFile' /\ TokenExists' /\ TokenIsSettled'
  BY DEF AloneInTheFile, TokenExists, TokenIsSettled, Makers
<1>3. AppStartsOnce' /\ AppForgetsNoServer'
  BY DEF AppStartsOnce, AppForgetsNoServer, Live
<1>4. QED
  BY <1>1, <1>2, <1>3

LEMMA ShutdownStep ==
  ASSUME InstancesInv, NEW p \in Proc, Shutdown(p)
  PROVE  InstancesInv'
<1> USE DEF InstancesInv, Shutdown, Goes, RestUnchanged, files, mac
<1>1. \A q \in Proc : at'[q] = IF q = p THEN "unwind" ELSE at[q]
  BY DEF Shape
<1>2. Shape' /\ PortIsServed' /\ FileHasOwner'
  BY <1>1 DEF Shape, States, PortIsServed, FileHasOwner, Inside
<1>3. AloneInTheFile' /\ TokenExists' /\ TokenIsSettled'
  BY <1>1 DEF AloneInTheFile, TokenExists, TokenIsSettled, Makers, Inside
<1>4. AppStartsOnce' /\ AppForgetsNoServer'
  BY <1>1 DEF AppStartsOnce, AppForgetsNoServer, Live, Inside
<1>5. QED
  BY <1>2, <1>3, <1>4

(* The file that is removed names no other process that is alone in it.      *)
LEMMA RemoveStep ==
  ASSUME InstancesInv, NEW p \in Proc, RemovePIDFile(p)
  PROVE  InstancesInv'
<1> USE DEF InstancesInv, RemovePIDFile, Goes, RestUnchanged, mac
<1>1. \A q \in Proc : at'[q] = IF q = p THEN "ended" ELSE at[q]
  BY DEF Shape
<1>2. Shape' /\ PortIsServed' /\ FileHasOwner'
  BY <1>1 DEF Shape, States, PortIsServed, FileHasOwner
<1>3. AloneInTheFile'
  BY <1>1 DEF AloneInTheFile, Inside
<1>4. TokenExists' /\ TokenIsSettled'
  BY <1>1 DEF TokenExists, TokenIsSettled, Makers, Inside
<1>5. AppStartsOnce' /\ AppForgetsNoServer'
  BY <1>1 DEF AppStartsOnce, AppForgetsNoServer, Live, Early, Inside
<1>6. QED
  BY <1>2, <1>3, <1>4, <1>5

-----------------------------------------------------------------------------
(* What a crash or a signal does to a process.                               *)
DiesOrIsTold(p) ==
  \/ /\ at' = [at EXCEPT ![p] = "ended"] /\ port' = port \ {p}
     /\ cutOff' = cutOff \cup {p} /\ signalled' = signalled
  \/ signalled' = signalled \cup {p} /\ UNCHANGED <<at, port, cutOff>>

LEMMA SignalTells == ASSUME NEW p \in Proc, SendSignal(p) PROVE DiesOrIsTold(p)
BY DEF SendSignal, Dies, DiesOrIsTold

(* Whoever sent it, and whatever the sender forgets with it, only the        *)
(* process it reaches is touched.                                            *)
LEMMA EndStep ==
  ASSUME InstancesInv, NEW p \in Proc, Live(p), DiesOrIsTold(p),
         app' = app \/ (app = {p} /\ app' = {}),
         target' = target \/ \E s \in Stop : target' = [target EXCEPT ![s] = {}],
         UNCHANGED <<pidFile, token, making, held, reaped, byApp, disturbed, racing>>
  PROVE  InstancesInv'
<1> USE DEF InstancesInv
<1>1. \A q \in Proc : at'[q] = at[q] \/ (q = p /\ at'[q] = "ended" /\ p \in cutOff')
  BY DEF DiesOrIsTold, Shape
<1>2. at' \in [Proc -> States] /\ port' \in {port, port \ {p}}
  BY DEF DiesOrIsTold, Shape, States
<1>3. \A s \in Stop : target'[s] \subseteq target[s]
  BY DEF Shape
<1>4. Shape'
  BY <1>2 DEF Shape
<1>5. PortIsServed'
  BY DEF DiesOrIsTold, Shape, PortIsServed
<1>6. FileHasOwner'
  <2>1. cutOff \subseteq cutOff'
    BY DEF DiesOrIsTold
  <2>2. QED
    BY <1>1, <2>1 DEF Shape, FileHasOwner
<1>7. AloneInTheFile'
  BY <1>1, <1>3 DEF AloneInTheFile, Inside
<1>8. TokenExists' /\ TokenIsSettled'
  BY <1>1 DEF TokenExists, TokenIsSettled, Makers, Inside
<1>9. AppStartsOnce'
  BY <1>1 DEF AppStartsOnce
<1>10. AppForgetsNoServer'
  <2>1. signalled \subseteq signalled' /\ (at'[p] = "ended" \/ p \in signalled')
    BY DEF DiesOrIsTold, Shape
  <2>2. QED
    BY <1>1, <2>1 DEF AppStartsOnce, AppForgetsNoServer, Live, Early, Inside
<1>11. QED
  BY <1>4, <1>5, <1>6, <1>7, <1>8, <1>9, <1>10

LEMMA SignalStep ==
  ASSUME InstancesInv, NEW p \in Proc, Interrupt(p) \/ Crash(p)
  PROVE  InstancesInv'
<1>1. Live(p) /\ DiesOrIsTold(p)
  BY SignalTells DEF Interrupt, Crash, Dies, DiesOrIsTold
<1>2. /\ target' = target /\ app' = app
      /\ UNCHANGED <<pidFile, token, making, held, reaped, byApp, disturbed, racing>>
  BY DEF Interrupt, Crash, files, mac
<1>3. QED
  BY <1>1, <1>2, EndStep

LEMMA AppStopStep ==
  ASSUME InstancesInv, NEW p \in Proc, AppStop(p)
  PROVE  InstancesInv'
<1>1. CASE Live(p)
  <2>1. /\ DiesOrIsTold(p) /\ app = {p} /\ app' = {} /\ target' = target
        /\ UNCHANGED <<pidFile, token, making, held, reaped, byApp, disturbed, racing>>
    BY <1>1, SignalTells DEF AppStop, files
  <2>2. QED
    BY <1>1, <2>1, EndStep
<1>2. CASE ~Live(p)
  <2> USE <1>2 DEF AppStop, InstancesInv, process, files
  <2>1. Shape' /\ PortIsServed' /\ FileHasOwner'
    BY DEF Shape, PortIsServed, FileHasOwner
  <2>2. AloneInTheFile' /\ TokenExists' /\ TokenIsSettled'
    BY DEF AloneInTheFile, TokenExists, TokenIsSettled, Makers
  <2>3. AppStartsOnce' /\ AppForgetsNoServer'
    BY DEF AppStartsOnce, AppForgetsNoServer, Live
  <2>4. QED
    BY <2>1, <2>2, <2>3
<1>3. QED
  BY <1>1, <1>2

-----------------------------------------------------------------------------
LEMMA ReadStep ==
  ASSUME InstancesInv, NEW s \in Stop, ReadPIDFile(s)
  PROVE  InstancesInv'
<1> USE DEF InstancesInv, ReadPIDFile, process, files, mac, history
<1>1. Shape' /\ PortIsServed' /\ FileHasOwner'
  BY DEF Shape, PortIsServed, FileHasOwner
<1>2. AloneInTheFile'
  BY DEF Shape, AloneInTheFile
<1>3. TokenExists' /\ TokenIsSettled'
  BY DEF TokenExists, TokenIsSettled, Makers
<1>4. AppStartsOnce' /\ AppForgetsNoServer'
  BY DEF AppStartsOnce, AppForgetsNoServer, Live
<1>5. QED
  BY <1>1, <1>2, <1>3, <1>4

(* A stop that finds nobody to signal removes the file: a server that is     *)
(* alone in it is not the one it has read, and no other was.                 *)
LEMMA TargetStep ==
  ASSUME InstancesInv, NEW s \in Stop, NEW p \in Proc, SignalTarget(s, p)
  PROVE  InstancesInv'
<1>1. CASE Live(p)
  <2>1. /\ DiesOrIsTold(p) /\ app' = app /\ target' = [target EXCEPT ![s] = {}]
        /\ UNCHANGED <<pidFile, token, making, held, reaped, byApp, disturbed, racing>>
    BY <1>1, SignalTells DEF SignalTarget, mac
  <2>2. QED
    BY <1>1, <2>1, EndStep
<1>2. CASE ~Live(p)
  <2> USE <1>2 DEF SignalTarget, InstancesInv, process, mac
  <2>1. at[p] \notin Inside
    BY DEF Live
  <2>2. Shape' /\ PortIsServed' /\ FileHasOwner'
    BY DEF Shape, PortIsServed, FileHasOwner
  <2>3. AloneInTheFile'
    BY <2>1 DEF Shape, AloneInTheFile
  <2>4. TokenExists' /\ TokenIsSettled'
    BY DEF TokenExists, TokenIsSettled, Makers
  <2>5. AppStartsOnce' /\ AppForgetsNoServer'
    BY DEF AppStartsOnce, AppForgetsNoServer, Live
  <2>6. QED
    BY <2>2, <2>3, <2>4, <2>5
<1>3. QED
  BY <1>1, <1>2

LEMMA StartStep ==
  ASSUME InstancesInv, NEW p \in Proc, Start(p) \/ AppStart(p)
  PROVE  InstancesInv'
<1> USE DEF InstancesInv, Start, AppStart, Goes, files, mac, history
<1>1. \A q \in Proc : at'[q] = IF q = p THEN "token" ELSE at[q]
  BY DEF Shape
<1>2. Shape' /\ PortIsServed' /\ FileHasOwner'
  BY <1>1 DEF Shape, States, Early, PortIsServed, FileHasOwner, Inside
<1>3. AloneInTheFile'
  BY <1>1 DEF AloneInTheFile, Inside
<1>4. TokenExists' /\ TokenIsSettled'
  BY <1>1 DEF TokenExists, TokenIsSettled, Makers, Inside
<1>5. AppStartsOnce' /\ AppForgetsNoServer'
  BY <1>1 DEF AppStartsOnce, AppForgetsNoServer, Live, Early, Inside
<1>6. QED
  BY <1>2, <1>3, <1>4, <1>5

LEMMA TerminationStep ==
  ASSUME InstancesInv, NEW p \in Proc, HandleTermination(p)
  PROVE  InstancesInv'
<1> USE DEF InstancesInv, HandleTermination, process, files, history
<1>1. Shape' /\ PortIsServed' /\ FileHasOwner'
  BY DEF Shape, PortIsServed, FileHasOwner
<1>2. AloneInTheFile' /\ TokenExists' /\ TokenIsSettled'
  BY DEF AloneInTheFile, TokenExists, TokenIsSettled, Makers
<1>3. AppStartsOnce' /\ AppForgetsNoServer'
  BY DEF AppStartsOnce, AppForgetsNoServer, Live, Early, Inside
<1>4. QED
  BY <1>1, <1>2, <1>3

(* A command begins to make a token only when nobody holds one.              *)
LEMMA CommandStep ==
  ASSUME InstancesInv, NEW c \in Command,
         CommandFindsNoToken(c) \/ CommandSetsToken(c) \/ CommandFails(c)
  PROVE  InstancesInv'
<1> USE DEF InstancesInv, CommandFindsNoToken, CommandSetsToken, CommandFails, process, mac, history
<1>1. Shape' /\ PortIsServed' /\ FileHasOwner' /\ AloneInTheFile'
  <2>1. token' \in {token, {c}} /\ making' \subseteq making \cup {c}
    OBVIOUS
  <2>2. Shape'
    BY <2>1 DEF Shape, Maker
  <2>3. QED
    BY <2>2 DEF PortIsServed, FileHasOwner, AloneInTheFile
<1>2. TokenExists'
  BY DEF TokenExists
<1>3. TokenIsSettled'
  <2>1. CASE CommandFindsNoToken(c)
    BY <2>1 DEF TokenExists, TokenIsSettled, Makers, Inside
  <2>2. CASE CommandSetsToken(c) \/ CommandFails(c)
    <3>1. Makers' \subseteq Makers /\ c \in Makers /\ token' \in {token, {c}}
      BY <2>2 DEF Makers
    <3>2. QED
      BY <2>2, <3>1 DEF TokenIsSettled
  <2>3. QED
    BY <2>1, <2>2
<1>4. AppStartsOnce' /\ AppForgetsNoServer'
  BY DEF AppStartsOnce, AppForgetsNoServer, Live
<1>5. QED
  BY <1>1, <1>2, <1>3, <1>4

LEMMA InstancesInvariance == InstancesSpec => []InstancesInv
<1>1. InstancesInv /\ [InstancesNext]_instancesVars => InstancesInv'
  <2> SUFFICES ASSUME InstancesInv, [InstancesNext]_instancesVars PROVE InstancesInv'
    OBVIOUS
  <2>1. ASSUME NEW p \in Proc, Runs(p) PROVE InstancesInv'
    BY <2>1, MoveStep, SetTokenStep, WriteStep, TakeTokenStep, ListenStep, ShutdownStep,
       RemoveStep DEF Runs, Moves
  <2>2. ASSUME NEW p \in Proc, HealthTimesOut(p) \/ FailsEarly(p) PROVE InstancesInv'
    BY <2>2, MoveStep DEF Moves
  <2>3. ASSUME NEW p \in Proc, Interrupt(p) \/ Crash(p) PROVE InstancesInv'
    BY <2>3, SignalStep
  <2>4. ASSUME NEW p \in Proc, Start(p) \/ AppStart(p) \/ AppStop(p) \/ HandleTermination(p)
        PROVE  InstancesInv'
    BY <2>4, StartStep, AppStopStep, TerminationStep
  <2>5. ASSUME NEW s \in Stop, ReadPIDFile(s) \/ \E p \in Proc : SignalTarget(s, p) PROVE InstancesInv'
    BY <2>5, ReadStep, TargetStep
  <2>6. ASSUME NEW c \in Command, CommandFindsNoToken(c) \/ CommandSetsToken(c) \/ CommandFails(c)
        PROVE  InstancesInv'
    BY <2>6, CommandStep
  <2>7. CASE UNCHANGED instancesVars
    BY <2>7 DEF InstancesInv, Shape, PortIsServed, FileHasOwner, AloneInTheFile, TokenExists,
                TokenIsSettled, Makers, AppStartsOnce, AppForgetsNoServer, Live,
                instancesVars, process, files, mac, history
  <2>8. QED
    BY <2>1, <2>2, <2>3, <2>4, <2>5, <2>6, <2>7 DEF InstancesNext
<1>2. QED
  BY <1>1, InitInstancesInv, PTL DEF InstancesSpec

-----------------------------------------------------------------------------
(* Every way out of runServer but being killed removes the PID file, so one  *)
(* that is there names a process at work or a killed one (cmd/tbyd/server.go *)
(* from the deferred removePIDFile on).                                      *)
THEOREM FileIsOwned == InstancesSpec => []FileHasOwner
<1>1. InstancesInv => FileHasOwner
  BY DEF InstancesInv
<1>2. QED
  BY <1>1, InstancesInvariance, PTL

(* A server that met no other start and no late stop is the one "tbyd stop"  *)
(* finds, however many starts were refused or failed before or beside it.    *)
THEOREM ServerIsNamed == InstancesSpec => []LoneServerIsNamed
<1>1. InstancesInv => LoneServerIsNamed
  BY DEF InstancesInv, Shape, PortIsServed, AloneInTheFile, LoneServerIsNamed, Inside
<1>2. QED
  BY <1>1, InstancesInvariance, PTL

(* A server compares with the stored token, which every client sends, for as *)
(* long as it runs and whoever starts beside it, but for the token of a      *)
(* start or a command that had found none and not stored its own when the    *)
(* server took the stored one: GetAPIToken looks and stores in two steps.    *)
THEOREM TokenIsShared == InstancesSpec => []TokensAgree
<1>1. InstancesInv => TokensAgree
  BY DEF InstancesInv, Shape, PortIsServed, TokenIsSettled, TokensAgree
<1>2. QED
  BY <1>1, InstancesInvariance, PTL

(* The termination handler never makes the application forget a process that *)
(* is alive and was not told to end (ProcessManager).                        *)
THEOREM NoServerForgotten == InstancesSpec => []AppForgetsNoServer
<1>1. InstancesInv => AppForgetsNoServer
  BY DEF InstancesInv
<1>2. QED
  BY <1>1, InstancesInvariance, PTL
=============================================================================
