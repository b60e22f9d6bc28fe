------------------------------ MODULE DbWorker ------------------------------
(***************************************************************************)
(* The database worker: it reads the response stream from where it starts  *)
(* and writes the closings it finds to the table of closed orders.         *)
(*                                                                         *)
(* Of the engine this module keeps what becomes of an order and what is    *)
(* published of it.  A liquidated order may be closed and published again  *)
(* (see PaidOnce in module Trading).  A restart of the engine goes back to *)
(* the last snapshot and replays what came after it, without a response    *)
(* and without the liquidations.  A closing is known by its place in the   *)
(* stream.                                                                 *)
(***************************************************************************)
EXTENDS Integers, Sequences, Maps

CONSTANTS
  Orders,
  BatchSize,    \* COUNT of the XREAD
  KeepLength,   \* responses the stream is cut to (about 10000)
  MaxStream,    \* bound: responses published
  MaxFailures,  \* bound: failed inserts
  MaxUpsets     \* bound: restarts of the engine, ends of the worker, responses
                \* that are not published

ASSUME DbWorkerAssumption ==
  /\ {BatchSize, KeepLength} \subseteq Nat \ {0}
  /\ {MaxStream, MaxFailures, MaxUpsets} \subseteq Nat

VARIABLES
  status,           \* order -> its status in the engine, "none" before it is placed
  reopened,         \* orders that a restart found closed and left open
  responses,        \* the response stream, with what has been cut from it
  worker,           \* "down", "reading", "processing"
  currentStreamId,  \* the worker's position
  unread,           \* responses this process can no longer come by
  batchEnd,         \* last message of the batch in hand
  closedOrders,     \* the table: order -> closing
  failures, upsets  \* counters for the bounds

engineVars == <<status, reopened, responses>>
readerVars == <<worker, currentStreamId, unread, batchEnd, closedOrders>>
workerVars == <<engineVars, readerVars, failures, upsets>>

OrderStatuses == {"none", "OPEN", "LIQUIDATED", "CLOSED", "gone"}

Response == [order : Orders, PnL : BOOLEAN]

\* An order was closed if a response says so.
ClosingsOf(o) ==
  {i \in DOMAIN responses : responses[i].order = o /\ responses[i].PnL}

Upset == upsets < MaxUpsets /\ upsets' = upsets + 1

-----------------------------------------------------------------------------
\* Engine

\* A publication may fail: the order has changed by then.
Publish(o, isClosing) ==
  \/ /\ Len(responses) < MaxStream
     /\ responses' = Append(responses, [order |-> o, PnL |-> isClosing])
     /\ UNCHANGED upsets
  \/ Upset /\ UNCHANGED responses

\* The response to PLACE_ORDER has the order, and no PnL.
EngineOpens(o) ==
  /\ status[o] = "none"
  /\ status' = [status EXCEPT ![o] = "OPEN"]
  /\ Publish(o, FALSE)
  /\ UNCHANGED reopened

EngineLiquidates(o) ==
  /\ status[o] = "OPEN"
  /\ status' = [status EXCEPT ![o] = "LIQUIDATED"]
  /\ Publish(o, TRUE)
  /\ UNCHANGED reopened

\* CLOSE_ORDER turns away CLOSED orders only.
EngineCloses(o) ==
  /\ status[o] \in {"OPEN", "LIQUIDATED"}
  /\ status' = [status EXCEPT ![o] = "CLOSED"]
  /\ Publish(o, TRUE)
  /\ UNCHANGED reopened

\* What a restart makes of an order.  One placed after the snapshot is placed again
\* by the replay, under another name.  One that was open in the snapshot is closed
\* again by a close request that is replayed with a price at hand, and otherwise
\* open again: the prices that liquidated it are not checked.  One that was closed
\* in the snapshot stays closed.
Recovered(o) ==
  CASE status[o] = "none" -> {"none", "OPEN"}
    [] status[o] = "OPEN" -> {"OPEN", "CLOSED", "gone"}
    [] status[o] \in {"LIQUIDATED", "CLOSED"} -> {"OPEN", "LIQUIDATED", "CLOSED", "gone"}
    [] status[o] = "gone" -> {"gone"}

\* main(), again, of a process that has ended.  The replay publishes nothing.
EngineRestarts ==
  /\ Upset
  /\ status' \in [Orders -> OrderStatuses]
  /\ \A o \in Orders : status'[o] \in Recovered(o)
  /\ reopened' = reopened \cup
       {o \in Orders : status[o] \in {"LIQUIDATED", "CLOSED"} /\ status'[o] = "OPEN"}
  /\ UNCHANGED responses

-----------------------------------------------------------------------------
\* Worker

\* main: from the end of the stream, whatever was persisted before.
StartWorker ==
  /\ worker = "down"
  /\ worker' = "reading"
  /\ currentStreamId' = Len(responses)
  /\ unread' = 1 .. Len(responses)
  /\ UNCHANGED <<engineVars, batchEnd, closedOrders, failures, upsets>>

\* Every XADD may cut the stream, and leaves KeepLength responses: how far it may
\* have been cut by now, if beyond the worker's position.
Cuts ==
  {currentStreamId} \cup
    {cut \in currentStreamId .. Len(responses) : cut + KeepLength <= Len(responses)}

\* XREAD: the next messages that are still there.  What was cut is passed over.
ReadResponses ==
  /\ worker = "reading" /\ currentStreamId < Len(responses)
  /\ \E from \in Cuts :
       /\ currentStreamId' = from
       /\ unread' = unread \cup (currentStreamId + 1 .. from)
       /\ batchEnd' = IF from + BatchSize < Len(responses) THEN from + BatchSize
                      ELSE Len(responses)
  /\ worker' = "processing"
  /\ UNCHANGED <<engineVars, closedOrders, failures, upsets>>

Fails == failures < MaxFailures /\ failures' = failures + 1

\* Mutant: the row is overwritten.
Upsert_Overwrites(i) ==
  closedOrders' = Put(closedOrders, responses[i].order, i)

\* update: {} leaves a row that is there as it is.
Upsert(i) ==
  closedOrders' = IF responses[i].order \in DOMAIN closedOrders THEN closedOrders
                  ELSE Put(closedOrders, responses[i].order, i)

\* Mutant: a response with an order is taken for a closing.
IsClosing_Any(i) == TRUE

\* Only the response of a closing has a PnL.
IsClosing(i) == responses[i].PnL

MoveOn(i) ==
  /\ currentStreamId' = i
  /\ worker' = IF i = batchEnd THEN "reading" ELSE "processing"

\* The next message of the batch.  A failed insert is logged and passed over.
ProcessMessage ==
  /\ worker = "processing"
  /\ LET i == currentStreamId + 1
     IN  /\ \/ IsClosing(i) /\ Upsert(i) /\ UNCHANGED failures
            \/ IsClosing(i) /\ Fails /\ UNCHANGED closedOrders
            \/ ~IsClosing(i) /\ UNCHANGED <<closedOrders, failures>>
         /\ MoveOn(i)
  /\ UNCHANGED <<engineVars, unread, batchEnd, upsets>>

\* A signal or a crash: the position is gone.
StopWorker ==
  /\ worker # "down"
  /\ Upset
  /\ worker' = "down"
  /\ currentStreamId' = 0 /\ unread' = {} /\ batchEnd' = 0
  /\ UNCHANGED <<engineVars, closedOrders, failures>>

-----------------------------------------------------------------------------
\* Some orders may have been placed, and their responses cut, before.
WorkerInit ==
  /\ status \in [Orders -> {"none", "OPEN"}] /\ reopened = {}
  /\ responses = <<>>
  /\ worker = "down" /\ currentStreamId = 0 /\ unread = {} /\ batchEnd = 0
  /\ closedOrders = EmptyMap
  /\ failures = 0 /\ upsets = 0

Engine ==
  /\ \/ \E o \in Orders : EngineOpens(o) \/ EngineLiquidates(o) \/ EngineCloses(o)
     \/ EngineRestarts
  /\ UNCHANGED <<readerVars, failures>>

Worker == StartWorker \/ ReadResponses \/ ProcessMessage

WorkerNext == Engine \/ Worker \/ StopWorker

WorkerSpec == WorkerInit /\ [][WorkerNext]_workerVars

-----------------------------------------------------------------------------
\* Properties

\* Every variable has its type: positions and batches lie in the stream.
WorkerTypeOK ==
  /\ status \in [Orders -> OrderStatuses] /\ reopened \subseteq Orders
  /\ responses \in Seq(Response) /\ Len(responses) <= MaxStream
  /\ worker \in {"down", "reading", "processing"}
  /\ {currentStreamId, batchEnd} \subseteq 0 .. Len(responses)
  /\ unread \subseteq 1 .. Len(responses)
  /\ worker = "processing" => currentStreamId < batchEnd
  /\ DOMAIN closedOrders \subseteq Orders
  /\ \A o \in DOMAIN closedOrders : closedOrders[o] \in 1 .. Len(responses)
  /\ failures \in 0 .. MaxFailures /\ upsets \in 0 .. MaxUpsets

\* index.ts:7 "Persist closed orders": the table holds closings only, and what the
\* worker has come by since it started is in it unless an insert failed; it comes by
\* everything but what the stream had lost by the time of its XREAD.  Of an order
\* that was closed twice it keeps the first closing the worker came by, and a
\* restart, which begins at the end of the stream, never undoes or repeats one.
HistoryFaithful ==
  \A o \in Orders :
    /\ o \in DOMAIN closedOrders => closedOrders[o] \in ClosingsOf(o)
    /\ failures = 0 =>
         \A i \in ClosingsOf(o) :
           i <= currentStreamId /\ i \notin unread =>
             o \in DOMAIN closedOrders /\ closedOrders[o] <= i
=============================================================================
