--------------------------- MODULE DbWorkerProofs ---------------------------
(***************************************************************************)
(* Theorems about DbWorker and History, for any orders, batch size, polls  *)
(* and bounds: their types, that the table of closed orders is faithful to *)
(* the stream, and that the trade page is truthful.                        *)
(*                                                                         *)
(* WorkerInv is the inductive invariant.  It adds to the types and the     *)
(* faithful table that no row of it is ahead of a running worker: this is  *)
(* why the first of two closings is the one that is kept.  PageInv follows *)
(* an order from the stream and the table to the answers of the polls and  *)
(* the lists of the page.  What it follows are the orders that are Past:   *)
(* no longer open, or opened again by a restart of the engine.  No step,   *)
(* and no restart, takes one of them back.                                 *)
(***************************************************************************)
EXTENDS History, TLAPS

RowsBehind ==
  worker # "down" => \A o \in DOMAIN closedOrders : closedOrders[o] <= currentStreamId

WorkerInv == WorkerTypeOK /\ HistoryFaithful /\ RowsBehind

-----------------------------------------------------------------------------
\* The response stream

\* Publishing adds one response, or fails, and keeps those that are there.
LEMMA PublishAppends ==
  ASSUME WorkerTypeOK, NEW o \in Orders, NEW isClosing \in BOOLEAN,
         Publish(o, isClosing)
  PROVE  /\ responses' \in Seq(Response)
         /\ Len(responses') \in Nat /\ Len(responses) <= Len(responses')
         /\ Len(responses') <= MaxStream
         /\ \A i \in 1 .. Len(responses) : responses'[i] = responses[i]
         /\ upsets' \in 0 .. MaxUpsets
<1>1. responses \in Seq(Response) /\ [order |-> o, PnL |-> isClosing] \in Response
  BY DEF WorkerTypeOK, Response
<1>2. /\ Len(responses) \in Nat /\ Len(responses) <= MaxStream /\ MaxStream \in Nat
      /\ upsets \in 0 .. MaxUpsets /\ MaxUpsets \in Nat
  BY <1>1, DbWorkerAssumption DEF WorkerTypeOK
<1>3. CASE Len(responses) < MaxStream /\ UNCHANGED upsets
             /\ responses' = Append(responses, [order |-> o, PnL |-> isClosing])
  BY <1>1, <1>2, <1>3
<1>4. CASE Upset /\ UNCHANGED responses
  BY <1>1, <1>2, <1>4 DEF Upset
<1> QED
  BY <1>3, <1>4 DEF Publish

\* A closing that the worker has come by was one before the stream grew.
LEMMA PublishKeepsClosings ==
  ASSUME WorkerTypeOK, NEW o \in Orders, NEW isClosing \in BOOLEAN,
         Publish(o, isClosing), NEW p \in Orders, NEW i \in 1 .. Len(responses)
  PROVE  i \in ClosingsOf(p)' <=> i \in ClosingsOf(p)
<1>1. /\ responses \in Seq(Response) /\ responses' \in Seq(Response)
      /\ Len(responses') \in Nat /\ Len(responses) <= Len(responses')
      /\ responses'[i] = responses[i]
  BY PublishAppends DEF WorkerTypeOK
<1>2. i \in 1 .. Len(responses')
  BY <1>1
<1>3. i \in DOMAIN responses /\ i \in DOMAIN responses'
  BY <1>1, <1>2
<1> QED
  BY <1>1, <1>3 DEF ClosingsOf

-----------------------------------------------------------------------------
\* Every action preserves the invariant

\* What a restart makes of an order is a status, and past orders stay past.
LEMMA RecoveredStatus ==
  ASSUME WorkerTypeOK, EngineRestarts, NEW o \in Orders
  PROVE  /\ status'[o] \in OrderStatuses
         /\ status[o] # "none" => status'[o] # "none"
         /\ status[o] \notin {"none", "OPEN"} => status'[o] # "OPEN" \/ o \in reopened'
<1>1. /\ status[o] \in {"none", "OPEN", "LIQUIDATED", "CLOSED", "gone"}
      /\ status'[o] \in Recovered(o)
  BY DEF WorkerTypeOK, OrderStatuses, EngineRestarts
<1>2. /\ status[o] = "none" => status'[o] \in {"none", "OPEN"}
      /\ status[o] = "OPEN" => status'[o] \in {"OPEN", "CLOSED", "gone"}
      /\ status[o] \in {"LIQUIDATED", "CLOSED"} =>
           status'[o] \in {"OPEN", "LIQUIDATED", "CLOSED", "gone"}
      /\ status[o] = "gone" => status'[o] = "gone"
  BY <1>1 DEF Recovered
<1>3. status[o] \in {"LIQUIDATED", "CLOSED"} /\ status'[o] = "OPEN" => o \in reopened'
  BY DEF EngineRestarts
<1> QED
  BY <1>1, <1>2, <1>3 DEF OrderStatuses

\* The engine's orders keep their types, and its publications theirs.
LEMMA EngineTypes ==
  ASSUME WorkerTypeOK, Engine
  PROVE  /\ status' \in [Orders -> OrderStatuses] /\ reopened' \subseteq Orders
         /\ upsets' \in 0 .. MaxUpsets
         /\ \/ \E o \in Orders, isClosing \in BOOLEAN : Publish(o, isClosing)
            \/ responses' = responses
<1>1. CASE EngineRestarts
  BY <1>1, DbWorkerAssumption DEF EngineRestarts, Upset, WorkerTypeOK
<1>2. ASSUME NEW o \in Orders, EngineOpens(o) \/ EngineLiquidates(o) \/ EngineCloses(o)
      PROVE  /\ status' \in [Orders -> OrderStatuses] /\ reopened' = reopened
             /\ \E isClosing \in BOOLEAN : Publish(o, isClosing)
  BY <1>2 DEF WorkerTypeOK, OrderStatuses, EngineOpens, EngineLiquidates, EngineCloses
<1> QED
  BY <1>1, <1>2, PublishAppends DEF Engine, WorkerTypeOK

\* The engine appends to the stream and touches nothing of the worker's.
LEMMA EngineKeeps ==
  ASSUME WorkerInv, Engine
  PROVE  WorkerInv'
<1>0. WorkerTypeOK /\ HistoryFaithful /\ RowsBehind
  BY DEF WorkerInv
<1>1. UNCHANGED <<worker, currentStreamId, unread, batchEnd, closedOrders, failures>>
  BY DEF Engine, readerVars
<1>2. /\ responses' \in Seq(Response) /\ responses \in Seq(Response)
      /\ Len(responses) \in Nat /\ Len(responses') \in Nat
      /\ Len(responses) <= Len(responses') /\ Len(responses') <= MaxStream
  BY <1>0, EngineTypes, PublishAppends DEF WorkerTypeOK
<1>3. \A p \in Orders : \A i \in 1 .. Len(responses) :
        i \in ClosingsOf(p)' <=> i \in ClosingsOf(p)
  <2>1. CASE responses' = responses
    BY <2>1 DEF ClosingsOf
  <2>2. CASE \E o \in Orders, isClosing \in BOOLEAN : Publish(o, isClosing)
    BY <1>0, <2>2, PublishKeepsClosings
  <2> QED
    BY <1>0, <2>1, <2>2, EngineTypes
<1>4. WorkerTypeOK'
  <2>1. {currentStreamId, batchEnd} \subseteq 0 .. Len(responses')
    BY <1>0, <1>2 DEF WorkerTypeOK
  <2>2. /\ unread \subseteq 1 .. Len(responses')
        /\ \A o \in DOMAIN closedOrders : closedOrders[o] \in 1 .. Len(responses')
    BY <1>0, <1>2 DEF WorkerTypeOK
  <2> QED
    BY <1>0, <1>1, <1>2, <2>1, <2>2, EngineTypes DEF WorkerTypeOK
<1>5. HistoryFaithful'
  <2> SUFFICES ASSUME NEW p \in Orders
               PROVE  /\ p \in DOMAIN closedOrders => closedOrders[p] \in ClosingsOf(p)'
                      /\ failures = 0 =>
                           \A i \in ClosingsOf(p)' :
                             i <= currentStreamId /\ i \notin unread =>
                               p \in DOMAIN closedOrders /\ closedOrders[p] <= i
    BY <1>1 DEF HistoryFaithful
  <2>1. p \in DOMAIN closedOrders => closedOrders[p] \in ClosingsOf(p)'
    BY <1>0, <1>3 DEF WorkerTypeOK, HistoryFaithful
  <2>2. ASSUME NEW i \in ClosingsOf(p)', i <= currentStreamId
        PROVE  i \in ClosingsOf(p)
    <3>1. i \in 1 .. Len(responses')
      BY <1>2 DEF ClosingsOf
    <3>2. i \in 1 .. Len(responses)
      BY <1>0, <1>2, <2>2, <3>1 DEF WorkerTypeOK
    <3> QED
      BY <1>3, <2>2, <3>2
  <2> QED
    BY <1>0, <2>1, <2>2 DEF HistoryFaithful
<1>6. RowsBehind'
  BY <1>0, <1>1 DEF RowsBehind
<1> QED
  BY <1>4, <1>5, <1>6 DEF WorkerInv

\* A worker that starts is behind no row and has read nothing.
LEMMA StartWorkerKeeps ==
  ASSUME WorkerInv, StartWorker
  PROVE  WorkerInv'
<1>1. Len(responses) \in Nat
  BY DEF WorkerInv, WorkerTypeOK
<1>2. WorkerTypeOK'
  BY <1>1 DEF WorkerInv, WorkerTypeOK, StartWorker, engineVars
<1>3. HistoryFaithful'
  <2>1. \A o \in Orders : ClosingsOf(o)' = ClosingsOf(o) /\ ClosingsOf(o) \subseteq unread'
    BY DEF WorkerInv, WorkerTypeOK, StartWorker, engineVars, ClosingsOf
  <2> QED
    BY <2>1 DEF WorkerInv, HistoryFaithful, StartWorker
<1>4. RowsBehind'
  BY <1>1 DEF WorkerInv, WorkerTypeOK, RowsBehind, StartWorker
<1> QED
  BY <1>2, <1>3, <1>4 DEF WorkerInv

\* A position moves only over what has been cut, and this is noted as unread.
LEMMA ReadResponsesKeeps ==
  ASSUME WorkerInv, ReadResponses
  PROVE  WorkerInv'
<1>0. WorkerTypeOK /\ HistoryFaithful /\ RowsBehind /\ worker = "reading"
  BY DEF WorkerInv, ReadResponses
<1>1. /\ Len(responses) \in Nat /\ BatchSize \in Nat \ {0} /\ KeepLength \in Nat \ {0}
      /\ currentStreamId \in Nat /\ currentStreamId < Len(responses)
  BY <1>0, DbWorkerAssumption DEF WorkerTypeOK, ReadResponses
<1>2. PICK from \in Cuts :
        /\ currentStreamId' = from
        /\ unread' = unread \cup (currentStreamId + 1 .. from)
        /\ batchEnd' = IF from + BatchSize < Len(responses) THEN from + BatchSize
                       ELSE Len(responses)
  BY DEF ReadResponses
<1>3. from \in Nat /\ currentStreamId <= from /\ from < Len(responses)
  BY <1>1 DEF Cuts
<1>4. /\ UNCHANGED <<status, reopened, responses, closedOrders, failures, upsets>>
      /\ worker' = "processing"
  BY DEF ReadResponses, engineVars
<1>5. WorkerTypeOK'
  <2>1. /\ batchEnd' \in 0 .. Len(responses) /\ currentStreamId' < batchEnd'
        /\ unread' \subseteq 1 .. Len(responses)
    BY <1>0, <1>1, <1>2, <1>3 DEF WorkerTypeOK
  <2> QED
    BY <1>0, <1>2, <1>3, <1>4, <2>1 DEF WorkerTypeOK
<1>6. HistoryFaithful'
  <2>1. \A o \in Orders : ClosingsOf(o)' = ClosingsOf(o) /\ ClosingsOf(o) \subseteq Nat
    BY <1>0, <1>4 DEF ClosingsOf, WorkerTypeOK
  <2>2. \A i \in Nat : i <= from /\ i \notin unread' => i <= currentStreamId /\ i \notin unread
    BY <1>1, <1>2, <1>3
  <2> QED
    BY <1>0, <1>2, <1>4, <2>1, <2>2 DEF HistoryFaithful
<1>7. RowsBehind'
  <2>1. \A o \in DOMAIN closedOrders : closedOrders[o] <= from
    BY <1>0, <1>1, <1>3 DEF RowsBehind, WorkerTypeOK
  <2> QED
    BY <1>2, <1>4, <2>1 DEF RowsBehind
<1> QED
  BY <1>5, <1>6, <1>7 DEF WorkerInv

\* The message after the position is a closing whose row is there afterwards, not
\* later than this one, or its insert has failed, or it is no closing.
LEMMA ProcessMessageKeeps ==
  ASSUME WorkerInv, ProcessMessage
  PROVE  WorkerInv'
<1> DEFINE i == currentStreamId + 1
           row == responses[i].order
<1>0. WorkerTypeOK /\ HistoryFaithful /\ RowsBehind /\ worker = "processing"
  BY DEF WorkerInv, ProcessMessage
<1>1. /\ responses \in Seq(Response) /\ Len(responses) \in Nat
      /\ currentStreamId \in Nat /\ i \in 1 .. Len(responses)
      /\ i <= batchEnd /\ batchEnd \in 0 .. Len(responses)
      /\ failures \in Nat
  BY <1>0 DEF WorkerTypeOK
<1>2. responses[i] \in Response /\ row \in Orders /\ responses[i].PnL \in BOOLEAN
  <2>1. responses[i] \in Response
    <3> HIDE DEF i
    <3> QED
      BY <1>1
  <2> HIDE DEF i
  <2> QED
    BY <2>1 DEF Response
<1>3. /\ UNCHANGED <<status, reopened, responses, unread, batchEnd, upsets>>
      /\ currentStreamId' = i
      /\ worker' = IF i = batchEnd THEN "reading" ELSE "processing"
  BY DEF ProcessMessage, MoveOn, engineVars
<1>4. \/ responses[i].PnL /\ Upsert(i) /\ failures' = failures
      \/ responses[i].PnL /\ Fails /\ closedOrders' = closedOrders
      \/ ~responses[i].PnL /\ closedOrders' = closedOrders /\ failures' = failures
  BY DEF ProcessMessage, IsClosing
<1>5. /\ DOMAIN closedOrders \subseteq DOMAIN closedOrders'
      /\ DOMAIN closedOrders' \subseteq DOMAIN closedOrders \cup {row}
      /\ \A o \in DOMAIN closedOrders : closedOrders'[o] = closedOrders[o]
      /\ row \in DOMAIN closedOrders' \ DOMAIN closedOrders =>
           closedOrders'[row] = i /\ responses[i].PnL
      /\ failures' = 0 /\ responses[i].PnL => row \in DOMAIN closedOrders'
  BY <1>1, <1>4 DEF Upsert, Put, Fails
<1> HIDE DEF i, row
<1>6. WorkerTypeOK'
  <2>1. failures' \in 0 .. MaxFailures
    <3>1. failures \in 0 .. MaxFailures /\ MaxFailures \in Nat
      BY <1>0, DbWorkerAssumption DEF WorkerTypeOK
    <3> QED
      BY <1>4, <3>1 DEF Fails
  <2>2. \A o \in DOMAIN closedOrders' : closedOrders'[o] \in 1 .. Len(responses)
    BY <1>0, <1>1, <1>5 DEF WorkerTypeOK
  <2>3. DOMAIN closedOrders' \subseteq Orders
    BY <1>0, <1>2, <1>5 DEF WorkerTypeOK
  <2>4. /\ worker' \in {"reading", "processing"}
        /\ worker' = "processing" => i < batchEnd
    BY <1>0, <1>1, <1>3 DEF WorkerTypeOK, i
  <2> QED
    BY <1>0, <1>1, <1>3, <2>1, <2>2, <2>3, <2>4 DEF WorkerTypeOK
<1>7. RowsBehind'
  <2>1. \A o \in DOMAIN closedOrders : closedOrders[o] <= i
    BY <1>0, <1>1 DEF RowsBehind, WorkerTypeOK, i
  <2> QED
    BY <1>1, <1>3, <1>5, <2>1 DEF RowsBehind
<1>8. HistoryFaithful'
  <2> SUFFICES ASSUME NEW o \in Orders
               PROVE  /\ o \in DOMAIN closedOrders' => closedOrders'[o] \in ClosingsOf(o)
                      /\ failures' = 0 =>
                           \A j \in ClosingsOf(o) :
                             j <= i /\ j \notin unread =>
                               o \in DOMAIN closedOrders' /\ closedOrders'[o] <= j
    BY <1>3 DEF HistoryFaithful, ClosingsOf
  <2>1. o \in DOMAIN closedOrders' => closedOrders'[o] \in ClosingsOf(o)
    BY <1>0, <1>1, <1>5 DEF HistoryFaithful, ClosingsOf, row
  <2>2. ASSUME failures' = 0, NEW j \in ClosingsOf(o), j <= i, j \notin unread
        PROVE  o \in DOMAIN closedOrders' /\ closedOrders'[o] <= j
    <3>1. failures = 0
      BY <1>1, <1>4, <2>2 DEF Fails
    <3>2. CASE j = i
      <4>1. o = row /\ responses[i].PnL
        BY <3>2, <2>2 DEF ClosingsOf, row
      <4> QED
        BY <1>1, <1>3, <1>5, <1>7, <2>2, <3>2, <4>1 DEF RowsBehind
    <3>3. CASE j # i
      <4>1. j <= currentStreamId
        <5>1. j \in Nat
          BY <1>1 DEF ClosingsOf
        <5> QED
          BY <1>1, <2>2, <3>3, <5>1 DEF i
      <4> QED
        BY <1>0, <1>5, <2>2, <3>1, <4>1 DEF HistoryFaithful
    <3> QED
      BY <3>2, <3>3
  <2> QED
    BY <2>1, <2>2
<1> QED
  BY <1>6, <1>7, <1>8 DEF WorkerInv

\* A worker that has stopped claims nothing.
LEMMA StopWorkerKeeps ==
  ASSUME WorkerInv, StopWorker
  PROVE  WorkerInv'
<1>1. Len(responses) \in Nat
  BY DEF WorkerInv, WorkerTypeOK
<1>2. WorkerTypeOK'
  BY <1>1, DbWorkerAssumption DEF WorkerInv, WorkerTypeOK, StopWorker, Upset, engineVars
<1>3. HistoryFaithful' /\ RowsBehind'
  <2>1. \A o \in Orders : ClosingsOf(o)' = ClosingsOf(o) /\ \A i \in ClosingsOf(o) : i \in Nat \ {0}
    BY <1>1 DEF StopWorker, engineVars, ClosingsOf
  <2>2. \A i \in Nat \ {0} : ~(i <= 0)
    OBVIOUS
  <2> QED
    BY <2>1, <2>2 DEF WorkerInv, HistoryFaithful, RowsBehind, StopWorker
<1> QED
  BY <1>2, <1>3 DEF WorkerInv

-----------------------------------------------------------------------------
\* The invariant

\* Before anything is published the table is empty.
LEMMA WorkerInvInit == WorkerInit => WorkerInv
<1> SUFFICES ASSUME WorkerInit PROVE WorkerInv
  OBVIOUS
<1>1. Len(responses) = 0 /\ responses \in Seq(Response) /\ DOMAIN closedOrders = {}
  BY DEF WorkerInit, EmptyMap
<1>2. WorkerTypeOK
  <2>1. status \in [Orders -> OrderStatuses]
    BY DEF WorkerInit, OrderStatuses
  <2>2. 0 \in 0 .. MaxFailures /\ 0 \in 0 .. MaxUpsets /\ 0 <= MaxStream
    BY DbWorkerAssumption
  <2> QED
    BY <1>1, <2>1, <2>2 DEF WorkerInit, WorkerTypeOK
<1>3. HistoryFaithful /\ RowsBehind
  <2>1. DOMAIN responses = {}
    BY DEF WorkerInit
  <2> QED
    BY <1>1, <2>1 DEF WorkerInit, HistoryFaithful, RowsBehind, ClosingsOf
<1> QED
  BY <1>2, <1>3 DEF WorkerInv

\* No step of the engine or the worker breaks the invariant.
LEMMA WorkerInvNext == WorkerInv /\ [WorkerNext]_workerVars => WorkerInv'
<1>1. ASSUME WorkerInv, UNCHANGED workerVars PROVE WorkerInv'
  BY <1>1 DEF workerVars, engineVars, readerVars, WorkerInv, WorkerTypeOK,
     HistoryFaithful, RowsBehind, ClosingsOf
<1> QED
  BY <1>1, EngineKeeps, StartWorkerKeeps, ReadResponsesKeeps, ProcessMessageKeeps,
     StopWorkerKeeps DEF WorkerNext, Worker

\* WorkerInv holds in every state.
THEOREM WorkerInvariant == WorkerSpec => []WorkerInv
BY WorkerInvInit, WorkerInvNext, PTL DEF WorkerSpec

\* The worker's variables keep their types: a batch lies in the stream, and the
\* table has orders and places of the stream only.
THEOREM WorkerTypeCorrect == WorkerSpec => []WorkerTypeOK
<1>1. WorkerInv => WorkerTypeOK
  BY DEF WorkerInv
<1> QED
  BY <1>1, WorkerInvariant, PTL

\* processMessage and its upsert keep the table faithful to what was published,
\* over restarts, failed inserts and orders that are closed twice.
THEOREM HistoryAlwaysFaithful == WorkerSpec => []HistoryFaithful
<1>1. WorkerInv => HistoryFaithful
  BY DEF WorkerInv
<1> QED
  BY <1>1, WorkerInvariant, PTL

-----------------------------------------------------------------------------
\* The page

\* Orders that were placed, and those of them that are no longer open in the engine
\* or have been opened again.
Placed == {o \in Orders : status[o] # "none"}
Past == {o \in Placed : status[o] # "OPEN" \/ o \in reopened}

\* A response that closes an order is of one the engine has closed.
ClosingsPast == \A o \in Orders : ClosingsOf(o) # {} => o \in Past

\* The page's part of the types.
PageTypeOK ==
  /\ route \in {"/", "/signin", "/trade"}
  /\ cookie \in {"none", "valid", "expired"}
  /\ unauthorized \in BOOLEAN
  /\ shown \in [open : SUBSET Orders, closed : SUBSET Orders]
  /\ DOMAIN polls \subseteq Polls
  /\ \A p \in DOMAIN polls :
       /\ DOMAIN polls[p] \subseteq {"open", "closed"}
       /\ \A list \in DOMAIN polls[p] : polls[p][list] \subseteq Orders
  /\ closeCalls \subseteq Orders
  /\ route # "/trade" => DOMAIN polls = {} /\ closeCalls = {}

\* What the page shows, what a poll has in hand and what the page will move once a
\* close request is answered: open orders were placed, closed ones are past, and a
\* page that was left has no order to close.
ListsOK ==
  /\ route # "/trade" => shown.open = {}
  /\ shown.open \subseteq Placed /\ shown.closed \subseteq Past
  /\ closeCalls \subseteq Past
  /\ \A p \in DOMAIN polls :
       /\ "open" \in DOMAIN polls[p] => polls[p].open \subseteq Placed
       /\ "closed" \in DOMAIN polls[p] => polls[p].closed \subseteq Past

PageInv == PageTypeOK /\ ListsOK /\ ClosingsPast

\* An order that is past stays past, one that was placed stays placed.
Onward == Past \subseteq Past' /\ Placed \subseteq Placed'

\* A closing that is published is of an order that has just become past.
LEMMA PublishPast ==
  ASSUME WorkerTypeOK, ClosingsPast, Onward, NEW o \in Orders,
         NEW isClosing \in BOOLEAN, Publish(o, isClosing), isClosing => o \in Past'
  PROVE  ClosingsPast'
<1> SUFFICES ASSUME NEW p \in Orders, NEW i \in ClosingsOf(p)'
             PROVE  p \in Past'
  BY DEF ClosingsPast
<1>1. /\ responses \in Seq(Response) /\ Len(responses) \in Nat
      /\ i \in DOMAIN responses' /\ responses'[i].order = p /\ responses'[i].PnL
  BY DEF WorkerTypeOK, ClosingsOf
<1>2. ASSUME NEW j \in 1 .. Len(responses), i = j PROVE p \in Past'
  <2>1. i \in ClosingsOf(p)
    BY <1>2, PublishKeepsClosings
  <2> QED
    BY <2>1 DEF ClosingsPast, Onward
<1>3. CASE responses' = responses
  BY <1>1, <1>2, <1>3
<1>4. CASE responses' = Append(responses, [order |-> o, PnL |-> isClosing])
  <2>1. i \in 1 .. Len(responses) \/ i = Len(responses) + 1
    BY <1>1, <1>4
  <2>2. CASE i = Len(responses) + 1
    BY <1>1, <1>4, <2>2
  <2> QED
    BY <1>2, <2>1, <2>2
<1> QED
  BY <1>3, <1>4 DEF Publish

\* Publishing is the only thing that adds a closing to the stream, and no order
\* comes back unnoticed, not even over a restart.
LEMMA EngineOnward ==
  ASSUME WorkerInv, ClosingsPast, Engine
  PROVE  Onward /\ ClosingsPast'
<1>1. WorkerTypeOK
  BY DEF WorkerInv
<1>2. CASE EngineRestarts
  <2>1. reopened \subseteq reopened' /\ responses' = responses
    BY <1>2 DEF EngineRestarts
  <2>2. Past \subseteq Past'
    BY <1>1, <1>2, <2>1, RecoveredStatus DEF Past, Placed
  <2>3. Placed \subseteq Placed'
    BY <1>1, <1>2, RecoveredStatus DEF Placed
  <2> QED
    BY <2>1, <2>2, <2>3 DEF Onward, ClosingsPast, ClosingsOf
<1>3. ASSUME NEW o \in Orders, EngineOpens(o) \/ EngineLiquidates(o) \/ EngineCloses(o)
      PROVE  Onward /\ ClosingsPast'
  <2>1. /\ reopened' = reopened /\ status \in [Orders -> OrderStatuses]
        /\ \/ /\ status[o] = "none" /\ Publish(o, FALSE)
              /\ status' = [status EXCEPT ![o] = "OPEN"]
           \/ /\ status[o] = "OPEN" /\ Publish(o, TRUE)
              /\ status' = [status EXCEPT ![o] = "LIQUIDATED"]
           \/ /\ status[o] \in {"OPEN", "LIQUIDATED"} /\ Publish(o, TRUE)
              /\ status' = [status EXCEPT ![o] = "CLOSED"]
    BY <1>1, <1>3 DEF WorkerTypeOK, EngineOpens, EngineLiquidates, EngineCloses
  <2>2. Onward
    BY <2>1 DEF Onward, Past, Placed
  <2>3. \/ Publish(o, FALSE)
        \/ Publish(o, TRUE) /\ o \in Past'
    BY <2>1 DEF Past, Placed
  <2> QED
    BY <1>1, <2>2, <2>3, PublishPast
<1> QED
  BY <1>2, <1>3 DEF Engine

\* The worker closes nothing.
LEMMA WorkerOnward ==
  ASSUME ClosingsPast, UNCHANGED engineVars
  PROVE  Onward /\ ClosingsPast'
BY DEF engineVars, Onward, Past, Placed, ClosingsPast, ClosingsOf

\* A step that leaves the page alone, but for an order that is past and whose close
\* request has been answered.
LEMMA ListsStay ==
  ASSUME PageInv, Onward, ClosingsPast',
         UNCHANGED <<route, cookie, unauthorized, shown, polls>>,
         \/ UNCHANGED closeCalls
         \/ route = "/trade" /\ \E o \in Past' : closeCalls' = closeCalls \cup {o}
  PROVE  PageInv'
<1>1. PageTypeOK'
  BY DEF PageInv, PageTypeOK, Past, Placed
<1>2. ListsOK'
  BY DEF PageInv, ListsOK, Onward
<1> QED
  BY <1>1, <1>2 DEF PageInv

\* A page that is left has no lists.
LEMMA EmptyPageStep ==
  ASSUME PageInv, EmptyPage, UNCHANGED workerVars,
         route' \in {"/", "/signin", "/trade"},
         cookie' \in {"none", "valid", "expired"}, unauthorized' \in BOOLEAN
  PROVE  PageInv'
<1>1. ClosingsPast'
  BY WorkerOnward DEF PageInv, workerVars
<1>2. DOMAIN polls' = {} /\ closeCalls' = {} /\ shown' = [open |-> {}, closed |-> {}]
  BY DEF EmptyPage, EmptyMap
<1> QED
  BY <1>1, <1>2 DEF PageInv, PageTypeOK, ListsOK

\* router.push keeps the page, or leaves it.
LEMMA PushStep ==
  ASSUME PageInv, NEW target \in {"/signin", "/trade"}, Push(target),
         UNCHANGED workerVars,
         cookie' \in {"none", "valid", "expired"}, unauthorized' \in BOOLEAN
  PROVE  PageInv'
<1>1. route' \in {"/signin", "/trade"}
  BY DEF Push, Redirected
<1>2. CASE route' = route
  <2>1. Onward /\ ClosingsPast'
    BY WorkerOnward DEF PageInv, workerVars
  <2> QED
    BY <1>2, <2>1 DEF Push, lists, PageInv, PageTypeOK, ListsOK, Onward
<1>3. CASE route' # route
  BY <1>1, <1>3, EmptyPageStep DEF Push
<1> QED
  BY <1>2, <1>3

\* Of the polls one begins, ends or gets an answer, of placed or of past orders.
LEMMA PollStep ==
  ASSUME WorkerInv, PageInv, NEW p \in Polls, UNCHANGED engineVars,
         \/ FetchOrders(p) \/ GetOpenOrders(p) \/ GetClosedOrders(p)
         \/ ShowOrders(p) \/ FetchFails(p)
  PROVE  PageInv'
<1>1. /\ UNCHANGED <<route, cookie, unauthorized, closeCalls>>
      /\ Past' = Past /\ Placed' = Placed /\ ClosingsPast'
  <2>1. ClosingsPast'
    BY WorkerOnward DEF PageInv
  <2> QED
    BY <2>1 DEF FetchOrders, GetOpenOrders, GetClosedOrders, ShowOrders, FetchFails, outside,
       Past, Placed, engineVars
<1>2. CASE FetchOrders(p)
  <2>1. /\ route = "/trade" /\ shown' = shown
        /\ DOMAIN polls' = DOMAIN polls \cup {p}
        /\ DOMAIN polls'[p] = {}
        /\ \A q \in DOMAIN polls : q # p => polls'[q] = polls[q]
    BY <1>2 DEF FetchOrders, Put, EmptyMap
  <2> QED
    BY <1>1, <2>1 DEF PageInv, PageTypeOK, ListsOK
<1>3. ASSUME NEW list \in {"open", "closed"}, NEW answer \in SUBSET Orders,
             p \in DOMAIN polls,
             polls' = [polls EXCEPT ![p] = Put(@, list, answer)], shown' = shown,
             list = "open" => answer \subseteq Placed,
             list = "closed" => answer \subseteq Past
      PROVE  PageInv'
  <2>1. /\ DOMAIN polls' = DOMAIN polls
        /\ DOMAIN polls'[p] = DOMAIN polls[p] \cup {list}
        /\ polls'[p][list] = answer
        /\ \A l \in DOMAIN polls[p] : l # list => polls'[p][l] = polls[p][l]
        /\ \A q \in DOMAIN polls : q # p => polls'[q] = polls[q]
    BY <1>3 DEF Put
  <2>2. PageTypeOK'
    BY <1>1, <1>3, <2>1 DEF PageInv, PageTypeOK
  <2>3. ListsOK'
    BY <1>1, <1>3, <2>1 DEF PageInv, ListsOK
  <2> QED
    BY <1>1, <2>2, <2>3 DEF PageInv
<1>4. CASE GetOpenOrders(p)
  <2>1. {o \in Orders : status[o] = "OPEN"} \subseteq Placed
    BY DEF Placed
  <2> QED
    BY <1>3, <1>4, <2>1 DEF GetOpenOrders
<1>5. CASE GetClosedOrders(p)
  <2>1. DOMAIN closedOrders \subseteq Past
    BY DEF WorkerInv, WorkerTypeOK, HistoryFaithful, PageInv, ClosingsPast
  <2> QED
    BY <1>3, <1>5, <2>1 DEF GetClosedOrders, Past, Placed
<1>6. CASE ShowOrders(p)
  <2>1. /\ DOMAIN polls' = DOMAIN polls \ {p}
        /\ \A q \in DOMAIN polls' : polls'[q] = polls[q]
        /\ shown' = [open |-> polls[p].open, closed |-> polls[p].closed]
        /\ DOMAIN polls[p] = {"open", "closed"} /\ p \in DOMAIN polls
    BY <1>6 DEF ShowOrders, Without, Lists, Answered
  <2>2. PageTypeOK'
    BY <1>1, <2>1 DEF PageInv, PageTypeOK
  <2>3. ListsOK'
    BY <1>1, <2>1 DEF PageInv, PageTypeOK, ListsOK
  <2> QED
    BY <1>1, <2>2, <2>3 DEF PageInv
<1>7. CASE FetchFails(p)
  <2>1. /\ DOMAIN polls' = DOMAIN polls \ {p} /\ shown' = shown
        /\ \A q \in DOMAIN polls' : polls'[q] = polls[q]
    BY <1>7 DEF FetchFails, Without
  <2> QED
    BY <1>1, <2>1 DEF PageInv, PageTypeOK, ListsOK
<1> QED
  BY <1>2, <1>4, <1>5, <1>6, <1>7

\* What the browser does on its own: it goes to a page, polls, or moves a closed
\* order from one list to the other.
LEMMA BrowserStep ==
  ASSUME WorkerInv, PageInv, Browser
  PROVE  PageInv'
<1>0. /\ UNCHANGED workerVars /\ UNCHANGED engineVars
      /\ route \in {"/", "/signin", "/trade"} /\ unauthorized \in BOOLEAN
      /\ cookie \in {"none", "valid", "expired"}
  BY DEF Browser, workerVars, PageInv, PageTypeOK
<1>1. ASSUME NEW target \in {"/", "/signin", "/trade"}, Visit(target) PROVE PageInv'
  <2>1. route' \in {"/", "/signin", "/trade"}
    BY <1>1 DEF Visit, Load, Redirected
  <2> QED
    BY <1>0, <1>1, <2>1, EmptyPageStep DEF Visit, Load
<1>2. CASE VerifyMagicLink
  <2>1. route' \in {"/", "/signin", "/trade"}
    BY <1>2 DEF VerifyMagicLink, AuthCallback, Load, Redirected
  <2> QED
    BY <1>0, <1>2, <2>1, EmptyPageStep DEF VerifyMagicLink, AuthCallback, Load
<1>3. CASE SignIn \/ SignOut \/ PushSignIn
  BY <1>0, <1>3, PushStep DEF SignIn, SignOut, PushSignIn
<1>4. CASE Expire \/ FetchBalance
  <2>1. Onward /\ ClosingsPast'
    BY <1>0, WorkerOnward DEF PageInv
  <2>2. /\ UNCHANGED <<route, shown, polls, closeCalls>>
        /\ cookie' \in {"none", "valid", "expired"} /\ unauthorized' \in BOOLEAN
    BY <1>0, <1>4 DEF Expire, FetchBalance, lists
  <2> QED
    BY <2>1, <2>2 DEF PageInv, PageTypeOK, ListsOK, Onward
<1>5. ASSUME NEW p \in Polls, FetchOrders(p) \/ ShowOrders(p) \/ Refuse(p)
      PROVE  PageInv'
  BY <1>0, <1>5, PollStep DEF Refuse
<1>6. ASSUME NEW o \in Orders, HandleCloseOrder(o) PROVE PageInv'
  <2>1. Onward /\ ClosingsPast'
    BY <1>0, WorkerOnward DEF PageInv
  <2>2. /\ UNCHANGED <<route, cookie, unauthorized, polls>>
        /\ o \in closeCalls /\ closeCalls' = closeCalls \ {o}
        /\ shown' = [open |-> shown.open \ {o}, closed |-> shown.closed \cup {o}]
    BY <1>6 DEF HandleCloseOrder, outside
  <2>3. PageTypeOK'
    BY <2>2 DEF PageInv, PageTypeOK
  <2>4. ListsOK'
    BY <2>1, <2>2 DEF PageInv, ListsOK, Onward
  <2> QED
    BY <2>1, <2>3, <2>4 DEF PageInv
<1> QED
  BY <1>1, <1>2, <1>3, <1>4, <1>5, <1>6 DEF Browser

-----------------------------------------------------------------------------
\* The worker and the page together

\* Every step of the page and the worker preserves both invariants.  A poll that
\* fails counts with the failed inserts, and a user's open or close is the engine's.
LEMMA HistoryInvNext ==
  ASSUME WorkerInv, PageInv, [HistoryNext]_historyVars
  PROVE  WorkerInv' /\ PageInv'
<1>1. CASE WorkerNext /\ UNCHANGED pageVars
  <2>1. WorkerInv'
    BY <1>1, WorkerInvNext
  <2>2. Onward /\ ClosingsPast'
    <3>1. CASE Engine
      BY <3>1, EngineOnward DEF PageInv
    <3>2. CASE Worker \/ StopWorker
      BY <3>2, WorkerOnward DEF PageInv, Worker, StartWorker, ReadResponses,
         ProcessMessage, StopWorker
    <3> QED
      BY <1>1, <3>1, <3>2 DEF WorkerNext
  <2> QED
    BY <1>1, <2>1, <2>2, ListsStay DEF pageVars
<1>2. CASE Browser
  <2>1. WorkerInv'
    BY <1>2, WorkerInvNext DEF Browser
  <2> QED
    BY <1>2, <2>1, BrowserStep
<1>3. ASSUME NEW p \in Polls, Answers(p) PROVE WorkerInv' /\ PageInv'
  BY <1>3, WorkerInvNext, PollStep DEF Answers, workerVars
<1>4. ASSUME NEW p \in Polls, Fail(p) PROVE WorkerInv' /\ PageInv'
  <2>1. /\ UNCHANGED <<status, reopened, responses, worker, currentStreamId, unread,
                       batchEnd, closedOrders, upsets>>
        /\ failures < MaxFailures /\ failures' = failures + 1 /\ FetchFails(p)
    BY <1>4 DEF Fail, Fails, engineVars, readerVars
  <2>2. failures \in Nat /\ failures' \in 0 .. MaxFailures /\ failures' # 0
    BY <2>1, DbWorkerAssumption DEF WorkerInv, WorkerTypeOK
  <2>3. WorkerInv'
    BY <2>1, <2>2 DEF WorkerInv, WorkerTypeOK, HistoryFaithful, RowsBehind, ClosingsOf
  <2> QED
    BY <2>1, <2>3, PollStep DEF engineVars
<1>5. ASSUME NEW o \in Orders, OpenOrder(o) \/ CloseOrder(o)
      PROVE  WorkerInv' /\ PageInv'
  <2>1. Engine
    BY <1>5 DEF OpenOrder, CloseOrder, Engine
  <2>2. WorkerInv' /\ Onward /\ ClosingsPast'
    BY <2>1, EngineKeeps, EngineOnward DEF PageInv
  <2>3. CASE OpenOrder(o)
    BY <2>2, <2>3, ListsStay DEF OpenOrder, pageVars
  <2>4. CASE CloseOrder(o)
    <3>1. route = "/trade"
      BY <2>4 DEF CloseOrder, PageInv, ListsOK
    <3>2. o \in Past'
      BY <2>4 DEF CloseOrder, EngineCloses, Past, Placed, WorkerInv, WorkerTypeOK
    <3> QED
      BY <2>2, <2>4, <3>1, <3>2, ListsStay DEF CloseOrder, outside
  <2> QED
    BY <1>5, <2>3, <2>4
<1>6. CASE UNCHANGED historyVars
  <2>1. WorkerInv'
    BY <1>6, WorkerInvNext DEF historyVars, workerVars
  <2>2. Onward /\ ClosingsPast'
    BY <1>6, WorkerOnward DEF PageInv, historyVars, workerVars
  <2> QED
    BY <1>6, <2>1, <2>2, ListsStay DEF historyVars, pageVars
<1> QED
  BY <1>1, <1>2, <1>3, <1>4, <1>5, <1>6 DEF HistoryNext

\* Both invariants hold in every state.
THEOREM HistoryInvariant == HistorySpec => [](WorkerInv /\ PageInv)
<1>1. HistoryInit => WorkerInv /\ PageInv
  <2> SUFFICES ASSUME HistoryInit PROVE WorkerInv /\ PageInv
    OBVIOUS
  <2>1. WorkerInv
    BY WorkerInvInit DEF HistoryInit
  <2>2. DOMAIN responses = {}
    BY DEF HistoryInit, WorkerInit
  <2>3. ClosingsPast
    BY <2>2 DEF ClosingsPast, ClosingsOf
  <2> QED
    BY <2>1, <2>3 DEF HistoryInit, PageInv, PageTypeOK, ListsOK, EmptyMap
<1> QED
  BY <1>1, HistoryInvNext, PTL DEF HistorySpec

\* The page's variables keep their types, and a page that is left has no poll and
\* no close request in hand, whatever answers are still on their way.
THEOREM HistoryTypeCorrect == HistorySpec => []HistoryTypeOK
<1>1. WorkerInv /\ PageInv => HistoryTypeOK
  BY DEF WorkerInv, PageInv, PageTypeOK, HistoryTypeOK
<1> QED
  BY <1>1, HistoryInvariant, PTL

\* The table stays faithful to the stream also while users open, close and look
\* at their orders.
THEOREM HistoryFaithfulWithPage == HistorySpec => []HistoryFaithful
<1>1. WorkerInv => HistoryFaithful
  BY DEF WorkerInv
<1> QED
  BY <1>1, HistoryInvariant, PTL

\* fetchOrders and handleCloseOrder never show an order as closed that the engine
\* has open, nor one as open that was never placed, over overlapping polls, failed
\* requests, worker restarts and changes of the session.
THEOREM PageAlwaysTruthful == HistorySpec => []PageTruthful
<1>1. WorkerInv /\ PageInv => PageTruthful
  BY DEF PageInv, PageTypeOK, ListsOK, PageTruthful, Past, Placed, WorkerInv, WorkerTypeOK,
     OrderStatuses
<1> QED
  BY <1>1, HistoryInvariant, PTL
=============================================================================
