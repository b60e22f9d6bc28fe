------------------------------- MODULE Engine -------------------------------
(***************************************************************************)
(* The liquidation engine as a process (apps/liquidation-engine/index.ts   *)
(* and SnapshotManager): it reads requests and price updates from one      *)
(* Redis stream, hands them to the trading core (module Trading), answers  *)
(* on the response queue and the response stream, snapshots its memory to  *)
(* PostgreSQL, and after a crash or a shutdown starts again from the       *)
(* newest snapshot and the stream.                                         *)
(*                                                                         *)
(* A stream identifier is the position of its message, 0 stands for "0-0". *)
(* The stream is cut from its start: `trimmed` messages are gone.  Redis   *)
(* and PostgreSQL survive a crash, the process's memory does not.          *)
(*                                                                         *)
(* `applied` and `unread` are history, saved and restored with the memory: *)
(* the messages it has been built from, and those no read has given it,    *)
(* because they lay before its first start or had been cut.  `met`, the    *)
(* assets whose orders the process has checked at their last price, is     *)
(* history too, and is lost with the process.                              *)
(***************************************************************************)
EXTENDS Trading, Sequences, FiniteSets

CONSTANTS
  BatchSize,     \* COUNT of the XREAD (10 in the source)
  KeepCount,     \* snapshots kept (20 in the source)
  KeepLength,    \* messages the stream is cut to (10000 and more)
  LongLived,     \* orders that live to the retention age
  MaxStream,     \* bound: messages ever appended
  MaxStarts,     \* bound: starts of the process
  MaxStops,      \* bound: graceful shutdowns
  MaxSnapshots,  \* bound: snapshots ever taken
  MaxFailures    \* bound: failed publications, inserts and price writes

ASSUME EngineAssumption ==
  /\ {BatchSize, KeepCount, KeepLength} \subseteq Nat \ {0}
  /\ LongLived \subseteq OrderIds
  /\ {MaxStream, MaxStarts, MaxStops, MaxSnapshots, MaxFailures} \subseteq Nat

VARIABLES
  stream,          \* the request stream, with what has been cut from it
  trimmed,         \* messages cut from its start
  engineStatus,    \* the status key in Redis
  opened,          \* the engine has been READY: backends may hold a request
  phase,           \* where initialize() and main() stand
  stopping,        \* where shutdown() stands
  final,           \* the final snapshot, and the phase it was taken in
  currentStreamId,
  batch,           \* messages to go: of the XREAD, or of the replay
  lastKnownPrices, \* quotes met during the replay
  met,             \* history: assets this process has checked the orders of
  queueSent,       \* the response has gone to the response queue
  answered,        \* requests answered on the queue, with the order shown
  snapshots,       \* rows of the snapshot table
  saving,          \* snapshots captured, insert not yet committed
  applied,         \* history: requests applied to this memory, in order
  unread,          \* history: messages no read has given this memory
  starts, stops, taken, failures  \* counters for the bounds

consumer == <<batch, currentStreamId, queueSent>>
process == <<phase, stopping, final, engineStatus, opened, lastKnownPrices, met>>
storage == <<snapshots, saving, taken>>
counters == <<starts, stops, failures>>
engineVars == <<stream, trimmed, engineStatus, opened, phase, stopping, final,
                currentStreamId, batch, lastKnownPrices, met, queueSent, answered,
                snapshots, saving, applied, unread, starts, stops, taken, failures>>
allVars == <<vars, engineVars>>

Status == {"NONE", "STARTING", "REPLAYING", "READY", "SHUTDOWN"}
Phases == {"down", "loading", "replaying", "seeding", "announcing", "running"}

NotTaken == [timestamp |-> 0, lastStreamId |-> 0, phase |-> "down"]

IsPrice(id) == stream[id].type = "PRICE_UPDATE"

\* The identifiers after `from`, up to and including `to`, in order.
Span(from, to) == [i \in 1 .. to - from |-> from + i]

\* A read after `position` starts from what is left of the stream.
ReadFrom(position) == IF position < trimmed THEN trimmed ELSE position

-----------------------------------------------------------------------------
\* Producers

\* A backend checks the status and appends the request in a later step, so it
\* may do so long after the engine has ceased to be READY.
SubmitRequest(request) ==
  /\ opened
  /\ Len(stream) < MaxStream
  /\ stream' = Append(stream, request)
  /\ UNCHANGED <<vars, trimmed, process, consumer, answered, storage, applied, unread,
                 counters>>

\* The price poller appends whether or not the engine is up.
StreamPrice(asset, p) ==
  /\ Len(stream) < MaxStream
  /\ stream' = Append(stream, [type |-> "PRICE_UPDATE", asset |-> asset,
                               quote |-> PollerQuote(p)])
  /\ UNCHANGED <<vars, trimmed, process, consumer, answered, storage, applied, unread,
                 counters>>

\* A backend's XADD cuts the stream to about MAX_STREAM_LENGTH messages, and the
\* batch uploader cuts it to about 10000 after each of its inserts.
TrimStream ==
  \E cut \in trimmed + 1 .. Len(stream) - KeepLength :
    /\ trimmed' = cut
    /\ UNCHANGED <<vars, stream, process, consumer, answered, storage, applied,
                   unread, counters>>

-----------------------------------------------------------------------------
\* initialize()

Start ==
  /\ phase = "down" /\ starts < MaxStarts
  /\ engineStatus' = "STARTING"
  /\ phase' = "loading"
  /\ starts' = starts + 1
  /\ UNCHANGED <<vars, stream, trimmed, opened, stopping, final, consumer,
                 lastKnownPrices, met, answered, storage, applied, unread,
                 stops, failures>>

NewestSnapshot ==
  CHOOSE s \in snapshots : \A t \in snapshots : t.timestamp <= s.timestamp

\* Mutant: only the orders are restored, the users' lists are left empty.
RestoredUsers_NoLists(snapshot) ==
  [u \in DOMAIN snapshot.users |-> [snapshot.users[u] EXCEPT !.orders = {}]]

RestoredUsers(snapshot) == snapshot.users

\* No snapshot: start empty, from the end of the stream.
StartFresh ==
  /\ phase = "loading" /\ snapshots = {}
  /\ currentStreamId' = Len(stream)
  /\ unread' = 1 .. Len(stream)
  /\ phase' = "announcing"
  /\ UNCHANGED <<vars, stream, trimmed, engineStatus, opened, stopping, final,
                 batch, queueSent, lastKnownPrices, met, answered, storage,
                 applied, counters>>

\* restoreFromSnapshot, then read what is left of the stream after its
\* lastStreamId.  currentStreamId is not set here.
RestoreSnapshot ==
  /\ phase = "loading" /\ snapshots # {}
  /\ users' = RestoredUsers(NewestSnapshot)
  /\ orders' = NewestSnapshot.orders
  /\ applied' = NewestSnapshot.applied
  /\ unread' = NewestSnapshot.unread
                 \cup (NewestSnapshot.lastStreamId + 1 .. trimmed)
  /\ engineStatus' = "REPLAYING"
  /\ phase' = "replaying"
  /\ batch' = Span(ReadFrom(NewestSnapshot.lastStreamId), Len(stream))
  /\ UNCHANGED <<market, aged, nextOrderId, pc, closing, tick, scan, response,
                 published, stream, trimmed, opened, stopping, final,
                 currentStreamId, queueSent, lastKnownPrices, met, answered,
                 storage, counters>>

\* Mutant: the replay does not remember which prices to check the orders at.
ReplayPrice_Untracked ==
  /\ phase = "replaying" /\ pc = "next" /\ batch # <<>>
  /\ IsPrice(Head(batch))
  /\ LET message == stream[Head(batch)]
     IN  /\ market' = Put(market, message.asset, message.quote)
         /\ met' = met \cup {message.asset}
  /\ batch' = Tail(batch)
  /\ UNCHANGED <<store, aged, nextOrderId, pc, closing, tick, scan, response,
                 published, stream, trimmed, engineStatus, opened, phase,
                 stopping, final, lastKnownPrices, currentStreamId, queueSent,
                 answered, storage, applied, unread, counters>>

\* A price met in the replay is stored, no order is checked against it.
ReplayPrice ==
  /\ phase = "replaying" /\ pc = "next" /\ batch # <<>>
  /\ IsPrice(Head(batch))
  /\ LET message == stream[Head(batch)]
     IN  /\ market' = Put(market, message.asset, message.quote)
         /\ lastKnownPrices' = Put(lastKnownPrices, message.asset, message.quote)
         /\ met' = met \cup {message.asset}
  /\ batch' = Tail(batch)
  /\ UNCHANGED <<store, aged, nextOrderId, pc, closing, tick, scan, response,
                 published, stream, trimmed, engineStatus, opened, phase,
                 stopping, final, currentStreamId, queueSent, answered, storage,
                 applied, unread, counters>>

ReplayRequest ==
  /\ phase = "replaying" /\ batch # <<>>
  /\ ~IsPrice(Head(batch))
  /\ HandleRequest(stream[Head(batch)])
  /\ applied' = Append(applied, Head(batch))
  /\ UNCHANGED <<stream, trimmed, process, consumer, answered, storage, unread,
                 counters>>

\* The response to a replayed request is dropped.
DropResponse ==
  /\ phase = "replaying" /\ pc = "respond"
  /\ response' = None /\ pc' = "next"
  /\ currentStreamId' = Head(batch)
  /\ batch' = Tail(batch)
  /\ UNCHANGED <<store, market, aged, nextOrderId, closing, tick, scan,
                 published, stream, trimmed, process, queueSent, answered,
                 storage, applied, unread, counters>>

\* Mutant: the consumer is to start from the end of the stream.
EndReplay_AtEnd ==
  /\ phase = "replaying" /\ pc = "next" /\ batch = <<>>
  /\ phase' = "seeding"
  /\ currentStreamId' = Len(stream)
  /\ UNCHANGED <<vars, stream, trimmed, engineStatus, opened, stopping, final,
                 batch, queueSent, lastKnownPrices, met, answered, storage,
                 applied, unread, counters>>

EndReplay ==
  /\ phase = "replaying" /\ pc = "next" /\ batch = <<>>
  /\ phase' = "seeding"
  /\ UNCHANGED <<vars, stream, trimmed, engineStatus, opened, stopping, final,
                 consumer, lastKnownPrices, met, answered, storage, applied,
                 unread, counters>>

\* Check the open orders once, at the last price of each asset.
SeedPrice(asset) ==
  /\ phase = "seeding" /\ asset \in DOMAIN lastKnownPrices
  /\ ProcessMarketUpdate(asset, lastKnownPrices[asset])
  /\ lastKnownPrices' = Without(lastKnownPrices, {asset})
  /\ UNCHANGED <<stream, trimmed, engineStatus, opened, phase, stopping, final,
                 met, consumer, answered, storage, applied, unread, counters>>

\* Mutant: without a price the engine waits for the first one.
EndSeeding_NeedsPrice ==
  /\ phase = "seeding" /\ pc = "next" /\ DOMAIN market # {}
  /\ DOMAIN lastKnownPrices = {}
  /\ phase' = "announcing"
  /\ UNCHANGED <<vars, stream, trimmed, engineStatus, opened, stopping, final,
                 consumer, lastKnownPrices, met, answered, storage, applied,
                 unread, counters>>

EndSeeding ==
  /\ phase = "seeding" /\ pc = "next" /\ DOMAIN lastKnownPrices = {}
  /\ phase' = "announcing"
  /\ UNCHANGED <<vars, stream, trimmed, engineStatus, opened, stopping, final,
                 consumer, lastKnownPrices, met, answered, storage, applied,
                 unread, counters>>

\* main() then starts the consumer and the timers.
AnnounceReady ==
  /\ phase = "announcing"
  /\ engineStatus' = "READY"
  /\ opened' = TRUE
  /\ phase' = "running"
  /\ UNCHANGED <<vars, stream, trimmed, stopping, final, consumer,
                 lastKnownPrices, met, answered, storage, applied, unread,
                 counters>>

-----------------------------------------------------------------------------
\* startUnifiedStreamConsumer()

\* Mutant: XREAD reads from "$", the last message only.
ReadBatch_Latest ==
  /\ phase = "running" /\ pc = "next" /\ batch = <<>>
  /\ currentStreamId < Len(stream)
  /\ batch' = <<Len(stream)>>
  /\ unread' = unread \cup (currentStreamId + 1 .. trimmed)
  /\ UNCHANGED <<vars, stream, trimmed, process, currentStreamId, queueSent,
                 answered, storage, applied, counters>>

ReadBatch ==
  /\ phase = "running" /\ pc = "next" /\ batch = <<>>
  /\ currentStreamId < Len(stream)
  /\ LET from == ReadFrom(currentStreamId)
     IN  batch' = Span(from, IF from + BatchSize < Len(stream)
                               THEN from + BatchSize ELSE Len(stream))
  /\ unread' = unread \cup (currentStreamId + 1 .. trimmed)
  /\ UNCHANGED <<vars, stream, trimmed, process, currentStreamId, queueSent,
                 answered, storage, applied, counters>>

\* Mutant: currentStreamId is not updated.
Advance_StaysBehind ==
  /\ batch' = IF pc' = "next" THEN Tail(batch) ELSE batch
  /\ UNCHANGED currentStreamId

\* Mutant: the position moves on by a batch for every message.
Advance_ByBatch ==
  IF pc' = "next"
    THEN currentStreamId' = currentStreamId + BatchSize /\ batch' = Tail(batch)
    ELSE UNCHANGED <<currentStreamId, batch>>

\* A message that leaves the consumer ready for the next one is done.
Advance ==
  IF pc' = "next"
    THEN currentStreamId' = Head(batch) /\ batch' = Tail(batch)
    ELSE UNCHANGED <<currentStreamId, batch>>

ConsumeRequest ==
  /\ phase = "running" /\ batch # <<>> /\ ~IsPrice(Head(batch))
  /\ HandleRequest(stream[Head(batch)])
  /\ applied' = Append(applied, Head(batch))
  /\ UNCHANGED <<stream, trimmed, process, consumer, answered, storage, unread,
                 counters>>

\* Mutant: the price is stored, the orders are not checked against it.
ConsumePrice_StoreOnly ==
  /\ phase = "running" /\ batch # <<>> /\ IsPrice(Head(batch)) /\ pc = "next"
  /\ market' = Put(market, stream[Head(batch)].asset, stream[Head(batch)].quote)
  /\ UNCHANGED <<store, aged, nextOrderId, pc, closing, tick, scan, response,
                 published>>
  /\ Advance
  /\ met' = met \cup {stream[Head(batch)].asset}
  /\ UNCHANGED <<stream, trimmed, engineStatus, opened, phase, stopping, final,
                 lastKnownPrices, queueSent, answered, storage, applied, unread,
                 counters>>

ConsumePrice ==
  /\ phase = "running" /\ batch # <<>> /\ IsPrice(Head(batch))
  /\ ProcessMarketUpdate(stream[Head(batch)].asset, stream[Head(batch)].quote)
  /\ Advance
  /\ met' = met \cup {stream[Head(batch)].asset}
  /\ UNCHANGED <<stream, trimmed, engineStatus, opened, phase, stopping, final,
                 lastKnownPrices, queueSent, answered, storage, applied, unread,
                 counters>>

\* publishResponseToQueue: the backend has its answer.
AnswerOnQueue ==
  /\ phase = "running" /\ pc = "respond" /\ ~queueSent
  /\ queueSent' = TRUE
  /\ answered' = answered \cup {[id |-> Head(batch), error |-> response.error,
                                 shown |-> response.shown]}
  /\ UNCHANGED <<vars, stream, trimmed, process, batch, currentStreamId,
                 storage, applied, unread, counters>>

\* publishResponse, and the message is done.
FinishRequest ==
  /\ phase = "running" /\ queueSent
  /\ PublishResponse
  /\ Advance
  /\ queueSent' = FALSE
  /\ UNCHANGED <<stream, trimmed, process, answered, storage, applied, unread,
                 counters>>

\* One of the two publications fails.  The catch logs it and takes the next
\* message of the batch; currentStreamId does not move.
PublicationFails ==
  /\ phase = "running" /\ pc = "respond" /\ failures < MaxFailures
  /\ failures' = failures + 1
  /\ response' = None /\ pc' = "next" /\ queueSent' = FALSE
  /\ batch' = Tail(batch)
  /\ UNCHANGED <<store, market, aged, nextOrderId, closing, tick, scan,
                 published, stream, trimmed, process, currentStreamId, answered,
                 storage, applied, unread, starts, stops>>

\* Mutant: while the orders are checked after a replay, an automatic closing is
\* not published, like the response to a replayed request.
ContinueMessage_Silent ==
  /\ \/ CloseAtPrice
     \/ \E id \in scan :
          \/ SkipOrder(id) \/ LiquidateOrder(id)
          \/ phase # "seeding" /\ PublishLiquidation(id)
          \/ /\ phase = "seeding" /\ pc = "publishLiquidation" /\ IsFirst(id)
             /\ response' = None
             /\ AfterPass(scan \ {id})
             /\ UNCHANGED <<store, market, aged, nextOrderId, closing,
                            published>>
  /\ \/ phase = "running" /\ Advance
     \/ phase \in {"replaying", "seeding"} /\ UNCHANGED <<currentStreamId,
                                                          batch>>
  /\ UNCHANGED <<stream, trimmed, process, queueSent, answered, storage,
                 applied, unread, counters>>

\* The close request or the price pass in hand goes on.
ContinueMessage ==
  /\ \/ CloseAtPrice
     \/ \E id \in scan :
          SkipOrder(id) \/ LiquidateOrder(id) \/ PublishLiquidation(id)
  /\ \/ phase = "running" /\ Advance
     \/ phase \in {"replaying", "seeding"} /\ UNCHANGED <<currentStreamId,
                                                          batch>>
  /\ UNCHANGED <<stream, trimmed, process, queueSent, answered, storage,
                 applied, unread, counters>>

\* The write of a price to Redis is rejected, with or without its effect.  The
\* catch skips the pass over the orders and takes the next message.
PriceFails ==
  /\ phase = "running" /\ batch # <<>> /\ IsPrice(Head(batch)) /\ pc = "next"
  /\ failures < MaxFailures
  /\ failures' = failures + 1
  /\ LET message == stream[Head(batch)]
     IN  \/ UNCHANGED <<market, met>>
         \/ /\ market' = Put(market, message.asset, message.quote)
            /\ met' = met \ {message.asset}
  /\ batch' = Tail(batch)
  /\ UNCHANGED <<store, aged, nextOrderId, pc, closing, tick, scan, response,
                 published, stream, trimmed, engineStatus, opened, phase,
                 stopping, final, lastKnownPrices, currentStreamId, queueSent,
                 answered, storage, applied, unread, starts, stops>>

\* processMarketUpdate catches a failed publication, order by order.
LiquidationUnpublished(id) ==
  /\ phase \in {"running", "seeding"} /\ failures < MaxFailures
  /\ pc = "publishLiquidation" /\ IsFirst(id)
  /\ failures' = failures + 1
  /\ response' = None
  /\ AfterPass(scan \ {id})
  /\ \/ phase = "running" /\ Advance
     \/ phase = "seeding" /\ UNCHANGED <<currentStreamId, batch>>
  /\ UNCHANGED <<store, market, aged, nextOrderId, closing, published, stream,
                 trimmed, process, queueSent, answered, storage, applied,
                 unread, starts, stops>>

-----------------------------------------------------------------------------
\* Timers, snapshots, shutdown and crash

\* main() starts the timers with the consumer; shutdown() clears, after an
\* await, those it finds started.
TimersRun == phase = "running" /\ (stopping = "final" => final.phase # "running")

RunTimer ==
  /\ \/ \E id \in LongLived : AgeOrder(id)
     \/ TimersRun /\ CleanupOldClosedOrders
  /\ UNCHANGED engineVars

\* createSnapshot copies and serialises memory in one go.
Capture ==
  [timestamp |-> taken + 1, lastStreamId |-> currentStreamId, users |-> users,
   orders |-> orders, applied |-> applied, unread |-> unread]

\* The timer fires wherever the consumer awaits.
TakeSnapshot ==
  /\ TimersRun /\ taken < MaxSnapshots
  /\ saving' = saving \cup {Capture}
  /\ taken' = taken + 1
  /\ UNCHANGED <<vars, stream, trimmed, process, consumer, answered, snapshots,
                 applied, unread, counters>>

\* Mutant: the rows are sorted the other way round, the newest are deleted.
Newest_Oldest(rows) ==
  {s \in rows : Cardinality({t \in rows : t.timestamp < s.timestamp}) < KeepCount}

\* The KeepCount newest of a set of rows.
Newest(rows) ==
  {s \in rows : Cardinality({t \in rows : t.timestamp > s.timestamp}) < KeepCount}

\* Inserts of overlapping snapshots may commit in any order.
CommitSnapshot(s) ==
  /\ phase # "down"
  /\ snapshots' = Newest(snapshots \cup {s})
  /\ saving' = saving \ {s}
  /\ UNCHANGED <<vars, stream, trimmed, process, consumer, answered, taken,
                 applied, unread, counters>>

\* The insert fails: the timer and shutdown() log it and go on.
SnapshotFails(s) ==
  /\ phase # "down" /\ failures < MaxFailures
  /\ failures' = failures + 1
  /\ saving' = saving \ {s}
  /\ UNCHANGED <<vars, stream, trimmed, process, consumer, answered, snapshots,
                 taken, applied, unread, starts, stops>>

\* A signal arrives: shutdown() sets the status.  Neither initialize() nor the
\* consumer stops.
BeginShutdown ==
  /\ phase # "down" /\ stopping = "no" /\ stops < MaxStops
  /\ engineStatus' = "SHUTDOWN"
  /\ stopping' = "status"
  /\ stops' = stops + 1
  /\ UNCHANGED <<vars, stream, trimmed, opened, phase, final, consumer,
                 lastKnownPrices, met, answered, storage, applied, unread,
                 starts, failures>>

\* The timers are cleared, the final snapshot is captured.
FinalSnapshot ==
  /\ stopping = "status" /\ taken < MaxSnapshots
  /\ stopping' = "final"
  /\ final' = [timestamp |-> taken + 1, lastStreamId |-> currentStreamId,
               phase |-> phase]
  /\ saving' = saving \cup {Capture}
  /\ taken' = taken + 1
  /\ UNCHANGED <<vars, stream, trimmed, engineStatus, opened, phase, consumer,
                 lastKnownPrices, met, answered, snapshots, applied, unread,
                 counters>>

\* The final snapshot, or its failure, is behind shutdown().
FinalSettled == \A s \in saving : s.timestamp # final.timestamp

\* What the end of the process leaves behind: of the inserts in flight any may
\* have reached the database.
LoseMemory ==
  /\ \E committed \in SUBSET saving :
       snapshots' = Newest(snapshots \cup committed)
  /\ saving' = {}
  /\ users' = EmptyMap /\ orders' = EmptyMap /\ aged' = {}
  /\ pc' = "next" /\ closing' = None /\ tick' = None /\ scan' = {}
  /\ response' = None
  /\ batch' = <<>> /\ currentStreamId' = 0 /\ queueSent' = FALSE
  /\ lastKnownPrices' = EmptyMap /\ met' = {}
  /\ applied' = <<>> /\ unread' = {}
  /\ phase' = "down" /\ stopping' = "no" /\ final' = NotTaken
  /\ UNCHANGED <<market, nextOrderId, published, stream, trimmed, engineStatus,
                 opened, answered, taken, counters>>

\* process.exit once the final snapshot is in the database.
Exit ==
  /\ stopping = "final" /\ FinalSettled
  /\ LoseMemory

\* The process dies; the status key keeps its last value.
Crash ==
  /\ phase # "down" /\ starts < MaxStarts
  /\ LoseMemory

-----------------------------------------------------------------------------
EngineInit ==
  /\ Init
  /\ stream = <<>> /\ trimmed = 0 /\ engineStatus = "NONE" /\ opened = FALSE
  /\ phase = "down" /\ stopping = "no" /\ final = NotTaken
  /\ currentStreamId = 0 /\ batch = <<>> /\ queueSent = FALSE
  /\ lastKnownPrices = EmptyMap /\ met = {}
  /\ answered = {} /\ snapshots = {} /\ saving = {}
  /\ applied = <<>> /\ unread = {}
  /\ starts = 0 /\ stops = 0 /\ taken = 0 /\ failures = 0

Initialize ==
  \/ StartFresh \/ RestoreSnapshot
  \/ ReplayPrice \/ ReplayRequest \/ DropResponse \/ EndReplay
  \/ \E asset \in Assets : SeedPrice(asset)
  \/ EndSeeding \/ AnnounceReady

Consume ==
  \/ ReadBatch \/ ConsumeRequest \/ ConsumePrice
  \/ AnswerOnQueue \/ FinishRequest \/ ContinueMessage

Producers ==
  \/ \E request \in Requests : SubmitRequest(request)
  \/ \E asset \in Assets, p \in TradePrices : StreamPrice(asset, p)
  \/ TrimStream

Failures ==
  \/ PublicationFails \/ PriceFails
  \/ \E id \in scan : LiquidationUnpublished(id)
  \/ \E s \in saving : SnapshotFails(s)

Background ==
  \/ RunTimer \/ TakeSnapshot \/ \E s \in saving : CommitSnapshot(s)
  \/ BeginShutdown \/ FinalSnapshot \/ Exit \/ Crash

EngineNext ==
  Start \/ Initialize \/ Consume \/ Producers \/ Failures \/ Background

EngineSpec == EngineInit /\ [][EngineNext]_allVars

\* The awaits of initialize() and of the consumer resolve; the process is
\* restarted by its container.
EngineFairSpec ==
  EngineSpec /\ WF_allVars(Start) /\ WF_allVars(Initialize \/ Consume)
-----------------------------------------------------------------------------
\* Properties

\* What the process, Redis and PostgreSQL hold: the position, the batch and the
\* history point into the stream, the cutting leaves its newest messages, and at
\* most KeepCount snapshots are kept.
EngineTypeOK ==
  /\ TypeOK
  /\ engineStatus \in Status /\ phase \in Phases
  /\ opened \in BOOLEAN /\ queueSent \in BOOLEAN
  /\ stopping \in {"no", "status", "final"}
  /\ Len(stream) <= MaxStream
  /\ {currentStreamId, trimmed} \subseteq 0 .. Len(stream)
  /\ trimmed > 0 => trimmed + KeepLength <= Len(stream)
  /\ unread \subseteq 1 .. Len(stream)
  /\ final.timestamp \in 0 .. taken /\ final.phase \in Phases
  /\ \A i \in DOMAIN batch : batch[i] \in 1 .. Len(stream)
  /\ \A i \in DOMAIN applied : applied[i] \in 1 .. Len(stream)
  /\ \A s \in snapshots \cup saving : s.timestamp \in 1 .. taken
  /\ Cardinality(snapshots) <= KeepCount

\* Every request at or before `id` is in memory, unless it could not be read.
Covers(history, missed, id) ==
  \A i \in 1 .. id :
    IsPrice(i) \/ i \in missed \/ \E k \in DOMAIN history : history[k] = i

\* In a life without failures the engine applies each request once and in the
\* order of the stream, whichever batches the reads return.
AppliedInOrder ==
  \A i, j \in DOMAIN applied : i < j => applied[i] < applied[j]

\* Every request that reaches the stream of a running engine is answered on the
\* response queue, however many prices and passes over the orders come first,
\* unless it is cut from the stream before the engine reads it.
RequestsAnswered ==
  \A i \in 1 .. MaxStream :
    (phase = "running" /\ i \in 1 .. Len(stream) /\ i \notin unread /\ ~IsPrice(i))
      ~> (i \in unread \/ \E a \in answered : a.id = i)

\* As long as nothing fails, the engine does to its memory what Trading allows:
\* the consumer handles one message at a time, and no timer, snapshot or
\* producer comes between the steps of one.
ImplementsTrading == Spec

\* In every life, also one that starts from a snapshot: from the end of the
\* replay until the process goes down, each step that is not a failed
\* publication does to memory what Trading allows.  The check of the restored
\* orders at the last prices liquidates and publishes as a price update does.
LivesTrade ==
  [][(/\ phase \in {"seeding", "announcing", "running"} /\ phase' # "down"
      /\ failures' = failures) => [Next]_vars]_allVars

\* A recovery catches up with the margin calls: once it has checked the orders, and
\* from then on, no open position has lost 90% of its exact margin at the last
\* quote, although the replay let the prices pass, opened orders again that had
\* been liquidated, and the consumer may read old prices again.  An asset the
\* process has had no price of, or the last price of which was stored by a write
\* that failed, is left out: nothing has checked its orders at that price yet.
MarginCallsCaughtUp ==
  (phase \in {"announcing", "running"} /\ Settled) =>
    \A id \in DOMAIN orders :
      (orders[id].status = "OPEN" /\ orders[id].asset \in met) =>
        10 * orders[id].leverage
           * AdverseMove(orders[id], market[orders[id].asset])
          < 9 * orders[id].executionPriceInt

\* No request is skipped: what the consumer is not going to read again is in
\* memory, over crashes, shutdowns, replays and failed publications, but for what
\* had been cut from the stream when the read that should have found it came.
NoRequestSkipped == Covers(applied, unread, currentStreamId)

\* A snapshot holds everything up to its lastStreamId, wherever between the
\* awaits of the consumer, of the replay or of the shutdown it was taken: a
\* replay from there loses no request that is still in the stream.
SnapshotCovers ==
  \A s \in snapshots \cup saving : Covers(s.applied, s.unread, s.lastStreamId)

\* Over any number of lives no request falls between memory, the snapshots and
\* what is still to be read of the stream; what is lost, the cutting took.
NothingSkipped == NoRequestSkipped /\ SnapshotCovers

\* Once its final snapshot is in the database, nothing having failed, the next
\* start restores it or a later one, although older inserts may still commit and
\* the cleanup deletes rows.  And it loses no request, although initialize(), the
\* consumer and, after an early signal, the timers went on meanwhile: what memory
\* holds is in that snapshot, or lies after its position and is still in the
\* stream.  This is claimed when nothing after the final snapshot's position had
\* been cut.  A signal that comes before initialize() has loaded the older
\* snapshot saves an empty memory at "0-0": of a stream that has been cut, the
\* next start gets only the rest, and the users of the older snapshot are gone.
ShutdownLosesNothing ==
  (stopping = "final" /\ failures = 0 /\ FinalSettled) =>
    /\ snapshots # {} /\ NewestSnapshot.timestamp >= final.timestamp
    /\ trimmed <= final.lastStreamId =>
         \A k \in DOMAIN applied :
           \/ ReadFrom(NewestSnapshot.lastStreamId) < applied[k]
           \/ \E j \in DOMAIN NewestSnapshot.applied :
                NewestSnapshot.applied[j] = applied[k]

\* A start ends, whatever it finds in the snapshot and the stream: the engine
\* runs, unless it goes down again.
StartCompletes == phase = "loading" ~> phase \in {"running", "down"}

\* README.md:336 "Replay all Redis Stream events since snapshot's lastStreamId",
\* README.md:339 "State fully restored -> engine status: READY": the consumer of
\* a recovered engine does not start before the position of the snapshot.
ConsumerResumes ==
  (phase = "announcing" /\ snapshots # {}) =>
    currentStreamId >= NewestSnapshot.lastStreamId
=============================================================================
