---------------------------- MODULE EngineProofs ----------------------------
(***************************************************************************)
(* The recovery of Engine, for every set of users, assets, payloads and    *)
(* prices, every batch size, number of snapshots kept and bound: over      *)
(* crashes, shutdowns, replays and failed publications no request is       *)
(* skipped, a snapshot holds everything up to its position, a shutdown     *)
(* loses nothing, and a recovery catches up with the margin calls.         *)
(*                                                                         *)
(* MemoryInv relates the process's memory to the stream: what is covered   *)
(* by `applied` up to the message in hand.  StorageInv says the same of    *)
(* every snapshot, and FinalOK what the final one holds.                   *)
(*                                                                         *)
(* LivesInv says what memory is: in every life one that Trading could      *)
(* have, also while the prices of a replay go unchecked and when a book is *)
(* restored.  Every step of the process but a few (Departs) is a step of   *)
(* Trading, so what is proved of Trading's steps is proved of every life.  *)
(*                                                                         *)
(* CaughtUpInv bounds what open orders have lost, in the assets whose      *)
(* orders the process has checked (CheckedAssets): all it has met, but for *)
(* those the seeding has still to take.                                    *)
(*                                                                         *)
(* For a process that starts once and that nothing happens to (OneLife)    *)
(* LifeInv gives more: memory is given its requests in the order of the    *)
(* stream, and what is done to it is what Trading allows.                  *)
(***************************************************************************)
EXTENDS Engine, MoneyProofs, Extrema, SequenceTheorems, FiniteSetTheorems, TLAPS

\* The quotes the poller streams.
Prices == {PollerQuote(p) : p \in TradePrices}

Message ==
  Requests \cup [type : {"PRICE_UPDATE"}, asset : Assets, quote : Prices]

Ids == Seq(Nat \ {0})

\* The identifiers of a batch follow each other.
Consecutive(ids) == \A i \in 1 .. Len(ids) : ids[i] = ids[1] + i - 1

MemoryOK ==
  /\ stream \in Seq(Message)
  /\ currentStreamId \in 0 .. Len(stream) /\ trimmed \in 0 .. Len(stream)
  /\ applied \in Ids
  /\ batch \in Seq(Nat) /\ Consecutive(batch)
  /\ \A i \in 1 .. Len(batch) : batch[i] <= Len(stream)
  /\ batch # <<>> => batch[1] > currentStreamId

\* Where a batch and a message in hand can be.
PhaseOK ==
  /\ phase \in Phases
  /\ phase \notin {"replaying", "running"} => batch = <<>>
  /\ phase \notin {"replaying", "running", "seeding"} => pc = "next"
  /\ (phase \in {"replaying", "running"} /\ pc # "next") => batch # <<>>
  /\ phase \in {"down", "loading"} => applied = <<>> /\ currentStreamId = 0

\* Everything before the batch is in memory, and so is the message in hand.
BatchCovered ==
  batch # <<>> =>
    Covers(applied, unread, IF pc = "next" THEN batch[1] - 1 ELSE batch[1])

MemoryInv == MemoryOK /\ PhaseOK /\ BatchCovered /\ NoRequestSkipped

SnapshotOK(s) ==
  /\ s.timestamp \in 1 .. taken
  /\ s.lastStreamId \in 0 .. Len(stream)
  /\ s.applied \in Ids

StorageOK ==
  /\ taken \in Nat /\ failures \in Nat
  /\ \A s \in snapshots \cup saving : SnapshotOK(s)
  /\ \A s, t \in snapshots \cup saving : s.timestamp = t.timestamp => s = t

StorageInv == StorageOK /\ SnapshotCovers

\* What memory holds is in a snapshot or will be replayed after it.
Kept(s) ==
  \A k \in DOMAIN applied :
    \/ applied[k] > s.lastStreamId
    \/ \E j \in DOMAIN s.applied : s.applied[j] = applied[k]

\* The final snapshot, or a later one, is the newest row once it is in the table;
\* each of them keeps what memory holds.  A process that shuts down before it has
\* loaded anything has saved an empty memory, to be replayed from the start.
FinalOK ==
  /\ final.timestamp \in 0 .. taken /\ final.lastStreamId \in Nat
  /\ (stopping = "final" /\ failures = 0) =>
       /\ \/ \E s \in saving : s.timestamp = final.timestamp
          \/ \E s \in snapshots : s.timestamp >= final.timestamp
       /\ \A s \in snapshots \cup saving :
            s.timestamp >= final.timestamp =>
              /\ final.lastStreamId <= s.lastStreamId
              /\ s.lastStreamId <= currentStreamId
              /\ Kept(s)

EngineInv == MemoryInv /\ StorageInv /\ FinalOK

-----------------------------------------------------------------------------
\* The newest snapshot

\* The newest snapshot is one: timestamps are bounded.
LEMMA NewestExists ==
  ASSUME StorageOK, snapshots # {}
  PROVE  /\ NewestSnapshot \in snapshots
         /\ \A t \in snapshots : t.timestamp <= NewestSnapshot.timestamp
<1> DEFINE T == {s.timestamp : s \in snapshots}
<1>1. taken \in Nat /\ T \in SUBSET (0 .. taken) /\ T # {}
  BY DEF StorageOK, SnapshotOK
<1>2. PICK m \in T : \A n \in T : n <= m
  <2> HIDE DEF T
  <2> QED
    BY <1>1, LargestOf
<1>3. \E s \in snapshots : \A t \in snapshots : t.timestamp <= s.timestamp
  BY <1>2
<1> QED
  BY <1>3 DEF NewestSnapshot

-----------------------------------------------------------------------------
\* Sequences of identifiers

\* What is left of consecutive identifiers is consecutive.
LEMMA TailOfRun ==
  ASSUME NEW b \in Seq(Nat), b # <<>>, Consecutive(b)
  PROVE  /\ Head(b) = b[1] /\ b[1] \in Nat /\ 1 \in 1 .. Len(b)
         /\ Tail(b) \in Seq(Nat) /\ Consecutive(Tail(b))
         /\ Len(Tail(b)) = Len(b) - 1
         /\ \A i \in 1 .. Len(Tail(b)) : Tail(b)[i] = b[i + 1]
         /\ Tail(b) # <<>> => Tail(b)[1] = b[1] + 1
<1>1. Len(b) \in Nat \ {0} /\ b[1] \in Nat /\ Head(b) = b[1]
  BY EmptySeq, ElementOfSeq
<1>2. /\ Tail(b) \in Seq(Nat) /\ Len(Tail(b)) = Len(b) - 1
      /\ \A i \in 1 .. Len(Tail(b)) : Tail(b)[i] = b[i + 1]
  BY HeadTailProperties
<1>3. \A i \in 1 .. Len(Tail(b)) : Tail(b)[i] = b[1] + i
  BY <1>1, <1>2 DEF Consecutive
<1>4. Tail(b) # <<>> => Tail(b)[1] = b[1] + 1
  BY <1>2, <1>3, EmptySeq
<1>5. Consecutive(Tail(b))
  BY <1>1, <1>2, <1>3 DEF Consecutive
<1> QED
  BY <1>1, <1>2, <1>4, <1>5

\* A span is a run of identifiers.
LEMMA SpanIsRun ==
  ASSUME NEW from \in Nat, NEW to \in Nat, from <= to
  PROVE  /\ Span(from, to) \in Seq(Nat) /\ Consecutive(Span(from, to))
         /\ Len(Span(from, to)) = to - from
         /\ \A i \in 1 .. Len(Span(from, to)) : Span(from, to)[i] = from + i
         /\ Span(from, to) # <<>> => Span(from, to)[1] = from + 1
<1>1. to - from \in Nat
  OBVIOUS
<1>2. Span(from, to) \in Seq(Nat)
  BY <1>1, IsASeq DEF Span
<1>3. Len(Span(from, to)) = to - from
  BY <1>1, <1>2, LenProperties DEF Span
<1>4. \A i \in 1 .. to - from : Span(from, to)[i] = from + i
  BY DEF Span
<1>5. Span(from, to) # <<>> => Span(from, to)[1] = from + 1
  BY <1>2, <1>3, <1>4, EmptySeq
<1> QED
  BY <1>1, <1>2, <1>3, <1>4, <1>5 DEF Consecutive

-----------------------------------------------------------------------------
\* The consumer and the replay

memory == <<stream, trimmed, batch, currentStreamId, applied, unread, phase>>

\* The message in hand is in memory: whatever part of it is next.
LEMMA MessageHeld ==
  ASSUME MemoryInv, UNCHANGED memory, phase \in {"replaying", "running"},
         batch # <<>>, Covers(applied, unread, batch[1])
  PROVE  MemoryInv'
<1>1. batch[1] \in Nat
  BY TailOfRun DEF MemoryInv, MemoryOK
<1>2. Covers(applied, unread, batch[1] - 1)
  BY <1>1 DEF Covers, MemoryInv, MemoryOK
<1> QED
  BY <1>2 DEF MemoryInv, MemoryOK, PhaseOK, BatchCovered, NoRequestSkipped, Covers,
     IsPrice, memory, Consecutive

\* The message in hand is done: the consumer goes to the next one, whether or
\* not its position moves.
LEMMA MessageDone ==
  ASSUME MemoryInv, phase \in {"replaying", "running"}, batch # <<>>,
         Covers(applied, unread, batch[1]),
         currentStreamId' \in {currentStreamId, Head(batch)}, batch' = Tail(batch),
         pc' = "next", UNCHANGED <<stream, trimmed, applied, unread, phase>>
  PROVE  MemoryInv'
<1>0. /\ stream \in Seq(Message) /\ Len(stream) \in Nat
      /\ currentStreamId \in 0 .. Len(stream)
      /\ batch \in Seq(Nat) /\ Consecutive(batch) /\ batch[1] > currentStreamId
      /\ \A i \in 1 .. Len(batch) : batch[i] <= Len(stream)
  BY LenProperties DEF MemoryInv, MemoryOK
<1>1. /\ Head(batch) = batch[1] /\ batch[1] \in Nat /\ batch[1] <= Len(stream)
      /\ Tail(batch) \in Seq(Nat) /\ Consecutive(Tail(batch))
      /\ Len(Tail(batch)) = Len(batch) - 1 /\ Len(batch) \in Nat
      /\ \A i \in 1 .. Len(Tail(batch)) : Tail(batch)[i] = batch[i + 1]
      /\ Tail(batch) # <<>> => Tail(batch)[1] = batch[1] + 1
  BY <1>0, TailOfRun, LenProperties
<1>2. MemoryOK'
  <2>1. \A i \in 1 .. Len(batch') : batch'[i] <= Len(stream)
    BY <1>0, <1>1
  <2> QED
    BY <1>0, <1>1, <2>1 DEF MemoryInv, MemoryOK, Consecutive
<1>3. PhaseOK'
  BY DEF MemoryInv, PhaseOK
<1>4. BatchCovered'
  BY <1>1 DEF BatchCovered, Covers, IsPrice
<1>5. NoRequestSkipped'
  BY <1>1 DEF MemoryInv, NoRequestSkipped, Covers, IsPrice
<1> QED
  BY <1>2, <1>3, <1>4, <1>5 DEF MemoryInv

\* A request is in memory as soon as its handler has run.
LEMMA RequestTaken ==
  ASSUME MemoryInv, phase \in {"replaying", "running"}, batch # <<>>, pc = "next",
         pc' # "next", applied' = Append(applied, Head(batch)),
         UNCHANGED <<stream, trimmed, batch, currentStreamId, unread, phase>>
  PROVE  MemoryInv'
<1>0. /\ currentStreamId \in Nat /\ batch \in Seq(Nat) /\ Consecutive(batch)
      /\ batch[1] > currentStreamId /\ applied \in Seq(Nat \ {0})
  BY LenProperties DEF MemoryInv, MemoryOK, Ids
<1>1. Head(batch) = batch[1] /\ batch[1] \in Nat \ {0}
  BY <1>0, TailOfRun
<1>2. /\ applied' \in Seq(Nat \ {0})
      /\ DOMAIN applied = 1 .. Len(applied) /\ DOMAIN applied' = 1 .. Len(applied) + 1
      /\ Len(applied) \in Nat
      /\ \A k \in DOMAIN applied : k \in DOMAIN applied' /\ applied'[k] = applied[k]
      /\ Len(applied) + 1 \in DOMAIN applied' /\ applied'[Len(applied) + 1] = batch[1]
  BY <1>0, <1>1, AppendProperties, LenProperties
<1>3. MemoryOK'
  BY <1>2 DEF MemoryInv, MemoryOK, Ids, Consecutive
<1>4. PhaseOK'
  BY DEF MemoryInv, PhaseOK
<1>5. NoRequestSkipped'
  BY <1>2 DEF MemoryInv, NoRequestSkipped, Covers, IsPrice
<1>6. BatchCovered'
  <2>1. \A i \in 1 .. batch[1] : i \in 1 .. batch[1] - 1 \/ i = batch[1]
    BY <1>0, <1>1
  <2> QED
    BY <1>2, <2>1 DEF MemoryInv, BatchCovered, Covers, IsPrice
<1> QED
  BY <1>3, <1>4, <1>5, <1>6 DEF MemoryInv

\* The message in hand has been applied.
LEMMA InHandCovered ==
  ASSUME MemoryInv, phase \in {"replaying", "running"}, pc # "next"
  PROVE  batch # <<>> /\ Covers(applied, unread, batch[1])
BY DEF MemoryInv, PhaseOK, BatchCovered

\* A price is in memory as it is: there is no request to apply.
LEMMA PriceCovered ==
  ASSUME MemoryInv, pc = "next", batch # <<>>, IsPrice(Head(batch))
  PROVE  Covers(applied, unread, batch[1])
<1>1. batch[1] \in Nat /\ Head(batch) = batch[1]
  BY TailOfRun, LenProperties DEF MemoryInv, MemoryOK
<1>2. \A i \in 1 .. batch[1] : i \in 1 .. batch[1] - 1 \/ i = batch[1]
  BY <1>1
<1> QED
  BY <1>1, <1>2 DEF MemoryInv, BatchCovered, Covers

\* A handler leaves a response to publish or a price to wait for.
LEMMA HandlerHolds ==
  ASSUME NEW request, HandleRequest(request)
  PROVE  pc = "next" /\ pc' # "next"
BY DEF HandleRequest, HandleRegisterUser, HandlePlaceOrder, HandleCloseOrder,
   HandleGetBalance, HandleGetOrder, HandleGetUserOrders, Refuse, Respond

\* Where the position and the batch go with a message the consumer has applied.
LEMMA AdvanceStep ==
  ASSUME MemoryInv, phase = "running", batch # <<>>,
         Covers(applied, unread, batch[1]), Advance,
         UNCHANGED <<stream, trimmed, applied, unread, phase>>
  PROVE  MemoryInv'
<1>1. CASE pc' = "next"
  BY <1>1, MessageDone DEF Advance
<1>2. CASE pc' # "next"
  BY <1>2, MessageHeld DEF Advance, memory
<1> QED
  BY <1>1, <1>2

\* Nothing of the process's position in the stream changes.
LEMMA MemoryUnchanged ==
  ASSUME MemoryInv, UNCHANGED <<memory, pc>>
  PROVE  MemoryInv'
BY DEF memory, MemoryInv, MemoryOK, PhaseOK, BatchCovered, NoRequestSkipped, Covers,
   IsPrice, Consecutive

\* An append does not touch the messages that are there.
LEMMA AppendKeeps ==
  ASSUME stream \in Seq(Message), NEW message \in Message,
         stream' = Append(stream, message)
  PROVE  /\ stream' \in Seq(Message) /\ Len(stream) \in Nat
         /\ Len(stream') = Len(stream) + 1
         /\ \A i \in 1 .. Len(stream) : IsPrice(i)' = IsPrice(i)
BY AppendProperties, LenProperties DEF IsPrice

LEMMA AppendStep ==
  ASSUME EngineInv,
         \/ \E request \in Requests : SubmitRequest(request)
         \/ \E asset \in Assets, p \in TradePrices : StreamPrice(asset, p)
  PROVE  EngineInv'
<1>1. PICK message \in Message : stream' = Append(stream, message)
  BY DEF SubmitRequest, StreamPrice, Message, Prices
<1>2. /\ UNCHANGED <<trimmed, batch, currentStreamId, applied, unread, phase, pc>>
      /\ UNCHANGED <<stopping, final, snapshots, saving, taken, failures>>
  BY DEF SubmitRequest, StreamPrice, vars, process, consumer, storage, counters
<1>3. /\ stream' \in Seq(Message) /\ Len(stream) \in Nat
      /\ Len(stream') = Len(stream) + 1
      /\ \A i \in 1 .. Len(stream) : IsPrice(i)' = IsPrice(i)
  BY <1>1, AppendKeeps DEF EngineInv, MemoryInv, MemoryOK
<1>4. ASSUME NEW history, NEW missed, NEW id \in Int, id <= Len(stream),
             Covers(history, missed, id)
      PROVE  Covers(history, missed, id)'
  BY <1>3, <1>4 DEF Covers
<1>5. MemoryOK' /\ PhaseOK'
  <2>1. trimmed' \in 0 .. Len(stream') /\ currentStreamId' \in 0 .. Len(stream')
    BY <1>2, <1>3 DEF EngineInv, MemoryInv, MemoryOK
  <2>2. \A i \in 1 .. Len(batch') : batch'[i] <= Len(stream')
    BY <1>2, <1>3, ElementOfSeq DEF EngineInv, MemoryInv, MemoryOK
  <2> QED
    BY <1>2, <1>3, <2>1, <2>2
       DEF EngineInv, MemoryInv, MemoryOK, PhaseOK, Consecutive
<1>6. NoRequestSkipped'
  <2>1. Covers(applied, unread, currentStreamId)'
    BY <1>2, <1>3 DEF EngineInv, MemoryInv, MemoryOK, NoRequestSkipped, Covers
  <2> QED
    BY <2>1 DEF NoRequestSkipped
<1>7. BatchCovered'
  <2>1. batch # <<>> => batch[1] \in Nat /\ batch[1] <= Len(stream)
    BY TailOfRun DEF EngineInv, MemoryInv, MemoryOK
  <2> QED
    BY <1>2, <1>3, <2>1 DEF EngineInv, MemoryInv, BatchCovered, Covers
<1>8. StorageOK'
  BY <1>2, <1>3 DEF EngineInv, StorageInv, StorageOK, SnapshotOK
<1>9. SnapshotCovers'
  <2>1. ASSUME NEW s \in snapshots \cup saving
        PROVE  Covers(s.applied, s.unread, s.lastStreamId)'
    <3>1. /\ s.lastStreamId \in 0 .. Len(stream)
          /\ Covers(s.applied, s.unread, s.lastStreamId)
      BY DEF EngineInv, StorageInv, StorageOK, SnapshotOK, SnapshotCovers
    <3> QED
      BY <1>3, <1>4, <3>1
  <2> QED
    BY <1>2, <2>1 DEF SnapshotCovers
<1>10. FinalOK'
  BY <1>2 DEF EngineInv, FinalOK, Kept
<1> QED
  BY <1>5, <1>6, <1>7, <1>8, <1>9, <1>10 DEF EngineInv, MemoryInv, StorageInv

\* What is cut stays in memory, in the snapshots and in the batch in hand.
LEMMA TrimStep ==
  ASSUME EngineInv, TrimStream
  PROVE  EngineInv'
<1>1. /\ trimmed' \in trimmed + 1 .. Len(stream) - KeepLength
      /\ UNCHANGED <<stream, batch, currentStreamId, applied, unread, phase, pc>>
      /\ UNCHANGED <<stopping, final, snapshots, saving, taken, failures>>
  BY DEF TrimStream, vars, process, consumer, storage, counters
<1>2. MemoryOK'
  <2>1. trimmed' \in 0 .. Len(stream)
    BY <1>1, EngineAssumption, LenProperties DEF EngineInv, MemoryInv, MemoryOK
  <2> QED
    BY <1>1, <2>1 DEF EngineInv, MemoryInv, MemoryOK, Consecutive
<1>3. PhaseOK' /\ BatchCovered' /\ NoRequestSkipped'
  BY <1>1 DEF EngineInv, MemoryInv, PhaseOK, BatchCovered, NoRequestSkipped, Covers,
     IsPrice
<1>4. StorageInv' /\ FinalOK'
  BY <1>1 DEF EngineInv, StorageInv, StorageOK, SnapshotOK, SnapshotCovers, Covers,
     IsPrice, FinalOK, Kept
<1> QED
  BY <1>2, <1>3, <1>4 DEF EngineInv, MemoryInv

LEMMA ProducerStep ==
  ASSUME EngineInv, Producers
  PROVE  EngineInv'
BY AppendStep, TrimStep DEF Producers

-----------------------------------------------------------------------------
\* Steps that leave storage alone

\* A snapshot does not change, and the stream it is about only grows.
LEMMA StorageUnchanged ==
  ASSUME StorageInv, UNCHANGED <<stream, snapshots, saving, taken>>, failures' \in Nat
  PROVE  StorageInv'
BY DEF StorageInv, StorageOK, SnapshotOK, SnapshotCovers, Covers, IsPrice

\* The position moves forward, and what memory gains lies after it.
LEMMA FinalUnchanged ==
  ASSUME EngineInv, UNCHANGED <<stopping, final, snapshots, saving, taken>>,
         failures' = 0 => failures = 0,
         currentStreamId' \in Nat, currentStreamId <= currentStreamId',
         \A k \in DOMAIN applied' :
           \/ k \in DOMAIN applied /\ applied'[k] = applied[k]
           \/ applied'[k] \in Nat /\ applied'[k] > currentStreamId
  PROVE  FinalOK'
<1>1. currentStreamId \in Nat
      /\ \A s \in snapshots \cup saving : s.lastStreamId \in Nat
  BY LenProperties DEF EngineInv, MemoryInv, MemoryOK, StorageInv, StorageOK, SnapshotOK
<1>2. ASSUME NEW s \in snapshots \cup saving, s.lastStreamId <= currentStreamId, Kept(s)
      PROVE  s.lastStreamId <= currentStreamId' /\ Kept(s)'
  BY <1>1, <1>2 DEF Kept
<1> QED
  BY <1>2 DEF EngineInv, FinalOK

\* What a step of the consumer or the replay owes, once its memory is in order.
LEMMA ProcessStep ==
  ASSUME EngineInv, MemoryInv', UNCHANGED <<stream, trimmed, snapshots, saving, taken,
                                            stopping, final>>,
         failures' \in Nat, failures' = 0 => failures = 0,
         currentStreamId <= currentStreamId',
         \/ UNCHANGED applied
         \/ batch # <<>> /\ applied' = Append(applied, Head(batch))
  PROVE  EngineInv'
<1>1. StorageInv'
  BY StorageUnchanged DEF EngineInv
<1>2. currentStreamId' \in Nat
  BY LenProperties DEF MemoryInv, MemoryOK
<1>3. ASSUME NEW k \in DOMAIN applied'
      PROVE  \/ k \in DOMAIN applied /\ applied'[k] = applied[k]
             \/ applied'[k] \in Nat /\ applied'[k] > currentStreamId
  <2>1. CASE UNCHANGED applied
    BY <1>3, <2>1
  <2>2. CASE batch # <<>> /\ applied' = Append(applied, Head(batch))
    <3>1. /\ Head(batch) = batch[1] /\ batch[1] \in Nat \ {0}
          /\ batch[1] > currentStreamId /\ applied \in Seq(Nat \ {0})
      BY <2>2, TailOfRun, LenProperties DEF EngineInv, MemoryInv, MemoryOK, Ids
    <3> QED
      BY <1>3, <2>2, <3>1, AppendProperties, LenProperties
  <2> QED
    BY <2>1, <2>2
<1>4. FinalOK'
  BY <1>2, <1>3, FinalUnchanged
<1> QED
  BY <1>1, <1>4 DEF EngineInv

\* The position of the message in hand is ahead of the consumer's.
LEMMA HeadAhead ==
  ASSUME EngineInv, batch # <<>>
  PROVE  /\ Head(batch) = batch[1] /\ batch[1] \in Nat
         /\ currentStreamId \in Nat /\ currentStreamId <= Head(batch)
BY TailOfRun, LenProperties DEF EngineInv, MemoryInv, MemoryOK

-----------------------------------------------------------------------------
\* initialize()

LEMMA StartStep ==
  ASSUME EngineInv, Start
  PROVE  EngineInv'
<1>1. /\ phase = "down" /\ phase' = "loading"
      /\ UNCHANGED <<stream, trimmed, batch, currentStreamId, applied, unread, pc>>
      /\ UNCHANGED <<snapshots, saving, taken, stopping, final, failures>>
  BY DEF Start, vars, consumer, storage
<1>2. MemoryInv'
  BY <1>1 DEF EngineInv, MemoryInv, MemoryOK, PhaseOK, Phases, BatchCovered,
     NoRequestSkipped, Covers, IsPrice, Consecutive
<1>3. currentStreamId \in Nat /\ failures \in Nat
  BY LenProperties DEF EngineInv, MemoryInv, MemoryOK, StorageInv, StorageOK
<1> QED
  BY <1>1, <1>2, <1>3, ProcessStep

LEMMA StartFreshStep ==
  ASSUME EngineInv, StartFresh
  PROVE  EngineInv'
<1>1. /\ phase = "loading" /\ phase' = "announcing"
      /\ currentStreamId' = Len(stream) /\ unread' = 1 .. Len(stream)
      /\ UNCHANGED <<stream, trimmed, batch, applied, pc>>
      /\ UNCHANGED <<snapshots, saving, taken, stopping, final, failures>>
  BY DEF StartFresh, vars, storage, counters
<1>2. batch = <<>> /\ pc = "next" /\ currentStreamId = 0 /\ Len(stream) \in Nat
  BY <1>1, LenProperties DEF EngineInv, MemoryInv, PhaseOK, MemoryOK
<1>3. MemoryInv'
  BY <1>1, <1>2 DEF EngineInv, MemoryInv, MemoryOK, PhaseOK, Phases, BatchCovered,
     NoRequestSkipped, Covers, Consecutive
<1>4. failures \in Nat
  BY DEF EngineInv, StorageInv, StorageOK
<1> QED
  BY <1>1, <1>2, <1>3, <1>4, ProcessStep

\* The memory of the newest snapshot, and everything after it in the batch.
LEMMA RestoreSnapshotStep ==
  ASSUME EngineInv, RestoreSnapshot
  PROVE  EngineInv'
<1>0. PICK newest \in snapshots : newest = NewestSnapshot
  BY NewestExists DEF EngineInv, StorageInv, RestoreSnapshot
<1>1. /\ phase = "loading" /\ phase' = "replaying" /\ snapshots # {}
      /\ applied' = newest.applied
      /\ unread' = newest.unread \cup (newest.lastStreamId + 1 .. trimmed)
      /\ batch' = Span(ReadFrom(newest.lastStreamId), Len(stream))
      /\ UNCHANGED <<stream, trimmed, currentStreamId, pc>>
      /\ UNCHANGED <<snapshots, saving, taken, stopping, final, failures>>
  BY <1>0 DEF RestoreSnapshot, storage, counters
<1>2. /\ newest.lastStreamId \in 0 .. Len(stream) /\ trimmed \in 0 .. Len(stream)
      /\ newest.applied \in Ids /\ Len(stream) \in Nat
      /\ Covers(newest.applied, newest.unread, newest.lastStreamId)
  BY <1>0, LenProperties
     DEF EngineInv, MemoryInv, MemoryOK, StorageInv, StorageOK, SnapshotOK, SnapshotCovers
<1>3. pc = "next" /\ currentStreamId = 0
  BY <1>1 DEF EngineInv, MemoryInv, PhaseOK
<1>4. PICK from \in newest.lastStreamId .. Len(stream) :
        /\ \A i \in newest.lastStreamId + 1 .. from : i \in unread'
        /\ batch' = Span(from, Len(stream))
  <2>1. ReadFrom(newest.lastStreamId) \in newest.lastStreamId .. Len(stream)
    BY <1>2 DEF ReadFrom
  <2>2. \A i \in newest.lastStreamId + 1 .. ReadFrom(newest.lastStreamId) : i \in unread'
    BY <1>1, <1>2 DEF ReadFrom
  <2> QED
    BY <1>1, <2>1, <2>2
<1>5a. /\ batch' \in Seq(Nat) /\ Consecutive(batch')
       /\ Len(batch') = Len(stream) - from
       /\ \A i \in 1 .. Len(batch') : batch'[i] = from + i
       /\ batch' # <<>> => batch'[1] = from + 1
  <2> DEFINE to == Len(stream)
  <2>1. from \in Nat /\ to \in Nat /\ from <= to
    BY <1>2, <1>4
  <2>2. batch' = Span(from, to)
    BY <1>4
  <2> HIDE DEF to
  <2>3. /\ Span(from, to) \in Seq(Nat) /\ Consecutive(Span(from, to))
        /\ Len(Span(from, to)) = to - from
        /\ \A i \in 1 .. Len(Span(from, to)) : Span(from, to)[i] = from + i
        /\ Span(from, to) # <<>> => Span(from, to)[1] = from + 1
    BY <2>1, SpanIsRun
  <2> QED
    BY <2>2, <2>3 DEF to, Consecutive
<1>5. MemoryOK'
  <2>1. from \in Nat /\ Len(stream) \in Nat
    BY <1>2, <1>4
  <2>2. \A i \in 1 .. Len(batch') : batch'[i] <= Len(stream)
    BY <1>5a, <2>1
  <2> QED
    BY <1>1, <1>2, <1>3, <1>5a, <2>1, <2>2
       DEF EngineInv, MemoryInv, MemoryOK, Consecutive
<1>6. PhaseOK'
  BY <1>1, <1>3 DEF PhaseOK, Phases
<1>7. Covers(applied', unread', from)
  <2>1. \A i \in 1 .. from :
          i \in 1 .. newest.lastStreamId \/ i \in newest.lastStreamId + 1 .. from
    BY <1>2, <1>4
  <2> QED
    BY <1>1, <1>2, <1>4, <2>1 DEF Covers
<1>8. BatchCovered' /\ NoRequestSkipped'
  <2>1. batch' # <<>> => batch'[1] - 1 = from
    BY <1>2, <1>4, <1>5a
  <2>2. NoRequestSkipped'
    BY <1>1, <1>2, <1>3 DEF NoRequestSkipped, Covers
  <2>3. BatchCovered'
    BY <1>1, <1>3, <1>7, <2>1 DEF BatchCovered, Covers, IsPrice
  <2> QED
    BY <2>2, <2>3
<1>9. StorageInv'
  BY <1>1, StorageUnchanged DEF EngineInv, StorageInv, StorageOK
<1>10. FinalOK'
  <2>1. \A k \in DOMAIN applied' : applied'[k] \in Nat /\ applied'[k] > 0
    BY <1>1, <1>2, LenProperties DEF Ids
  <2> QED
    BY <1>1, <1>3, <2>1, FinalUnchanged
<1> QED
  BY <1>5, <1>6, <1>8, <1>9, <1>10 DEF EngineInv, MemoryInv

\* A step that touches nothing of the process but what the phase and `pc` say.
LEMMA PhaseStep ==
  ASSUME EngineInv, MemoryInv',
         UNCHANGED <<stream, trimmed, currentStreamId, applied, snapshots, saving,
                     taken, stopping, final>>,
         failures' \in Nat, failures' = 0 => failures = 0
  PROVE  EngineInv'
<1>1. currentStreamId \in Nat
  BY LenProperties DEF EngineInv, MemoryInv, MemoryOK
<1> QED
  BY <1>1, ProcessStep

\* The replay handles a message as the consumer does, but drops its response.
LEMMA ReplayStep ==
  ASSUME EngineInv, ReplayPrice \/ ReplayRequest \/ DropResponse
  PROVE  EngineInv'
<1>0. MemoryInv /\ failures \in Nat
  BY DEF EngineInv, StorageInv, StorageOK
<1>1. /\ phase = "replaying" /\ UNCHANGED <<stream, trimmed, unread, phase>>
      /\ UNCHANGED <<snapshots, saving, taken, stopping, final, failures>>
  BY DEF ReplayPrice, ReplayRequest, DropResponse, process, consumer, storage, counters
<1>2. CASE ReplayPrice
  <2>1. /\ pc = "next" /\ pc' = pc /\ batch # <<>> /\ IsPrice(Head(batch))
        /\ batch' = Tail(batch) /\ UNCHANGED <<currentStreamId, applied>>
    BY <1>2 DEF ReplayPrice
  <2>2. MemoryInv'
    BY <1>0, <1>1, <2>1, PriceCovered, MessageDone
  <2> QED
    BY <1>0, <1>1, <2>1, <2>2, PhaseStep
<1>3. CASE ReplayRequest
  <2>1. /\ batch # <<>> /\ HandleRequest(stream[Head(batch)])
        /\ applied' = Append(applied, Head(batch))
        /\ UNCHANGED <<batch, currentStreamId>>
    BY <1>3 DEF ReplayRequest, consumer
  <2>2. pc = "next" /\ pc' # "next"
    BY <2>1, HandlerHolds
  <2>3. MemoryInv'
    BY <1>0, <1>1, <2>1, <2>2, RequestTaken
  <2> QED
    BY <1>0, <1>1, <2>1, <2>3, HeadAhead, ProcessStep
<1>4. CASE DropResponse
  <2>1. /\ pc = "respond" /\ pc' = "next" /\ currentStreamId' = Head(batch)
        /\ batch' = Tail(batch) /\ UNCHANGED applied
    BY <1>4 DEF DropResponse
  <2>2. batch # <<>> /\ Covers(applied, unread, batch[1])
    BY <1>0, <1>1, <2>1, InHandCovered
  <2>3. MemoryInv'
    BY <1>0, <1>1, <2>1, <2>2, MessageDone
  <2> QED
    BY <1>0, <1>1, <2>1, <2>2, <2>3, HeadAhead, ProcessStep
<1> QED
  BY <1>2, <1>3, <1>4

\* From the end of the replay to READY nothing is in hand.
LEMMA SeedingStep ==
  ASSUME EngineInv,
         \/ EndReplay \/ (\E asset \in Assets : SeedPrice(asset))
         \/ EndSeeding \/ AnnounceReady
  PROVE  EngineInv'
<1>0. failures \in Nat
  BY DEF EngineInv, StorageInv, StorageOK
<1>1. /\ UNCHANGED <<stream, trimmed, batch, currentStreamId, applied, unread>>
      /\ UNCHANGED <<snapshots, saving, taken, stopping, final, failures>>
  BY DEF EndReplay, SeedPrice, EndSeeding, AnnounceReady, consumer, storage, counters
<1>2. /\ \/ phase = "replaying" /\ batch = <<>> /\ phase' = "seeding"
         \/ phase = "seeding" /\ phase' = "seeding"
         \/ phase = "seeding" /\ pc = "next" /\ pc' = pc /\ phase' = "announcing"
         \/ phase = "announcing" /\ pc' = pc /\ phase' = "running"
  BY DEF EndReplay, SeedPrice, EndSeeding, AnnounceReady, vars
<1>3. batch = <<>>
  BY <1>2 DEF EngineInv, MemoryInv, PhaseOK
<1>4. MemoryInv'
  BY <1>1, <1>2, <1>3 DEF EngineInv, MemoryInv, MemoryOK, PhaseOK, Phases, BatchCovered,
     NoRequestSkipped, Covers, IsPrice, Consecutive
<1> QED
  BY <1>0, <1>1, <1>4, PhaseStep

-----------------------------------------------------------------------------
\* The consumer

\* XREAD returns what follows the position, which memory covers.
LEMMA ReadBatchStep ==
  ASSUME EngineInv, ReadBatch
  PROVE  EngineInv'
<1>1. /\ phase = "running" /\ pc = "next" /\ batch = <<>>
      /\ currentStreamId < Len(stream)
      /\ unread' = unread \cup (currentStreamId + 1 .. trimmed)
      /\ UNCHANGED <<stream, trimmed, currentStreamId, applied, phase, pc>>
      /\ UNCHANGED <<snapshots, saving, taken, stopping, final, failures>>
  BY DEF ReadBatch, vars, process, storage, counters
<1>2. /\ currentStreamId \in Nat /\ Len(stream) \in Nat /\ failures \in Nat
      /\ trimmed \in 0 .. Len(stream)
  BY LenProperties DEF EngineInv, MemoryInv, MemoryOK, StorageInv, StorageOK
<1>3. PICK from \in currentStreamId .. Len(stream), to \in 0 .. Len(stream) :
        /\ from <= to
        /\ \A i \in currentStreamId + 1 .. from : i \in unread'
        /\ batch' = Span(from, to)
  <2> DEFINE from == ReadFrom(currentStreamId)
             to == IF from + BatchSize < Len(stream) THEN from + BatchSize
                                                     ELSE Len(stream)
  <2>1. from \in currentStreamId .. Len(stream)
    BY <1>1, <1>2 DEF ReadFrom
  <2>2. \A i \in currentStreamId + 1 .. from : i \in unread'
    BY <1>1, <1>2 DEF ReadFrom
  <2>3. batch' = Span(from, to)
    BY DEF ReadBatch
  <2> HIDE DEF from
  <2>4. BatchSize \in Nat
    BY EngineAssumption
  <2>5. to \in 0 .. Len(stream) /\ from <= to
    BY <1>2, <2>1, <2>4
  <2> QED
    BY <2>1, <2>2, <2>3, <2>5
<1>4. /\ batch' \in Seq(Nat) /\ Consecutive(batch')
      /\ \A i \in 1 .. Len(batch') : batch'[i] <= Len(stream)
      /\ batch' # <<>> => batch'[1] = from + 1
  <2>1. from \in Nat /\ to \in Nat /\ from <= to /\ to <= Len(stream)
    BY <1>2, <1>3
  <2>2. /\ Span(from, to) \in Seq(Nat) /\ Consecutive(Span(from, to))
        /\ Len(Span(from, to)) = to - from
        /\ \A i \in 1 .. Len(Span(from, to)) : Span(from, to)[i] = from + i
        /\ Span(from, to) # <<>> => Span(from, to)[1] = from + 1
    BY <2>1, SpanIsRun
  <2>3. \A i \in 1 .. Len(Span(from, to)) : Span(from, to)[i] <= Len(stream)
    BY <1>2, <2>1, <2>2
  <2> QED
    BY <1>3, <2>2, <2>3 DEF Consecutive
<1>5. MemoryOK' /\ PhaseOK'
  BY <1>1, <1>2, <1>3, <1>4 DEF EngineInv, MemoryInv, MemoryOK, PhaseOK, Consecutive
<1>6. NoRequestSkipped'
  BY <1>1 DEF EngineInv, MemoryInv, NoRequestSkipped, Covers, IsPrice
<1>7. BatchCovered'
  <2>0. from \in Nat
    BY <1>2
  <2>1. batch' # <<>> => batch'[1] - 1 = from
    BY <1>4, <2>0
  <2>2. \A i \in 1 .. from :
          i \in 1 .. currentStreamId \/ i \in currentStreamId + 1 .. from
    BY <1>2, <1>3
  <2>3. Covers(applied', unread', from)
    BY <1>1, <1>3, <2>2 DEF EngineInv, MemoryInv, NoRequestSkipped, Covers
  <2> QED
    BY <1>1, <2>1, <2>3 DEF BatchCovered, Covers, IsPrice
<1> QED
  BY <1>1, <1>2, <1>5, <1>6, <1>7, PhaseStep DEF MemoryInv

\* The position never falls back when the consumer advances.
LEMMA AdvanceForward ==
  ASSUME EngineInv, Advance, batch # <<>>
  PROVE  currentStreamId <= currentStreamId'
BY HeadAhead DEF Advance

LEMMA ConsumeStep ==
  ASSUME EngineInv, ConsumeRequest \/ ConsumePrice \/ AnswerOnQueue \/ FinishRequest
  PROVE  EngineInv'
<1>0. MemoryInv /\ failures \in Nat
  BY DEF EngineInv, StorageInv, StorageOK
<1>1. /\ phase = "running" /\ UNCHANGED <<stream, trimmed, unread, phase>>
      /\ UNCHANGED <<snapshots, saving, taken, stopping, final, failures>>
  BY DEF ConsumeRequest, ConsumePrice, AnswerOnQueue, FinishRequest, process, consumer,
         storage, counters
<1>2. CASE ConsumeRequest
  <2>1. /\ batch # <<>> /\ HandleRequest(stream[Head(batch)])
        /\ applied' = Append(applied, Head(batch))
        /\ UNCHANGED <<batch, currentStreamId>>
    BY <1>2 DEF ConsumeRequest, consumer
  <2>2. pc = "next" /\ pc' # "next"
    BY <2>1, HandlerHolds
  <2>3. MemoryInv'
    BY <1>0, <1>1, <2>1, <2>2, RequestTaken
  <2> QED
    BY <1>0, <1>1, <2>1, <2>3, HeadAhead, ProcessStep
<1>3. CASE ConsumePrice
  <2>1. batch # <<>> /\ pc = "next" /\ IsPrice(Head(batch)) /\ Advance /\ UNCHANGED applied
    BY <1>3 DEF ConsumePrice, ProcessMarketUpdate
  <2>2. MemoryInv'
    BY <1>0, <1>1, <2>1, PriceCovered, AdvanceStep
  <2> QED
    BY <1>0, <1>1, <2>1, <2>2, AdvanceForward, ProcessStep
<1>4. CASE AnswerOnQueue
  <2>1. UNCHANGED <<batch, currentStreamId, applied, pc>>
    BY <1>4 DEF AnswerOnQueue, vars
  <2>2. MemoryInv'
    BY <1>0, <1>1, <2>1, MemoryUnchanged DEF memory
  <2> QED
    BY <1>0, <1>1, <2>1, <2>2, PhaseStep
<1>5. CASE FinishRequest
  <2>1. pc = "respond" /\ Advance /\ UNCHANGED applied
    BY <1>5 DEF FinishRequest, PublishResponse
  <2>2. batch # <<>> /\ Covers(applied, unread, batch[1])
    BY <1>0, <1>1, <2>1, InHandCovered
  <2>3. MemoryInv'
    BY <1>0, <1>1, <2>1, <2>2, AdvanceStep
  <2> QED
    BY <1>0, <1>1, <2>1, <2>2, <2>3, AdvanceForward, ProcessStep
<1> QED
  BY <1>2, <1>3, <1>4, <1>5

\* The rest of a close request or of a price pass, published or not.
LEMMA InHandStep ==
  ASSUME EngineInv, pc # "next", UNCHANGED <<stream, trimmed, unread, phase, applied>>,
         UNCHANGED <<snapshots, saving, taken, stopping, final>>,
         failures' \in Nat, failures' = 0 => failures = 0,
         \/ phase = "running" /\ Advance
         \/ phase \in {"replaying", "seeding"} /\ UNCHANGED <<currentStreamId, batch>>
  PROVE  EngineInv'
<1>0. MemoryInv
  BY DEF EngineInv
<1>1. CASE phase = "running" /\ Advance
  <2>1. batch # <<>> /\ Covers(applied, unread, batch[1])
    BY <1>0, <1>1, InHandCovered
  <2>2. MemoryInv'
    BY <1>0, <1>1, <2>1, AdvanceStep
  <2> QED
    BY <1>1, <2>1, <2>2, AdvanceForward, ProcessStep
<1>2. CASE phase = "replaying" /\ UNCHANGED <<currentStreamId, batch>>
  <2>1. batch # <<>> /\ Covers(applied, unread, batch[1])
    BY <1>0, <1>2, InHandCovered
  <2>2. MemoryInv'
    BY <1>0, <1>2, <2>1, MessageHeld DEF memory
  <2> QED
    BY <1>2, <2>2, PhaseStep
<1>3. CASE phase = "seeding" /\ UNCHANGED <<currentStreamId, batch>>
  <2>1. MemoryInv'
    BY <1>0, <1>3 DEF MemoryInv, MemoryOK, PhaseOK, BatchCovered, NoRequestSkipped,
       Covers, IsPrice, Consecutive
  <2> QED
    BY <1>3, <2>1, PhaseStep
<1> QED
  BY <1>1, <1>2, <1>3

LEMMA ContinueMessageStep ==
  ASSUME EngineInv, ContinueMessage
  PROVE  EngineInv'
<1>1. /\ pc # "next" /\ UNCHANGED <<stream, trimmed, unread, phase, applied>>
      /\ UNCHANGED <<snapshots, saving, taken, stopping, final, failures>>
      /\ \/ phase = "running" /\ Advance
         \/ phase \in {"replaying", "seeding"} /\ UNCHANGED <<currentStreamId, batch>>
  BY DEF ContinueMessage, CloseAtPrice, SkipOrder, LiquidateOrder, PublishLiquidation,
     process, storage, counters
<1>2. failures \in Nat
  BY DEF EngineInv, StorageInv, StorageOK
<1> QED
  BY <1>1, <1>2, InHandStep

\* A failed publication costs the position, not what memory covers.
LEMMA FailureStep ==
  ASSUME EngineInv,
         PublicationFails \/ PriceFails \/ \E id \in scan : LiquidationUnpublished(id)
  PROVE  EngineInv'
<1>0. MemoryInv /\ failures \in Nat
  BY DEF EngineInv, StorageInv, StorageOK
<1>1. /\ UNCHANGED <<stream, trimmed, unread, phase, applied>>
      /\ UNCHANGED <<snapshots, saving, taken, stopping, final>>
      /\ failures' = failures + 1
  BY DEF PublicationFails, PriceFails, LiquidationUnpublished, process, storage
<1>2. failures' \in Nat /\ failures' # 0
  BY <1>0, <1>1
<1>3. CASE PublicationFails
  <2>1. /\ phase = "running" /\ pc = "respond" /\ pc' = "next"
        /\ batch' = Tail(batch) /\ UNCHANGED currentStreamId
    BY <1>3 DEF PublicationFails
  <2>2. batch # <<>> /\ Covers(applied, unread, batch[1])
    BY <1>0, <2>1, InHandCovered
  <2>3. MemoryInv'
    BY <1>0, <1>1, <2>1, <2>2, MessageDone
  <2> QED
    BY <1>1, <1>2, <2>1, <2>3, PhaseStep
<1>4. ASSUME NEW id \in scan, LiquidationUnpublished(id) PROVE EngineInv'
  <2>1. /\ pc # "next"
        /\ \/ phase = "running" /\ Advance
           \/ phase \in {"replaying", "seeding"} /\ UNCHANGED <<currentStreamId,
                                                                batch>>
    BY <1>4 DEF LiquidationUnpublished
  <2> QED
    BY <1>1, <1>2, <2>1, InHandStep
<1>5. CASE PriceFails
  <2>1. /\ phase = "running" /\ batch # <<>> /\ IsPrice(Head(batch)) /\ pc = "next"
        /\ pc' = "next" /\ batch' = Tail(batch) /\ UNCHANGED currentStreamId
    BY <1>5 DEF PriceFails
  <2>2. MemoryInv'
    BY <1>0, <1>1, <2>1, PriceCovered, MessageDone
  <2> QED
    BY <1>1, <1>2, <2>1, <2>2, PhaseStep
<1> QED
  BY <1>3, <1>4, <1>5

-----------------------------------------------------------------------------
\* Snapshots, shutdown and crash

\* The cleanup of old snapshots spares the newest.
LEMMA NewestKeepsLast ==
  ASSUME NEW rows, NEW s \in rows,
         \A t \in rows : t.timestamp \in Nat /\ t.timestamp <= s.timestamp
  PROVE  s \in Newest(rows)
<1>1. {t \in rows : t.timestamp > s.timestamp} = {}
  OBVIOUS
<1>2. Cardinality({}) < KeepCount
  BY FS_EmptySet, EngineAssumption
<1>3. Cardinality({t \in rows : t.timestamp > s.timestamp}) < KeepCount
  BY <1>1, <1>2, Zenon
<1> QED
  BY <1>3, Zenon DEF Newest

\* Timers and the signal do not move the process along the stream.
LEMMA TimerStep ==
  ASSUME EngineInv, RunTimer \/ BeginShutdown
  PROVE  EngineInv'
<1>1. UNCHANGED <<memory, pc, snapshots, saving, taken, failures>>
  BY DEF RunTimer, BeginShutdown, AgeOrder, CleanupOldClosedOrders, engineVars, vars,
     consumer, storage, memory
<1>2. MemoryInv'
  BY <1>1, MemoryUnchanged DEF EngineInv
<1>3. StorageInv'
  BY <1>1, StorageUnchanged DEF EngineInv, StorageInv, StorageOK, memory
<1>4. FinalOK'
  <2>1. CASE RunTimer
    <3>1. UNCHANGED <<stopping, final, applied, currentStreamId>>
      BY <2>1 DEF RunTimer, engineVars
    <3> QED
      BY <1>1, <3>1 DEF EngineInv, FinalOK, Kept
  <2>2. CASE BeginShutdown
    BY <1>1, <2>2 DEF BeginShutdown, EngineInv, FinalOK
  <2> QED
    BY <2>1, <2>2
<1> QED
  BY <1>2, <1>3, <1>4 DEF EngineInv

\* What is captured covers its position: it is a copy of memory.
LEMMA CaptureStep ==
  ASSUME EngineInv, saving' = saving \cup {Capture}, taken' = taken + 1,
         UNCHANGED <<memory, pc, snapshots, failures>>
  PROVE  /\ MemoryInv' /\ StorageInv'
         /\ (\/ UNCHANGED <<stopping, final>>
             \/ final'.timestamp = taken + 1 /\ final'.lastStreamId = currentStreamId)
              => FinalOK'
<1>0. /\ taken \in Nat /\ failures \in Nat
      /\ currentStreamId \in 0 .. Len(stream) /\ applied \in Ids
  BY DEF EngineInv, StorageInv, StorageOK, MemoryInv, MemoryOK
<1>1. MemoryInv'
  BY MemoryUnchanged DEF EngineInv
<1>2. PICK s \in saving' :
        /\ saving' = saving \cup {s}
        /\ s.timestamp = taken + 1 /\ s.lastStreamId = currentStreamId
        /\ s.applied = applied /\ s.unread = unread
  <2>1. /\ Capture.timestamp = taken + 1 /\ Capture.lastStreamId = currentStreamId
        /\ Capture.applied = applied /\ Capture.unread = unread
    BY DEF Capture
  <2> QED
    BY <2>1
<1>3. SnapshotOK(s)' /\ Covers(s.applied, s.unread, s.lastStreamId)'
  BY <1>0, <1>2
     DEF SnapshotOK, Covers, IsPrice, memory, EngineInv, MemoryInv, NoRequestSkipped
<1>4. ASSUME NEW t \in snapshots \cup saving
      PROVE  /\ SnapshotOK(t)' /\ t.timestamp # s.timestamp
             /\ Covers(t.applied, t.unread, t.lastStreamId)'
  BY <1>0, <1>2
     DEF EngineInv, StorageInv, StorageOK, SnapshotOK, SnapshotCovers, Covers, IsPrice, memory
<1>5. StorageInv'
  BY <1>0, <1>2, <1>3, <1>4 DEF EngineInv, StorageInv, StorageOK, SnapshotCovers
<1>6. Kept(s)' /\ s.lastStreamId <= currentStreamId' /\ s.lastStreamId \in Nat
  BY <1>0, <1>2 DEF Kept, memory
<1>7. \A t \in snapshots \cup saving :
        /\ t.timestamp \in Nat /\ t.timestamp <= taken /\ t.lastStreamId \in Nat
        /\ Kept(t) => Kept(t)'
  BY <1>0 DEF EngineInv, StorageInv, StorageOK, SnapshotOK, Kept, memory
<1>8. ASSUME UNCHANGED <<stopping, final>> PROVE FinalOK'
  <2>1. final.timestamp \in 0 .. taken /\ final.lastStreamId \in Nat
    BY DEF EngineInv, FinalOK
  <2>2. (stopping = "final" /\ failures = 0) => final.lastStreamId <= currentStreamId
    BY <1>0, <1>7, <2>1 DEF EngineInv, FinalOK
  <2> QED
    BY <1>0, <1>2, <1>6, <1>7, <1>8, <2>1, <2>2 DEF EngineInv, FinalOK, memory
<1>9. ASSUME final'.timestamp = taken + 1, final'.lastStreamId = currentStreamId
      PROVE  FinalOK'
  <2>1. \A t \in snapshots' \cup saving' : t.timestamp >= taken + 1 => t = s
    BY <1>0, <1>2, <1>7
  <2> QED
    BY <1>0, <1>2, <1>6, <1>9, <2>1 DEF FinalOK
<1> QED
  BY <1>1, <1>5, <1>8, <1>9

LEMMA SnapshotStep ==
  ASSUME EngineInv, TakeSnapshot \/ FinalSnapshot
  PROVE  EngineInv'
<1>1. /\ saving' = saving \cup {Capture} /\ taken' = taken + 1
      /\ UNCHANGED <<memory, pc, snapshots, failures>>
  BY DEF TakeSnapshot, FinalSnapshot, vars, process, consumer, counters, memory
<1>2. CASE TakeSnapshot
  <2>1. UNCHANGED <<stopping, final>>
    BY <1>2 DEF TakeSnapshot, process
  <2> QED
    BY <1>1, <2>1, CaptureStep DEF EngineInv
<1>3. CASE FinalSnapshot
  <2>1. final'.timestamp = taken + 1 /\ final'.lastStreamId = currentStreamId
    BY <1>3 DEF FinalSnapshot
  <2> QED
    BY <1>1, <2>1, CaptureStep DEF EngineInv
<1> QED
  BY <1>2, <1>3

\* Rows and captures are among those there were.
LEMMA FewerSnapshots ==
  ASSUME StorageInv, UNCHANGED <<stream, trimmed, taken>>, failures' \in Nat,
         snapshots' \cup saving' \subseteq snapshots \cup saving
  PROVE  StorageInv'
BY DEF StorageInv, StorageOK, SnapshotOK, SnapshotCovers, Covers, IsPrice

LEMMA CommitStep ==
  ASSUME EngineInv, NEW s \in saving, CommitSnapshot(s) \/ SnapshotFails(s)
  PROVE  EngineInv'
<1>0. StorageInv /\ taken \in Nat /\ failures \in Nat
      /\ \A t \in snapshots \cup saving : t.timestamp \in Nat /\ t.timestamp <= taken
  BY DEF EngineInv, StorageInv, StorageOK, SnapshotOK
<1>1. UNCHANGED <<memory, pc, taken, stopping, final>> /\ saving' = saving \ {s}
  BY DEF CommitSnapshot, SnapshotFails, vars, process, consumer, memory
<1>2. MemoryInv'
  BY <1>1, MemoryUnchanged DEF EngineInv
<1>3. CASE CommitSnapshot(s)
  <2>1. snapshots' = Newest(snapshots \cup {s}) /\ UNCHANGED failures
    BY <1>3 DEF CommitSnapshot, counters
  <2>2. StorageInv'
    BY <1>0, <1>1, <2>1, FewerSnapshots DEF Newest, memory
  <2>3. FinalOK'
    <3> SUFFICES ASSUME stopping = "final", failures = 0
                 PROVE  \/ \E t \in saving' : t.timestamp = final.timestamp
                        \/ \E t \in snapshots' : t.timestamp >= final.timestamp
      BY <1>1, <2>1 DEF EngineInv, FinalOK, Kept, memory, Newest
    <3>1. CASE \E t \in saving \ {s} : t.timestamp = final.timestamp
      BY <1>1, <3>1
    <3>2. CASE \E t \in snapshots \cup {s} : t.timestamp >= final.timestamp
      <4>1. PICK t \in snapshots \cup {s} :
              \A r \in snapshots \cup {s} : r.timestamp <= t.timestamp
        <5> DEFINE T == {r.timestamp : r \in snapshots \cup {s}}
        <5>1. T \in SUBSET (0 .. taken) /\ T # {}
          BY <1>0
        <5>2. PICK n \in T : \A r \in T : r <= n
          <6> HIDE DEF T
          <6> QED
            BY <1>0, <5>1, LargestOf
        <5> QED
          BY <5>2
      <4>2. t \in Newest(snapshots \cup {s})
        BY <1>0, <4>1, NewestKeepsLast
      <4>3. final.timestamp \in Nat /\ t.timestamp \in Nat
        BY <1>0 DEF EngineInv, FinalOK
      <4>4. t.timestamp >= final.timestamp
        BY <1>0, <3>2, <4>1, <4>3
      <4> QED
        BY <2>1, <4>2, <4>4
    <3>3. \/ \E t \in saving : t.timestamp = final.timestamp
          \/ \E t \in snapshots : t.timestamp >= final.timestamp
      BY DEF EngineInv, FinalOK
    <3> QED
      BY <1>0, <3>1, <3>2, <3>3
  <2> QED
    BY <1>2, <2>2, <2>3 DEF EngineInv
<1>4. CASE SnapshotFails(s)
  <2>1. UNCHANGED snapshots /\ failures' = failures + 1
    BY <1>4 DEF SnapshotFails
  <2>2. failures' \in Nat /\ failures' # 0
    BY <1>0, <2>1
  <2>3. StorageInv'
    BY <1>0, <1>1, <2>1, <2>2, FewerSnapshots DEF memory
  <2> QED
    BY <1>1, <1>2, <2>2, <2>3 DEF EngineInv, FinalOK
<1> QED
  BY <1>3, <1>4

\* Whatever inserts had reached the table when the process ended.
LEMMA LoseMemoryStep ==
  ASSUME EngineInv, LoseMemory
  PROVE  EngineInv'
<1>0. /\ StorageInv /\ failures \in Nat
      /\ stream \in Seq(Message) /\ Len(stream) \in Nat /\ trimmed \in 0 .. Len(stream)
  BY LenProperties DEF EngineInv, StorageInv, StorageOK, MemoryInv, MemoryOK
<1>1. /\ batch' = <<>> /\ currentStreamId' = 0 /\ applied' = <<>>
      /\ phase' = "down" /\ pc' = "next" /\ stopping' = "no" /\ final' = NotTaken
      /\ UNCHANGED <<stream, trimmed, taken, failures>>
      /\ snapshots' \cup saving' \subseteq snapshots \cup saving
  BY DEF LoseMemory, Newest, counters
<1>2. /\ applied' \in Ids /\ batch' \in Seq(Nat) /\ Len(batch') = 0
  BY <1>1, EmptySeq DEF Ids
<1>3. MemoryInv'
  BY <1>0, <1>1, <1>2 DEF MemoryInv, MemoryOK, PhaseOK, Phases, BatchCovered,
     NoRequestSkipped, Covers, Consecutive
<1>4. StorageInv'
  BY <1>0, <1>1, FewerSnapshots
<1>5. FinalOK'
  BY <1>0, <1>1 DEF FinalOK, NotTaken, StorageInv, StorageOK
<1> QED
  BY <1>3, <1>4, <1>5 DEF EngineInv

-----------------------------------------------------------------------------
\* The theorems

LEMMA EngineInvInit == EngineInit => EngineInv
<1> SUFFICES ASSUME EngineInit PROVE EngineInv
  OBVIOUS
<1>1. /\ stream = <<>> /\ batch = <<>> /\ applied = <<>> /\ pc = "next"
      /\ currentStreamId = 0 /\ trimmed = 0 /\ phase = "down" /\ stopping = "no"
      /\ final = NotTaken
      /\ snapshots = {} /\ saving = {} /\ taken = 0 /\ failures = 0
  BY DEF EngineInit, Init
<1>2. /\ stream \in Seq(Message) /\ Len(stream) = 0
      /\ applied \in Ids /\ batch \in Seq(Nat) /\ Len(batch) = 0
  BY <1>1, EmptySeq DEF Ids
<1>3. MemoryInv
  BY <1>1, <1>2 DEF MemoryInv, MemoryOK, PhaseOK, Phases, BatchCovered,
     NoRequestSkipped, Covers, Consecutive
<1> QED
  BY <1>1, <1>3 DEF EngineInv, StorageInv, StorageOK, SnapshotCovers, FinalOK, NotTaken

LEMMA EngineInvNext == EngineInv /\ [EngineNext]_allVars => EngineInv'
<1> SUFFICES ASSUME EngineInv, [EngineNext]_allVars PROVE EngineInv'
  OBVIOUS
<1>1. CASE Start \/ Initialize
  BY <1>1, StartStep, StartFreshStep, RestoreSnapshotStep, ReplayStep, SeedingStep
     DEF Initialize
<1>2. CASE Consume
  BY <1>2, ReadBatchStep, ConsumeStep, ContinueMessageStep DEF Consume
<1>3. CASE Producers
  BY <1>3, ProducerStep
<1>4. CASE Failures
  BY <1>4, FailureStep, CommitStep DEF Failures
<1>5. CASE Background
  BY <1>5, TimerStep, SnapshotStep, CommitStep, LoseMemoryStep DEF Background, Exit, Crash
<1>6. CASE UNCHANGED allVars
  <2>1. /\ UNCHANGED <<memory, pc, snapshots, saving, taken, failures, stopping,
                       final>>
    BY <1>6 DEF allVars, vars, engineVars, memory
  <2>2. MemoryInv' /\ StorageInv'
    BY <2>1, MemoryUnchanged, StorageUnchanged
       DEF EngineInv, StorageInv, StorageOK, memory
  <2> QED
    BY <2>1, <2>2 DEF EngineInv, FinalOK, Kept, memory
<1> QED
  BY <1>1, <1>2, <1>3, <1>4, <1>5, <1>6 DEF EngineNext

\* The invariant holds in every reachable state of the engine.
THEOREM EngineInvariant == EngineSpec => []EngineInv
BY EngineInvInit, EngineInvNext, PTL DEF EngineSpec

\* No request at or before the consumer's position is missing from memory, and a
\* replay from any snapshot, committed or in flight, loses none: over crashes,
\* replays, shutdowns and failed publications.
THEOREM NothingEverSkipped == EngineSpec => []NothingSkipped
<1>1. EngineInv => NothingSkipped
  BY DEF EngineInv, MemoryInv, StorageInv, NothingSkipped
<1> QED
  BY <1>1, EngineInvariant, PTL

\* A shutdown in which nothing failed leaves its final snapshot, or a later one,
\* as the row the next start restores, whatever inserts commit beside it and
\* whatever the cleanup deletes; and what memory held is in that row or lies after
\* its position in what is left of the stream, unless the stream had been cut
\* beyond the position of the final snapshot.
THEOREM ShutdownNeverLoses == EngineSpec => []ShutdownLosesNothing
<1>1. EngineInv => ShutdownLosesNothing
  <2> SUFFICES ASSUME EngineInv, stopping = "final", failures = 0, FinalSettled
               PROVE  /\ snapshots # {}
                      /\ NewestSnapshot.timestamp >= final.timestamp
                      /\ trimmed <= final.lastStreamId =>
                           \A k \in DOMAIN applied :
                             \/ ReadFrom(NewestSnapshot.lastStreamId) < applied[k]
                             \/ \E j \in DOMAIN NewestSnapshot.applied :
                                  NewestSnapshot.applied[j] = applied[k]
    BY DEF ShutdownLosesNothing
  <2>1. StorageOK /\ final.timestamp \in Nat /\ final.lastStreamId \in Nat
    BY DEF EngineInv, StorageInv, FinalOK
  <2>2. PICK s \in snapshots : s.timestamp >= final.timestamp
    BY DEF EngineInv, FinalOK, FinalSettled
  <2>3. /\ NewestSnapshot \in snapshots
        /\ \A t \in snapshots : t.timestamp <= NewestSnapshot.timestamp
    BY <2>1, <2>2, NewestExists
  <2>4. NewestSnapshot.timestamp \in Nat /\ s.timestamp \in Nat
        /\ NewestSnapshot.lastStreamId \in Nat
    BY <2>1, <2>3 DEF StorageOK, SnapshotOK
  <2>5. NewestSnapshot.timestamp >= final.timestamp
    BY <2>1, <2>2, <2>3, <2>4
  <2>6. final.lastStreamId <= NewestSnapshot.lastStreamId /\ Kept(NewestSnapshot)
    BY <2>3, <2>5 DEF EngineInv, FinalOK
  <2>7. trimmed <= final.lastStreamId =>
          ReadFrom(NewestSnapshot.lastStreamId) = NewestSnapshot.lastStreamId
    BY <2>1, <2>4, <2>6 DEF ReadFrom, EngineInv, MemoryInv, MemoryOK
  <2> QED
    BY <2>2, <2>5, <2>6, <2>7 DEF Kept
<1> QED
  BY <1>1, EngineInvariant, PTL

-----------------------------------------------------------------------------
\* The process's memory in every life

\* What a snapshot holds is a book such as memory holds, of orders accepted
\* before.
SavedOK(s) ==
  /\ DOMAIN s.users \subseteq Users
  /\ \A u \in DOMAIN s.users : s.users[u] \in UserState
  /\ DOMAIN s.orders \subseteq OrderIds
  /\ DOMAIN s.orders \subseteq 1 .. nextOrderId - 1
  /\ \A id \in DOMAIN s.orders : s.orders[id] \in Order
  /\ \A id \in DOMAIN s.orders : s.orders[id].userId \in DOMAIN s.users
  /\ \A u \in DOMAIN s.users :
       s.users[u].orders = {id \in DOMAIN s.orders : s.orders[id].userId = u}

\* The prices the replay has met are prices of the poller.
SeedsOK ==
  /\ DOMAIN lastKnownPrices \subseteq Assets
  /\ \A asset \in DOMAIN lastKnownPrices : lastKnownPrices[asset] \in Prices

LivesInv ==
  TradingInv /\ SeedsOK /\ \A s \in snapshots \cup saving : SavedOK(s)

\* The steps of the process that do to memory what Trading does not know of: a
\* replay that checks no order and drops responses, publications and price writes
\* that fail, and a process that ends and starts again.
Departs ==
  \/ RestoreSnapshot \/ ReplayPrice \/ DropResponse
  \/ PublicationFails \/ PriceFails \/ \E id \in scan : LiquidationUnpublished(id)
  \/ Exit \/ Crash

\* A message that is no price is a request.
LEMMA StreamHoldsRequests ==
  ASSUME stream \in Seq(Message), NEW i \in 1 .. Len(stream)
  PROVE  /\ ~IsPrice(i) => stream[i] \in Requests
         /\ IsPrice(i) => /\ stream[i].asset \in Assets
                          /\ stream[i].quote \in Prices
<1>1. stream[i] \in Message
  BY ElementOfSeq
<1>2. \A request \in Requests : request.type # "PRICE_UPDATE"
  BY TradingAssumption DEF RequestSpace
<1> QED
  BY <1>1, <1>2 DEF IsPrice, Message

\* The next message of a batch is in the stream.
LEMMA HeadInStream ==
  ASSUME MemoryInv, batch # <<>>
  PROVE  Head(batch) \in 1 .. Len(stream) /\ Head(batch) = batch[1]
BY TailOfRun, LenProperties DEF MemoryInv, MemoryOK

\* Every other step is one of Trading, or none.
LEMMA StepIsTrading ==
  ASSUME EngineInv, SeedsOK, [EngineNext]_allVars
  PROVE  [Next]_vars \/ Departs
<1>0. MemoryInv /\ stream \in Seq(Message)
  BY DEF EngineInv, MemoryInv, MemoryOK
<1>1. CASE Start \/ StartFresh \/ EndReplay \/ EndSeeding \/ AnnounceReady
  BY <1>1 DEF Start, StartFresh, EndReplay, EndSeeding, AnnounceReady
<1>2. CASE ReplayRequest \/ ConsumeRequest
  BY <1>0, <1>2, HeadInStream, StreamHoldsRequests
     DEF ReplayRequest, ConsumeRequest, Next, TakeMessage
<1>3. CASE ConsumePrice
  BY <1>0, <1>3, HeadInStream, StreamHoldsRequests
     DEF ConsumePrice, Prices, Next, TakeMessage
<1>4. ASSUME NEW asset \in Assets, SeedPrice(asset) PROVE [Next]_vars
  BY <1>4 DEF SeedPrice, SeedsOK, Prices, Next, TakeMessage
<1>5. CASE ReadBatch \/ AnswerOnQueue
  BY <1>5 DEF ReadBatch, AnswerOnQueue
<1>6. CASE FinishRequest \/ ContinueMessage
  BY <1>6 DEF FinishRequest, ContinueMessage, Next, ConsumerStep
<1>7. CASE Producers
  BY <1>7 DEF Producers, SubmitRequest, StreamPrice, TrimStream
<1>8. CASE RunTimer
  BY <1>8, EngineAssumption DEF RunTimer, Next, Timer
<1>9. CASE \/ TakeSnapshot \/ BeginShutdown \/ FinalSnapshot
           \/ \E s \in saving : CommitSnapshot(s) \/ SnapshotFails(s)
  BY <1>9 DEF TakeSnapshot, CommitSnapshot, SnapshotFails, BeginShutdown, FinalSnapshot
<1>10. CASE UNCHANGED allVars
  BY <1>10 DEF allVars
<1> QED
  BY <1>1, <1>2, <1>3, <1>4, <1>5, <1>6, <1>7, <1>8, <1>9, <1>10
     DEF EngineNext, Initialize, Consume, Failures, Background, Departs

\* Where a departure leaves the consumer: it publishes nothing.
LEMMA DepartureIsQuiet ==
  ASSUME EngineInv, Departs
  PROVE  /\ pc' \in {"next", "pass"} /\ nextOrderId' = nextOrderId
         /\ pc' = "pass" => \E id \in scan : LiquidationUnpublished(id)
<1>1. CASE RestoreSnapshot
  BY <1>1 DEF RestoreSnapshot, EngineInv, MemoryInv, PhaseOK
<1>2. CASE ReplayPrice \/ DropResponse \/ PublicationFails \/ PriceFails
  BY <1>2 DEF ReplayPrice, DropResponse, PublicationFails, PriceFails
<1>3. CASE \E id \in scan : LiquidationUnpublished(id)
  BY <1>3 DEF LiquidationUnpublished, AfterPass
<1>4. CASE Exit \/ Crash
  BY <1>4 DEF Exit, Crash, LoseMemory
<1> QED
  BY <1>1, <1>2, <1>3, <1>4 DEF Departs

\* Memory without anything in hand is in order when its book and market are.
LEMMA IdleMemory ==
  ASSUME TradingInv, pc' = "next", closing' \in CloseCall \cup {None},
         tick' \in Tick \cup {None}, scan' \subseteq OrderIds,
         response' \in Response \cup {None}, aged' \subseteq OrderIds,
         DOMAIN users' \subseteq Users,
         \A u \in DOMAIN users' : users'[u] \in UserState,
         DOMAIN orders' \subseteq OrderIds, DOMAIN orders' \subseteq 1 .. nextOrderId - 1,
         \A id \in DOMAIN orders' : orders'[id] \in Order,
         DOMAIN market' \subseteq Assets,
         \A a \in DOMAIN market' : market'[a] \in Quote,
         BookConsistent', UNCHANGED <<nextOrderId, published>>
  PROVE  TradingInv'
<1>1. TypeOK'
  BY DEF TradingInv, TypeOK
<1>2. ControlOK' /\ ScanFresh' /\ CloseCallFresh' /\ IdsFresh'
  BY DEF ControlOK, ScanFresh, CloseCallFresh, IdsFresh
<1> QED
  BY <1>1, <1>2 DEF TradingInv

\* A replayed price is stored; one whose write fails may be stored or not.
LEMMA PriceStored ==
  ASSUME EngineInv, ReplayPrice \/ PriceFails
  PROVE  /\ \/ UNCHANGED market
            \/ \E asset \in Assets, quote \in Prices : market' = Put(market, asset, quote)
         /\ pc = "next" /\ pc' = "next"
         /\ UNCHANGED <<users, orders, aged, nextOrderId, closing, tick, scan,
                        response, published>>
<1>1. MemoryInv /\ stream \in Seq(Message)
  BY DEF EngineInv, MemoryInv, MemoryOK
<1>2. CASE ReplayPrice
  BY <1>1, <1>2, HeadInStream, StreamHoldsRequests DEF ReplayPrice, store
<1>3. CASE PriceFails
  BY <1>1, <1>3, HeadInStream, StreamHoldsRequests DEF PriceFails, store
<1> QED
  BY <1>2, <1>3

\* Memory stays in order over a departure: a restored book is one that was saved.
LEMMA DepartureStep ==
  ASSUME EngineInv, LivesInv, Departs
  PROVE  TradingInv'
<1>0. /\ TradingInv /\ TypeOK /\ IdsFresh /\ BookConsistent
      /\ MemoryInv /\ StorageOK /\ stream \in Seq(Message)
  BY DEF LivesInv, TradingInv, EngineInv, MemoryInv, MemoryOK, StorageInv
<1>1. CASE RestoreSnapshot
  <2>1. PICK s \in snapshots : s = NewestSnapshot
    BY <1>0, <1>1, NewestExists DEF RestoreSnapshot
  <2>2. /\ users' = s.users /\ orders' = s.orders /\ pc' = pc /\ phase = "loading"
        /\ UNCHANGED <<market, aged, nextOrderId, closing, tick, scan, response,
                       published>>
    BY <1>1, <2>1 DEF RestoreSnapshot, RestoredUsers
  <2>3. pc = "next"
    BY <1>0, <2>2 DEF MemoryInv, PhaseOK
  <2>4. SavedOK(s)
    BY DEF LivesInv
  <2>5. BookConsistent'
    BY <2>2, <2>4 DEF SavedOK, BookConsistent
  <2> QED
    BY <1>0, <2>2, <2>3, <2>4, <2>5, IdleMemory DEF SavedOK, TypeOK
<1>2. CASE ReplayPrice \/ PriceFails
  <2>1. \/ UNCHANGED market
        \/ \E asset \in Assets, quote \in Prices : market' = Put(market, asset, quote)
    BY <1>2, PriceStored
  <2>2. \A quote \in Prices : quote \in Quote
    BY PollerQuoteType, TradingAssumption DEF Prices
  <2>3. /\ DOMAIN market' \subseteq Assets
        /\ \A a \in DOMAIN market' : market'[a] \in Quote
    BY <1>0, <2>1, <2>2 DEF Put, TypeOK
  <2>4. /\ pc' = "next"
        /\ UNCHANGED <<users, orders, aged, nextOrderId, closing, tick, scan,
                       response, published>>
    BY <1>2, PriceStored
  <2>5. BookConsistent'
    BY <1>0, <2>4 DEF BookConsistent
  <2> QED
    BY <1>0, <2>3, <2>4, <2>5, IdleMemory DEF TypeOK, IdsFresh
<1>3. CASE DropResponse \/ PublicationFails
  <2>1. /\ pc' = "next" /\ response' = None
        /\ UNCHANGED <<users, orders, market, aged, nextOrderId, closing, tick, scan,
                       published>>
    BY <1>3 DEF DropResponse, PublicationFails, store
  <2>2. BookConsistent'
    BY <1>0, <2>1 DEF BookConsistent
  <2> QED
    BY <1>0, <2>1, <2>2, IdleMemory DEF TypeOK, IdsFresh
<1>4. ASSUME NEW id \in scan, LiquidationUnpublished(id) PROVE TradingInv'
  <2>1. /\ IsFirst(id) /\ pc = "publishLiquidation" /\ AfterPass(scan \ {id})
        /\ response' = None
        /\ UNCHANGED <<users, orders, market, aged, nextOrderId, closing, published>>
    BY <1>4 DEF LiquidationUnpublished, store
  <2>2. response' \in Response \cup {None} /\ published' \subseteq Closing
    BY <1>0, <2>1 DEF TypeOK
  <2> QED
    BY <1>0, <2>1, <2>2, AfterPassStep
<1>5. CASE Exit \/ Crash
  <2>1. /\ users' = EmptyMap /\ orders' = EmptyMap /\ aged' = {}
        /\ pc' = "next" /\ closing' = None /\ tick' = None /\ scan' = {}
        /\ response' = None /\ UNCHANGED <<market, nextOrderId, published>>
    BY <1>5 DEF Exit, Crash, LoseMemory
  <2>2. DOMAIN users' = {} /\ DOMAIN orders' = {}
    BY <2>1 DEF EmptyMap
  <2>3. BookConsistent'
    BY <2>2 DEF BookConsistent
  <2> QED
    BY <1>0, <2>1, <2>2, <2>3, IdleMemory DEF TypeOK
<1> QED
  BY <1>1, <1>2, <1>3, <1>4, <1>5 DEF Departs

\* Identifiers are handed out in one direction, whatever happens.
LEMMA IdsGrow ==
  ASSUME TypeOK, [Next]_vars \/ nextOrderId' = nextOrderId
  PROVE  nextOrderId \in Nat /\ nextOrderId' \in Nat /\ nextOrderId <= nextOrderId'
<1>1. nextOrderId \in Nat
  BY DEF TypeOK
<1>2. nextOrderId' \in {nextOrderId, nextOrderId + 1}
  BY DEF Next, TakeMessage, ConsumerStep, Timer, HandleRequest, HandleRegisterUser,
     HandlePlaceOrder, HandleCloseOrder, HandleGetBalance, HandleGetOrder,
     HandleGetUserOrders, Refuse, ProcessMarketUpdate, CloseAtPrice, PublishResponse,
     SkipOrder, LiquidateOrder, PublishLiquidation, AgeOrder, CleanupOldClosedOrders, vars
<1> QED
  BY <1>1, <1>2

\* Nothing but a capture adds to what is saved.
LEMMA SavedFrom ==
  ASSUME [EngineNext]_allVars
  PROVE  \A s \in snapshots' \cup saving' : s \in snapshots \cup saving \/ s = Capture
<1>1. CASE TakeSnapshot \/ FinalSnapshot
  BY <1>1 DEF TakeSnapshot, FinalSnapshot
<1>2. ASSUME NEW s \in saving, CommitSnapshot(s) \/ SnapshotFails(s)
      PROVE  snapshots' \cup saving' \subseteq snapshots \cup saving
  BY <1>2 DEF CommitSnapshot, SnapshotFails, Newest
<1>3. CASE Exit \/ Crash
  BY <1>3 DEF Exit, Crash, LoseMemory, Newest
<1>4. CASE Start \/ Initialize \/ Consume \/ Producers
  BY <1>4 DEF Start, Initialize, StartFresh, RestoreSnapshot, ReplayPrice, ReplayRequest,
     DropResponse, EndReplay, SeedPrice, EndSeeding, AnnounceReady, Consume, ReadBatch,
     ConsumeRequest, ConsumePrice, AnswerOnQueue, FinishRequest, ContinueMessage,
     Producers, SubmitRequest, StreamPrice, TrimStream, storage
<1>5. CASE \/ PublicationFails \/ PriceFails
           \/ (\E id \in scan : LiquidationUnpublished(id))
           \/ RunTimer \/ BeginShutdown \/ UNCHANGED allVars
  BY <1>5 DEF PublicationFails, PriceFails, LiquidationUnpublished, RunTimer, BeginShutdown, storage,
     engineVars, allVars
<1> QED
  BY <1>1, <1>2, <1>3, <1>4, <1>5 DEF EngineNext, Failures, Background

\* The prices to check the orders at come from the stream.
LEMMA SeedsStep ==
  ASSUME EngineInv, SeedsOK, [EngineNext]_allVars
  PROVE  SeedsOK'
<1>0. MemoryInv /\ stream \in Seq(Message)
  BY DEF EngineInv, MemoryInv, MemoryOK
<1>1. CASE ReplayPrice
  <2>1. PICK asset \in Assets, quote \in Prices :
          lastKnownPrices' = Put(lastKnownPrices, asset, quote)
    BY <1>0, <1>1, HeadInStream, StreamHoldsRequests DEF ReplayPrice
  <2> QED
    BY <2>1 DEF Put, SeedsOK
<1>2. ASSUME NEW asset \in Assets, SeedPrice(asset) PROVE SeedsOK'
  BY <1>2 DEF SeedPrice, Without, SeedsOK
<1>3. CASE Exit \/ Crash
  <2>1. DOMAIN lastKnownPrices' = {}
    BY <1>3 DEF Exit, Crash, LoseMemory, EmptyMap
  <2> QED
    BY <2>1 DEF SeedsOK
<1>4. ASSUME UNCHANGED lastKnownPrices PROVE SeedsOK'
  BY <1>4 DEF SeedsOK
<1>5. CASE \/ Start \/ StartFresh \/ RestoreSnapshot \/ ReplayRequest \/ DropResponse
           \/ EndReplay \/ EndSeeding \/ AnnounceReady
  BY <1>4, <1>5 DEF Start, StartFresh, RestoreSnapshot, ReplayRequest, DropResponse,
     EndReplay, EndSeeding, AnnounceReady, process
<1>6. CASE Consume \/ Producers \/ Failures
  BY <1>4, <1>6 DEF Consume, ReadBatch, ConsumeRequest, ConsumePrice, AnswerOnQueue,
     FinishRequest, ContinueMessage, Producers, SubmitRequest, StreamPrice, TrimStream,
     Failures, PublicationFails, PriceFails, LiquidationUnpublished, SnapshotFails,
     process
<1>7. CASE \/ RunTimer \/ TakeSnapshot \/ (\E s \in saving : CommitSnapshot(s))
           \/ BeginShutdown \/ FinalSnapshot \/ UNCHANGED allVars
  BY <1>4, <1>7 DEF RunTimer, TakeSnapshot, CommitSnapshot, BeginShutdown, FinalSnapshot,
     process, engineVars, allVars
<1> QED
  BY <1>1, <1>2, <1>3, <1>5, <1>6, <1>7 DEF EngineNext, Initialize, Background

\* What is captured is the book memory holds.
LEMMA CaptureIsBook ==
  ASSUME TradingInv
  PROVE  SavedOK(Capture)
<1>1. Capture.users = users /\ Capture.orders = orders
  BY DEF Capture
<1> QED
  BY <1>1 DEF SavedOK, TradingInv, TypeOK, IdsFresh, BookConsistent

LEMMA LivesInvNext ==
  ASSUME EngineInv, LivesInv, [EngineNext]_allVars
  PROVE  LivesInv'
<1>0. TradingInv /\ SeedsOK /\ TypeOK
  BY DEF LivesInv, TradingInv
<1>1. [Next]_vars \/ Departs
  BY <1>0, StepIsTrading
<1>2. TradingInv'
  BY <1>0, <1>1, TradingInvNext, DepartureStep
<1>3. nextOrderId \in Nat /\ nextOrderId' \in Nat /\ nextOrderId <= nextOrderId'
  BY <1>0, <1>1, DepartureIsQuiet, IdsGrow
<1>4. ASSUME NEW s \in snapshots' \cup saving' PROVE SavedOK(s)'
  <2>1. SavedOK(s)
    BY <1>0, SavedFrom, CaptureIsBook DEF LivesInv
  <2> QED
    BY <1>3, <2>1 DEF SavedOK
<1>5. SeedsOK'
  BY <1>0, SeedsStep
<1> QED
  BY <1>2, <1>4, <1>5 DEF LivesInv

\* Whatever the process loses and restores, its memory is one that Trading could
\* have: the book, the fresh identifiers, the scan and the close request in hand.
THEOREM LivesInvariant == EngineSpec => []LivesInv
<1>1. EngineInit => LivesInv
  <2> SUFFICES ASSUME EngineInit PROVE LivesInv
    OBVIOUS
  <2>1. TradingInv
    BY TradingInvInit DEF EngineInit
  <2>2. SeedsOK /\ snapshots = {} /\ saving = {}
    BY DEF EngineInit, EmptyMap, SeedsOK
  <2> QED
    BY <2>1, <2>2 DEF LivesInv
<1>2. EngineInv /\ LivesInv /\ [EngineNext]_allVars => LivesInv'
  BY LivesInvNext
<1> QED
  BY <1>1, <1>2, EngineInvariant, PTL DEF EngineSpec

\* The two indexes of StateManager agree in every life: a restored book is one
\* that was captured in one go, wherever the consumer stood.
THEOREM BookConsistentOverLives == EngineSpec => []BookConsistent
<1>1. LivesInv => BookConsistent
  BY DEF LivesInv, TradingInv
<1> QED
  BY <1>1, LivesInvariant, PTL

\* In every life, from the end of the replay on, what is done to memory is what
\* Trading allows, but for failed publications and the end of the process.
THEOREM EveryLifeTrades == EngineSpec => LivesTrade
<1>1. ASSUME EngineInv, LivesInv, [EngineNext]_allVars,
             phase \in {"seeding", "announcing", "running"}, phase' # "down",
             failures' = failures
      PROVE  [Next]_vars
  <2>1. failures \in Nat
    BY <1>1 DEF EngineInv, StorageInv, StorageOK
  <2>2. failures' # failures + 1
    BY <1>1, <2>1
  <2>3. ~RestoreSnapshot /\ ~ReplayPrice /\ ~DropResponse
    BY <1>1 DEF RestoreSnapshot, ReplayPrice, DropResponse
  <2>4. /\ ~PublicationFails /\ ~PriceFails
        /\ ~\E id \in scan : LiquidationUnpublished(id)
    BY <2>2 DEF PublicationFails, PriceFails, LiquidationUnpublished
  <2>5. ~Exit /\ ~Crash
    BY <1>1 DEF Exit, Crash, LoseMemory
  <2>6. [Next]_vars \/ Departs
    BY <1>1, StepIsTrading DEF LivesInv
  <2> QED
    BY <2>3, <2>4, <2>5, <2>6 DEF Departs
<1>2. EngineInv /\ LivesInv /\ [EngineNext]_allVars =>
        ((/\ phase \in {"seeding", "announcing", "running"} /\ phase' # "down"
          /\ failures' = failures) => [Next]_vars)
  BY <1>1
<1> QED
  BY <1>2, EngineInvariant, LivesInvariant, PTL DEF EngineSpec, LivesTrade

\* A response the process is about to publish is sound in every life: none is
\* taken over from before a restart or left by a publication that failed.
THEOREM ResponsesSoundOverLives == EngineSpec => []ResponseSound
<1>1. EngineInit => ResponseSound
  BY DEF EngineInit, Init, ResponseSound, Publishing
<1>2. ASSUME EngineInv, LivesInv, ResponseSound, [EngineNext]_allVars
      PROVE  ResponseSound'
  <2>1. CASE [Next]_vars
    BY <1>2, <2>1, ResponseSoundNext DEF LivesInv
  <2>2. CASE Departs
    BY <1>2, <2>2, DepartureIsQuiet DEF ResponseSound, Publishing
  <2> QED
    BY <1>2, <2>1, <2>2, StepIsTrading DEF LivesInv
<1> QED
  BY <1>1, <1>2, EngineInvariant, LivesInvariant, PTL DEF EngineSpec

\* A departure ends a pass only with the process, or with the last order's
\* closing unpublished.
LEMMA DepartureKeepsPass ==
  ASSUME EngineInv, LivesInv, PassInv, Departs
  PROVE  PassInv' /\ EndsClean
<1>0. TradingInv /\ TypeOK /\ TickKept
  BY DEF LivesInv, TradingInv, PassInv
<1>1. ASSUME NEW id \in scan, LiquidationUnpublished(id)
      PROVE  PassInv' /\ EndsClean
  <2>1. /\ InPass /\ IsFirst(id) /\ AfterPass(scan \ {id}) /\ UNCHANGED orders
        /\ ~(id \in DOMAIN orders /\ orders[id].status = "OPEN")
    BY <1>1 DEF LiquidationUnpublished, store, InPass, PassInv, PublishedNotOpen
  <2> QED
    BY <1>0, <2>1, AfterPassKeepsInv
<1>2. CASE \/ RestoreSnapshot \/ ReplayPrice \/ DropResponse \/ PublicationFails
           \/ PriceFails
  <2>1. ~InPass /\ ~InPass' /\ tick = None /\ tick' = None
    <3>1. pc \in {"next", "respond"} /\ tick' = tick
      BY <1>2 DEF RestoreSnapshot, ReplayPrice, DropResponse, PublicationFails, PriceFails,
         EngineInv, MemoryInv, PhaseOK
    <3>2. pc' = "next"
      BY <1>2 DEF RestoreSnapshot, ReplayPrice, DropResponse, PublicationFails, PriceFails,
         EngineInv, MemoryInv, PhaseOK
    <3> QED
      BY <1>0, <3>1, <3>2 DEF TickKept, InPass
  <2> QED
    BY <2>1 DEF PassInv, TickKept, ExaminedNotDue, PublishedNotOpen, InPass, EndsClean
<1>3. CASE Exit \/ Crash
  <2>1. tick' = None /\ pc' = "next" /\ DOMAIN orders' = {}
    BY <1>3 DEF Exit, Crash, LoseMemory, EmptyMap
  <2> QED
    BY <2>1 DEF PassInv, TickKept, ExaminedNotDue, PublishedNotOpen, InPass, EndsClean
<1> QED
  BY <1>1, <1>2, <1>3 DEF Departs

\* A price leaves no position behind in any life, the check after a replay
\* included, and whichever publications fail on the way.
THEOREM PassesCompleteOverLives == EngineSpec => PassComplete
<1>1. EngineInit => PassInv
  BY DEF EngineInit, Init, PassInv, TickKept, ExaminedNotDue, PublishedNotOpen, InPass
<1>2. ASSUME EngineInv, LivesInv, PassInv, [EngineNext]_allVars
      PROVE  PassInv' /\ EndsClean
  BY <1>2, StepIsTrading, PassNext, DepartureKeepsPass DEF LivesInv
<1>3. EngineInv /\ LivesInv /\ PassInv /\ [EngineNext]_allVars => PassInv' /\ EndsClean
  BY <1>2
<1> QED
  BY <1>1, <1>3, EngineInvariant, LivesInvariant, PTL
     DEF EngineSpec, PassComplete, EndsClean

-----------------------------------------------------------------------------
\* Margin calls in every life

\* A saved order has the terms it was accepted on, and its asset has a quote:
\* the market is in Redis and outlives the process.
SavedTerms(s) ==
  \A id \in DOMAIN s.orders :
    TermsOf(s.orders[id]) /\ s.orders[id].asset \in DOMAIN market

\* Prices wait for their orders to be checked only from the replay to the end of
\* the seeding, and the replay checks none.
MetOK ==
  /\ phase \in {"down", "loading"} => met = {}
  /\ phase = "replaying" => met \subseteq DOMAIN lastKnownPrices
  /\ phase \notin {"replaying", "seeding"} => DOMAIN lastKnownPrices = {}
  /\ DOMAIN lastKnownPrices \subseteq met

\* The assets whose orders have been checked at their last price.
CheckedAssets == met \ DOMAIN lastKnownPrices

CaughtUpInv ==
  /\ TermsInv /\ MarketInv /\ PassInv
  /\ \A s \in snapshots \cup saving : SavedTerms(s)
  /\ MetOK
  /\ LossInvOn(CheckedAssets)

\* An asset that has a quote keeps one.
LEMMA MarketGrows ==
  ASSUME [Next]_vars \/ Departs
  PROVE  DOMAIN market \subseteq DOMAIN market'
<1>1. CASE UNCHANGED market
  BY <1>1
<1>2. ASSUME NEW asset, NEW quote, market' = Put(market, asset, quote)
      PROVE  DOMAIN market \subseteq DOMAIN market'
  BY <1>2 DEF Put
<1>3. CASE Departs
  BY <1>1, <1>2, <1>3 DEF Departs, RestoreSnapshot, ReplayPrice, DropResponse,
     PublicationFails, PriceFails, LiquidationUnpublished, Exit, Crash, LoseMemory, store
<1>4. CASE [Next]_vars
  BY <1>1, <1>2, <1>4
     DEF Next, TakeMessage, ConsumerStep, Timer, HandleRequest, ProcessMarketUpdate,
         CloseAtPrice, PublishResponse, SkipOrder, LiquidateOrder, PublishLiquidation,
         AgeOrder, CleanupOldClosedOrders, vars
<1> QED
  BY <1>3, <1>4

\* The orders of a departure: those it found, those of a snapshot, or none.
LEMMA DepartureOrders ==
  ASSUME EngineInv, Departs
  PROVE  \/ UNCHANGED orders
         \/ DOMAIN orders' = {}
         \/ \E s \in snapshots : orders' = s.orders
<1>1. CASE RestoreSnapshot
  BY <1>1, NewestExists DEF RestoreSnapshot, EngineInv, StorageInv
<1>2. CASE \/ ReplayPrice \/ DropResponse \/ PublicationFails \/ PriceFails
           \/ \E id \in scan : LiquidationUnpublished(id)
  BY <1>2 DEF ReplayPrice, DropResponse, PublicationFails, PriceFails,
     LiquidationUnpublished, store
<1>3. CASE Exit \/ Crash
  BY <1>3 DEF Exit, Crash, LoseMemory, EmptyMap
<1> QED
  BY <1>1, <1>2, <1>3 DEF Departs

\* Terms, in memory and saved, are kept over every step.
LEMMA TermsOverLives ==
  ASSUME EngineInv, LivesInv, CaughtUpInv, [EngineNext]_allVars
  PROVE  TermsInv' /\ \A s \in snapshots' \cup saving' : SavedTerms(s)'
<1>0. /\ TradingInv /\ TermsInv /\ ([Next]_vars \/ Departs)
      /\ \A s \in snapshots \cup saving : SavedTerms(s)
  BY StepIsTrading DEF LivesInv, CaughtUpInv
<1>1. TermsInv'
  <2>1. CASE Departs
    <3>1. \A s \in snapshots : \A id \in DOMAIN s.orders : TermsOf(s.orders[id])
      BY <1>0 DEF SavedTerms
    <3>2. \A id \in DOMAIN orders' : TermsOf(orders'[id])
      BY <1>0, <2>1, <3>1, DepartureOrders DEF TermsInv
    <3> QED
      BY <3>2 DEF TermsInv, TermsOf
  <2> QED
    BY <1>0, <2>1, TermsNext
<1>2. ASSUME NEW s \in snapshots' \cup saving' PROVE SavedTerms(s)'
  <2>1. CASE s \in snapshots \cup saving
    <3>1. \A id \in DOMAIN s.orders :
            TermsOf(s.orders[id]) /\ s.orders[id].asset \in DOMAIN market'
      BY <1>0, <2>1, MarketGrows DEF SavedTerms
    <3> QED
      BY <3>1 DEF SavedTerms
  <2>2. CASE s = Capture
    <3>1. s.orders = orders
      BY <2>2 DEF Capture
    <3>2. \A id \in DOMAIN s.orders :
            TermsOf(s.orders[id]) /\ s.orders[id].asset \in DOMAIN market'
      BY <1>0, <3>1, MarketGrows DEF TermsInv, CaughtUpInv, LossInvOn
    <3> QED
      BY <3>2 DEF SavedTerms
  <2> QED
    BY <2>1, <2>2, SavedFrom
<1> QED
  BY <1>1, <1>2

\* Every quote the market holds is the poller's.
LEMMA MarketOverLives ==
  ASSUME NarrowSpreads, EngineInv, LivesInv, MarketInv, [EngineNext]_allVars
  PROVE  MarketInv'
<1>1. CASE [Next]_vars
  BY <1>1, MarketNext
<1>2. CASE ReplayPrice \/ PriceFails
  <2>1. \/ UNCHANGED market
        \/ \E asset \in Assets, quote \in Prices : market' = Put(market, asset, quote)
    BY <1>2, PriceStored
  <2>2. \A quote \in Prices : NarrowSpread(quote)
    BY DEF Prices, NarrowSpreads
  <2>3. \A a \in DOMAIN market' :
          market'[a] \in Prices \/ (a \in DOMAIN market /\ market'[a] = market[a])
    BY <2>1 DEF Put
  <2>4. \A a \in DOMAIN market' : NarrowSpread(market'[a])
    BY <2>2, <2>3 DEF MarketInv
  <2> QED
    BY <2>4 DEF MarketInv, NarrowSpread
<1>3. CASE Departs /\ ~ReplayPrice /\ ~PriceFails
  <2>1. UNCHANGED market
    BY <1>3 DEF Departs, RestoreSnapshot, DropResponse, PublicationFails,
       LiquidationUnpublished, Exit, Crash, LoseMemory, store
  <2> QED
    BY <2>1 DEF MarketInv
<1> QED
  BY <1>1, <1>2, <1>3, StepIsTrading DEF LivesInv

\* What touches the prices met and the prices to check.
LEMMA PricesStay ==
  ASSUME [EngineNext]_allVars
  PROVE  \/ UNCHANGED <<phase, met, lastKnownPrices>>
         \/ Start \/ Initialize \/ ConsumePrice \/ PriceFails \/ Exit \/ Crash
<1>1. CASE (Consume /\ ~ConsumePrice) \/ Producers \/ (Failures /\ ~PriceFails)
  BY <1>1 DEF Consume, ReadBatch, ConsumeRequest, AnswerOnQueue, FinishRequest,
     ContinueMessage, Producers, SubmitRequest, StreamPrice, TrimStream, Failures,
     PublicationFails, LiquidationUnpublished, SnapshotFails, process
<1>2. CASE \/ RunTimer \/ TakeSnapshot \/ (\E s \in saving : CommitSnapshot(s))
           \/ BeginShutdown \/ FinalSnapshot \/ UNCHANGED allVars
  BY <1>2 DEF RunTimer, TakeSnapshot, CommitSnapshot, BeginShutdown, FinalSnapshot,
     process, engineVars, allVars
<1> QED
  BY <1>1, <1>2 DEF EngineNext, Background

LEMMA MetStep ==
  ASSUME MetOK, [EngineNext]_allVars
  PROVE  MetOK'
<1>1. ASSUME UNCHANGED <<phase, met, lastKnownPrices>> PROVE MetOK'
  BY <1>1 DEF MetOK
<1>2. CASE \/ Start \/ StartFresh \/ RestoreSnapshot \/ EndReplay \/ EndSeeding
           \/ AnnounceReady
  BY <1>2 DEF MetOK, Start, StartFresh, RestoreSnapshot, EndReplay, EndSeeding,
     AnnounceReady
<1>3. CASE ReplayRequest \/ DropResponse
  BY <1>1, <1>3 DEF ReplayRequest, DropResponse, process
<1>4. CASE ReplayPrice
  <2> DEFINE message == stream[Head(batch)]
  <2>1. /\ phase = "replaying" /\ phase' = phase /\ met' = met \cup {message.asset}
        /\ lastKnownPrices' = Put(lastKnownPrices, message.asset, message.quote)
    BY <1>4 DEF ReplayPrice
  <2>2. DOMAIN lastKnownPrices' = DOMAIN lastKnownPrices \cup {message.asset}
    BY <2>1 DEF Put
  <2> HIDE DEF message
  <2> QED
    BY <2>1, <2>2 DEF MetOK
<1>5. ASSUME NEW asset \in Assets, SeedPrice(asset) PROVE MetOK'
  <2>1. /\ phase = "seeding" /\ phase' = phase /\ met' = met
        /\ DOMAIN lastKnownPrices' = DOMAIN lastKnownPrices \ {asset}
    BY <1>5 DEF SeedPrice, Without
  <2> QED
    BY <2>1 DEF MetOK
<1>6. CASE ConsumePrice \/ PriceFails
  BY <1>6 DEF ConsumePrice, PriceFails, MetOK
<1>7. CASE Exit \/ Crash
  <2>1. phase' = "down" /\ met' = {} /\ DOMAIN lastKnownPrices' = {}
    BY <1>7 DEF Exit, Crash, LoseMemory, EmptyMap
  <2> QED
    BY <2>1 DEF MetOK
<1> QED
  BY <1>1, <1>2, <1>3, <1>4, <1>5, <1>6, <1>7, PricesStay DEF Initialize

\* A step of Trading, or a publication given up, leaves what was checked bounded.
LEMMA BoundedStays ==
  ASSUME EngineInv, LivesInv, CaughtUpInv, NEW A, LossInvOn(A),
         \/ [Next]_vars \/ DropResponse \/ PublicationFails
         \/ \E id \in scan : LiquidationUnpublished(id)
  PROVE  LossInvOn(A)'
<1>0. /\ TradingInv /\ TypeOK /\ TermsInv /\ MarketInv /\ PassInv
  BY DEF LivesInv, TradingInv, CaughtUpInv
<1>1. CASE [Next]_vars
  BY <1>0, <1>1, LossNext
<1>2. CASE \/ DropResponse \/ PublicationFails
           \/ \E id \in scan : LiquidationUnpublished(id)
  <2>1. UNCHANGED <<orders, market>>
    BY <1>2 DEF DropResponse, PublicationFails, LiquidationUnpublished, store
  <2>2. InPass' => InPass /\ tick' = tick
    BY <1>2 DEF DropResponse, PublicationFails, LiquidationUnpublished, AfterPass, InPass
  <2>3. EndsClean
    BY <1>0, <1>2, DepartureKeepsPass DEF Departs
  <2>4. /\ \A id \in DOMAIN orders \cap DOMAIN orders' :
             /\ orders'[id].asset = orders[id].asset
             /\ orders'[id].status = "OPEN" => orders'[id] = orders[id]
        /\ \A id \in DOMAIN orders' \ DOMAIN orders :
             /\ orders'[id].asset \in DOMAIN market
             /\ Bounded(orders'[id], market[orders'[id].asset])
    BY <2>1
  <2> QED
    BY <1>0, <2>1, <2>2, <2>3, <2>4, StepLoss
<1> QED
  BY <1>1, <1>2

\* Nothing is checked while the stream is replayed; a price the consumer or the
\* seeding handles adds its asset, one whose write fails may take it away.
LEMMA CheckedStep ==
  ASSUME EngineInv, LivesInv, CaughtUpInv, [EngineNext]_allVars
  PROVE  LossInvOn(CheckedAssets)'
<1>0. /\ TradingInv /\ TypeOK /\ SeedsOK /\ MetOK /\ LossInvOn(CheckedAssets)
      /\ MemoryInv /\ stream \in Seq(Message)
  BY DEF LivesInv, TradingInv, CaughtUpInv, EngineInv, MemoryInv, MemoryOK
<1>1. PICK A : A = CheckedAssets
  OBVIOUS
<1>2. LossInvOn(A)
  BY <1>0, <1>1
<1>3. ASSUME NEW B, LossInvOn(B)', CheckedAssets' = B PROVE LossInvOn(CheckedAssets)'
  BY <1>3 DEF LossInvOn
<1>4. ASSUME NEW asset \in Assets, SeedPrice(asset) PROVE LossInvOn(CheckedAssets)'
  <2>1. PICK quote : quote = lastKnownPrices[asset] /\ ProcessMarketUpdate(asset, quote)
    BY <1>4 DEF SeedPrice
  <2>2. LossInvOn(A \cup {asset})'
    BY <1>2, <2>1, TickLoss
  <2>3. CheckedAssets' = A \cup {asset}
    BY <1>0, <1>1, <1>4 DEF SeedPrice, Without, CheckedAssets, MetOK
  <2> QED
    BY <1>3, <2>2, <2>3
<1>5. CASE ConsumePrice
  <2>1. PICK asset, quote : /\ asset \in Assets
                            /\ ProcessMarketUpdate(asset, quote)
                            /\ met' = met \cup {asset}
    BY <1>0, <1>5, HeadInStream, StreamHoldsRequests DEF ConsumePrice
  <2>2. LossInvOn(A \cup {asset})'
    BY <1>2, <2>1, TickLoss
  <2>3. CheckedAssets' = A \cup {asset}
    <3>1. DOMAIN lastKnownPrices = {} /\ lastKnownPrices' = lastKnownPrices
      BY <1>0, <1>5 DEF ConsumePrice, MetOK
    <3> QED
      BY <1>1, <2>1, <3>1 DEF CheckedAssets
  <2> QED
    BY <1>3, <2>2, <2>3
<1>6. CASE RestoreSnapshot \/ ReplayPrice
  <2>1. CheckedAssets' = {}
    <3>1. phase' = "replaying"
      BY <1>6 DEF RestoreSnapshot, ReplayPrice
    <3> QED
      BY <1>0, <3>1, MetStep DEF MetOK, CheckedAssets
  <2>2. ~InPass'
    BY <1>0, <1>6 DEF RestoreSnapshot, ReplayPrice, InPass, MemoryInv, PhaseOK
  <2>3. \A id \in DOMAIN orders' : orders'[id].asset \in DOMAIN market'
    <3>1. CASE RestoreSnapshot
      <4>1. PICK s \in snapshots : orders' = s.orders
        BY <3>1, NewestExists DEF RestoreSnapshot, EngineInv, StorageInv
      <4>2. SavedTerms(s) /\ market' = market
        BY <3>1 DEF CaughtUpInv, RestoreSnapshot
      <4> QED
        BY <4>1, <4>2 DEF SavedTerms
    <3>2. CASE ReplayPrice
      <4>1. orders' = orders /\ Departs
        BY <3>2 DEF ReplayPrice, store, Departs
      <4> QED
        BY <1>2, <4>1, MarketGrows DEF LossInvOn
    <3> QED
      BY <1>6, <3>1, <3>2
  <2>4. LossInvOn({})'
    BY <2>2, <2>3 DEF LossInvOn
  <2> QED
    BY <1>3, <2>1, <2>4
<1>7. CASE Exit \/ Crash
  <2>1. DOMAIN orders' = {} /\ pc' = "next"
    BY <1>7 DEF Exit, Crash, LoseMemory, EmptyMap
  <2> QED
    BY <2>1 DEF LossInvOn, InPass
<1>8. CASE PriceFails
  <2>1. /\ pc = "next" /\ pc' = "next" /\ UNCHANGED <<orders, tick>>
        /\ DOMAIN lastKnownPrices = {} /\ lastKnownPrices' = lastKnownPrices
    BY <1>0, <1>8 DEF PriceFails, MetOK, store
  <2>2. ~InPass /\ ~InPass'
    BY <2>1 DEF InPass
  <2>3. PICK asset, quote : \/ UNCHANGED <<market, met>>
                            \/ /\ market' = Put(market, asset, quote)
                               /\ met' = met \ {asset}
    BY <1>8 DEF PriceFails
  <2>4. /\ DOMAIN market \subseteq DOMAIN market'
        /\ \A a \in DOMAIN market \cap CheckedAssets' : market'[a] = market[a]
        /\ CheckedAssets' \subseteq A
    BY <1>1, <2>1, <2>3 DEF Put, CheckedAssets
  <2>5. PICK B : B = CheckedAssets'
    OBVIOUS
  <2>6. \A id \in DOMAIN orders :
          /\ orders[id].asset \in DOMAIN market'
          /\ (orders[id].status = "OPEN" /\ orders[id].asset \in B) =>
               Bounded(orders[id], market'[orders[id].asset])
    BY <1>2, <2>2, <2>4, <2>5 DEF LossInvOn
  <2>7. LossInvOn(B)'
    BY <2>1, <2>2, <2>6 DEF LossInvOn, Bounded, AdverseMove, ExitPriceInt
  <2> QED
    BY <1>3, <2>5, <2>7
<1>9. CASE UNCHANGED <<met, lastKnownPrices>> /\ ~RestoreSnapshot /\ ~ReplayPrice
            /\ ~PriceFails /\ ~Exit /\ ~Crash
  <2>1. \/ [Next]_vars \/ DropResponse \/ PublicationFails
        \/ \E id \in scan : LiquidationUnpublished(id)
    BY <1>0, <1>9, StepIsTrading DEF Departs
  <2>2. LossInvOn(A)'
    BY <1>2, <2>1, BoundedStays
  <2>3. CheckedAssets' = A
    BY <1>1, <1>9 DEF CheckedAssets
  <2> QED
    BY <1>3, <2>2, <2>3
<1>10. CASE Start \/ StartFresh \/ ReplayRequest \/ DropResponse \/ EndReplay \/ EndSeeding
           \/ AnnounceReady
  <2>1. UNCHANGED <<met, lastKnownPrices>>
    BY <1>10 DEF Start, StartFresh, ReplayRequest, DropResponse, EndReplay, EndSeeding,
       AnnounceReady, process
  <2> QED
    BY <1>6, <1>7, <1>8, <1>9, <2>1
<1> QED
  BY <1>4, <1>5, <1>6, <1>7, <1>8, <1>9, <1>10, PricesStay DEF Initialize

LEMMA CaughtUpNext ==
  ASSUME NarrowSpreads, EngineInv, LivesInv, CaughtUpInv, [EngineNext]_allVars
  PROVE  CaughtUpInv'
<1>1. TradingInv /\ PassInv /\ MarketInv /\ MetOK /\ ([Next]_vars \/ Departs)
  BY StepIsTrading DEF LivesInv, CaughtUpInv
<1>2. PassInv'
  BY <1>1, PassNext, DepartureKeepsPass
<1>3. MarketInv' /\ MetOK'
  BY <1>1, MarketOverLives, MetStep
<1> QED
  BY <1>2, <1>3, TermsOverLives, CheckedStep DEF CaughtUpInv

\* Under LargePrices every recovery catches up with the margin calls it missed:
\* from the end of initialize() on no position is open, between two messages, that
\* a price this process has had would have called.
THEOREM MarginCallsAlwaysCaughtUp ==
  ASSUME LargePrices
  PROVE  EngineSpec => []MarginCallsCaughtUp
<1>1. EngineInit => CaughtUpInv
  BY DEF EngineInit, Init, EmptyMap, CaughtUpInv, TermsInv, MarketInv, PassInv, TickKept,
     ExaminedNotDue, PublishedNotOpen, InPass, MetOK, LossInvOn
<1>2. EngineInv /\ LivesInv /\ CaughtUpInv /\ [EngineNext]_allVars => CaughtUpInv'
  BY CaughtUpNext, PollerSpreadIsNarrow
<1>3. CaughtUpInv => MarginCallsCaughtUp
  BY DEF CaughtUpInv, MetOK, CheckedAssets, LossInvOn, MarginCallsCaughtUp, Settled,
     InPass, Bounded
<1> QED
  BY <1>1, <1>2, <1>3, EngineInvariant, LivesInvariant, PTL DEF EngineSpec

-----------------------------------------------------------------------------
\* What the process, Redis and PostgreSQL hold

\* The status key, and where a response and a shutdown stand.
Flags ==
  /\ engineStatus \in Status /\ opened \in BOOLEAN /\ queueSent \in BOOLEAN
  /\ stopping \in {"no", "status", "final"} /\ final.phase \in Phases

\* The cutting leaves the newest messages of the stream.  The history points into
\* the stream, that of every snapshot too.
ShapeInv ==
  /\ Flags
  /\ Len(stream) <= MaxStream
  /\ trimmed > 0 => trimmed + KeepLength <= Len(stream)
  /\ unread \subseteq 1 .. Len(stream)
  /\ \A k \in DOMAIN applied : applied[k] <= Len(stream)
  /\ \A s \in snapshots \cup saving :
       /\ s.unread \subseteq 1 .. Len(stream)
       /\ \A k \in DOMAIN s.applied : s.applied[k] <= Len(stream)

\* The rows of the snapshot table are at most KeepCount.
RowsInv ==
  /\ IsFiniteSet(snapshots) /\ IsFiniteSet(saving)
  /\ Cardinality(snapshots) <= KeepCount

\* The cleanup leaves at most KeepCount rows: all but the oldest that is left
\* are newer than it, and it was left because few are.
LEMMA NewestIsBounded ==
  ASSUME NEW rows, IsFiniteSet(rows), \A s \in rows : s.timestamp \in Nat,
         \A s, t \in rows : s.timestamp = t.timestamp => s = t
  PROVE  IsFiniteSet(Newest(rows)) /\ Cardinality(Newest(rows)) <= KeepCount
<1> DEFINE N == Newest(rows)
<1>1. N \in SUBSET rows
  BY DEF Newest
<1>2. IsFiniteSet(N)
  BY <1>1, FS_Subset
<1>3. CASE N = {}
  <2>1. Cardinality(N) = 0
    BY <1>3, FS_EmptySet
  <2> QED
    BY <1>2, <2>1, EngineAssumption
<1>4. CASE N # {}
  <2> DEFINE T == {s.timestamp : s \in N}
  <2>1. T \in SUBSET Nat /\ T # {}
    BY <1>1, <1>4
  <2>2. PICK first \in T : \A n \in T : first <= n
    <3> HIDE DEF T
    <3> QED
      BY <2>1, SmallestOf
  <2>3. PICK m \in N : m.timestamp = first
    BY <2>2
  <2> DEFINE Newer == {t \in rows : t.timestamp > m.timestamp}
  <2>4. N \ {m} \in SUBSET Newer
    <3> SUFFICES ASSUME NEW t \in N \ {m} PROVE t \in Newer
      OBVIOUS
    <3>1. /\ t \in rows /\ m \in rows
          /\ t.timestamp \in Nat /\ m.timestamp \in Nat
          /\ t.timestamp # m.timestamp /\ m.timestamp <= t.timestamp
      BY <1>1, <2>2, <2>3
    <3> QED
      BY <3>1
  <2>5. Cardinality(Newer) < KeepCount
    BY <2>3 DEF Newest
  <2>6. IsFiniteSet(Newer)
    BY FS_Subset
  <2> HIDE DEF N, Newer
  <2>7. Cardinality(N \ {m}) <= Cardinality(Newer)
    BY <2>4, <2>6, FS_Subset
  <2>8. Cardinality(N \ {m}) = Cardinality(N) - 1
    BY <1>2, <2>3, FS_RemoveElement
  <2>9. Cardinality(N) \in Nat /\ Cardinality(Newer) \in Nat
    BY <1>2, <2>6, FS_CardinalityType
  <2>10. Cardinality(N) <= KeepCount
    BY <2>5, <2>7, <2>8, <2>9, EngineAssumption
  <2> QED
    BY <1>2, <2>10 DEF N
<1> QED
  BY <1>3, <1>4

\* The rows of the table are few after every commit and every crash.
LEMMA RowsStep ==
  ASSUME EngineInv, RowsInv, [EngineNext]_allVars
  PROVE  RowsInv'
<1>0. /\ IsFiniteSet(snapshots) /\ IsFiniteSet(saving)
      /\ \A s \in snapshots \cup saving : s.timestamp \in Nat
      /\ \A s, t \in snapshots \cup saving : s.timestamp = t.timestamp => s = t
  BY DEF RowsInv, EngineInv, StorageInv, StorageOK, SnapshotOK
<1>1. ASSUME NEW committed \in SUBSET saving,
             snapshots' = Newest(snapshots \cup committed), saving' \in SUBSET saving
      PROVE  RowsInv'
  <2> DEFINE rows == snapshots \cup committed
  <2>1. IsFiniteSet(rows) /\ IsFiniteSet(saving')
    BY <1>0, <1>1, FS_Subset, FS_Union
  <2>2. /\ \A s \in rows : s.timestamp \in Nat
        /\ \A s, t \in rows : s.timestamp = t.timestamp => s = t
    BY <1>0
  <2> HIDE DEF rows
  <2>3. IsFiniteSet(Newest(rows)) /\ Cardinality(Newest(rows)) <= KeepCount
    BY <2>1, <2>2, NewestIsBounded
  <2>4. snapshots' = Newest(rows)
    BY <1>1 DEF rows
  <2> QED
    BY <2>1, <2>3, <2>4, Zenon DEF RowsInv
<1>2. ASSUME UNCHANGED snapshots, IsFiniteSet(saving') PROVE RowsInv'
  BY <1>2, Zenon DEF RowsInv
<1>3. ASSUME NEW s \in saving, CommitSnapshot(s) PROVE RowsInv'
  <2>1. /\ snapshots' = Newest(snapshots \cup {s}) /\ {s} \in SUBSET saving
        /\ saving' \in SUBSET saving
    BY <1>3 DEF CommitSnapshot
  <2> QED
    BY <1>1, <2>1
<1>4. ASSUME NEW s \in saving, SnapshotFails(s) PROVE RowsInv'
  <2>1. UNCHANGED snapshots /\ saving' = saving \ {s}
    BY <1>4 DEF SnapshotFails
  <2> QED
    BY <1>0, <1>2, <2>1, FS_RemoveElement
<1>5. CASE TakeSnapshot \/ FinalSnapshot
  <2>1. UNCHANGED snapshots /\ saving' = saving \cup {Capture}
    BY <1>5 DEF TakeSnapshot, FinalSnapshot
  <2> QED
    BY <1>0, <1>2, <2>1, FS_AddElement
<1>6. CASE Exit \/ Crash
  <2>1. /\ saving' = {}
        /\ \E committed \in SUBSET saving : snapshots' = Newest(snapshots \cup committed)
    BY <1>6 DEF Exit, Crash, LoseMemory
  <2> QED
    BY <1>1, <2>1
<1>7. CASE UNCHANGED <<snapshots, saving>>
  BY <1>0, <1>2, <1>7
<1>8. CASE Start \/ Initialize \/ Consume \/ Producers
  <2>1. UNCHANGED <<snapshots, saving>>
    BY <1>8 DEF Start, Initialize, StartFresh, RestoreSnapshot, ReplayPrice,
       ReplayRequest, DropResponse, EndReplay, SeedPrice, EndSeeding, AnnounceReady,
       Consume, ReadBatch, ConsumeRequest, ConsumePrice, AnswerOnQueue, FinishRequest,
       ContinueMessage, Producers, SubmitRequest, StreamPrice, TrimStream, storage
  <2> QED
    BY <1>7, <2>1
<1>9. CASE \/ PublicationFails \/ PriceFails \/ (\E id \in scan : LiquidationUnpublished(id))
           \/ RunTimer \/ BeginShutdown \/ UNCHANGED allVars
  <2>1. UNCHANGED <<snapshots, saving>>
    BY <1>9 DEF PublicationFails, PriceFails, LiquidationUnpublished, RunTimer,
       BeginShutdown, storage, engineVars, allVars
  <2> QED
    BY <1>7, <2>1
<1> QED
  BY <1>3, <1>4, <1>5, <1>6, <1>8, <1>9 DEF EngineNext, Failures, Background

\* The stream grows by one message at a time and up to its bound.
LEMMA StreamStep ==
  ASSUME EngineInv, Len(stream) <= MaxStream, [EngineNext]_allVars
  PROVE  /\ Len(stream) \in Nat /\ Len(stream') \in Nat
         /\ Len(stream) <= Len(stream') /\ Len(stream') <= MaxStream
<1>0. stream \in Seq(Message) /\ Len(stream) \in Nat /\ MaxStream \in Nat
  BY LenProperties, EngineAssumption DEF EngineInv, MemoryInv, MemoryOK
<1>1. CASE UNCHANGED stream
  BY <1>0, <1>1
<1>2. CASE Producers
  <2>1. CASE TrimStream
    BY <1>1, <2>1 DEF TrimStream
  <2>2. CASE Producers /\ ~TrimStream
    <3>1. PICK message \in Message : stream' = Append(stream, message)
      BY <2>2 DEF Producers, SubmitRequest, StreamPrice, Message, Prices
    <3>2. Len(stream) < MaxStream
      BY <2>2 DEF Producers, SubmitRequest, StreamPrice
    <3>3. Len(stream') = Len(stream) + 1
      BY <1>0, <3>1, AppendKeeps
    <3> QED
      BY <1>0, <3>2, <3>3
  <2> QED
    BY <1>2, <2>1, <2>2
<1>3. CASE Start \/ Initialize \/ Consume
  BY <1>1, <1>3 DEF Start, Initialize, StartFresh, RestoreSnapshot, ReplayPrice,
     ReplayRequest, DropResponse, EndReplay, SeedPrice, EndSeeding, AnnounceReady, Consume,
     ReadBatch, ConsumeRequest, ConsumePrice, AnswerOnQueue, FinishRequest,
     ContinueMessage
<1>4. CASE Failures \/ Background \/ UNCHANGED allVars
  BY <1>1, <1>4 DEF Failures, PublicationFails, PriceFails, LiquidationUnpublished,
     SnapshotFails, Background, RunTimer, TakeSnapshot, CommitSnapshot, BeginShutdown, FinalSnapshot,
     Exit, Crash, LoseMemory, engineVars, allVars
<1> QED
  BY <1>2, <1>3, <1>4 DEF EngineNext

\* The history of memory grows by the message in hand, is that of the snapshot
\* restored, or is gone.
LEMMA AppliedStep ==
  ASSUME [EngineNext]_allVars
  PROVE  \/ UNCHANGED applied
         \/ batch # <<>> /\ applied' = Append(applied, Head(batch))
         \/ snapshots # {} /\ applied' = NewestSnapshot.applied
         \/ applied' = <<>>
<1>1. CASE Start \/ Initialize \/ Consume
  BY <1>1 DEF Start, Initialize, StartFresh, RestoreSnapshot, ReplayPrice,
     ReplayRequest, DropResponse, EndReplay, SeedPrice, EndSeeding, AnnounceReady, Consume,
     ReadBatch, ConsumeRequest, ConsumePrice, AnswerOnQueue, FinishRequest,
     ContinueMessage
<1>2. CASE Producers \/ Failures \/ Background \/ UNCHANGED allVars
  BY <1>2 DEF Producers, SubmitRequest, StreamPrice, TrimStream, Failures,
     PublicationFails, PriceFails, LiquidationUnpublished, SnapshotFails, Background, RunTimer, TakeSnapshot,
     CommitSnapshot, BeginShutdown, FinalSnapshot, Exit, Crash, LoseMemory, engineVars,
     allVars
<1> QED
  BY <1>1, <1>2 DEF EngineNext

\* A read misses what has been cut, a first start all that is there.
LEMMA UnreadStep ==
  ASSUME [EngineNext]_allVars
  PROVE  \/ UNCHANGED unread \/ unread' = {}
         \/ unread' = 1 .. Len(stream)
         \/ unread' = unread \cup (currentStreamId + 1 .. trimmed)
         \/ /\ snapshots # {}
            /\ unread' = NewestSnapshot.unread
                           \cup (NewestSnapshot.lastStreamId + 1 .. trimmed)
<1>1. CASE Start \/ Initialize \/ Consume
  BY <1>1 DEF Start, Initialize, StartFresh, RestoreSnapshot, ReplayPrice,
     ReplayRequest, DropResponse, EndReplay, SeedPrice, EndSeeding, AnnounceReady, Consume,
     ReadBatch, ConsumeRequest, ConsumePrice, AnswerOnQueue, FinishRequest,
     ContinueMessage
<1>2. CASE Producers \/ Failures \/ Background \/ UNCHANGED allVars
  BY <1>2 DEF Producers, SubmitRequest, StreamPrice, TrimStream, Failures,
     PublicationFails, PriceFails, LiquidationUnpublished, SnapshotFails, Background,
     RunTimer, TakeSnapshot, CommitSnapshot, BeginShutdown, FinalSnapshot, Exit, Crash,
     LoseMemory, engineVars, allVars
<1> QED
  BY <1>1, <1>2 DEF EngineNext

\* The stream is cut by the cutting only, and not while it grows.
LEMMA CutStep ==
  ASSUME [EngineNext]_allVars
  PROVE  UNCHANGED trimmed \/ TrimStream
<1>1. CASE Start \/ Initialize \/ Consume
  BY <1>1 DEF Start, Initialize, StartFresh, RestoreSnapshot, ReplayPrice,
     ReplayRequest, DropResponse, EndReplay, SeedPrice, EndSeeding, AnnounceReady, Consume,
     ReadBatch, ConsumeRequest, ConsumePrice, AnswerOnQueue, FinishRequest,
     ContinueMessage
<1>2. CASE Producers \/ Failures \/ Background \/ UNCHANGED allVars
  BY <1>2 DEF Producers, SubmitRequest, StreamPrice, Failures,
     PublicationFails, PriceFails, LiquidationUnpublished, SnapshotFails, Background,
     RunTimer, TakeSnapshot, CommitSnapshot, BeginShutdown, FinalSnapshot, Exit, Crash,
     LoseMemory, engineVars, allVars
<1> QED
  BY <1>1, <1>2 DEF EngineNext

LEMMA FlagsStep ==
  ASSUME Flags, phase \in Phases, [EngineNext]_allVars
  PROVE  Flags'
<1>1. CASE Start \/ Initialize
  BY <1>1 DEF Flags, Status, Start, Initialize, StartFresh, RestoreSnapshot, ReplayPrice,
     ReplayRequest, DropResponse, EndReplay, SeedPrice, EndSeeding, AnnounceReady, process,
     consumer
<1>2. CASE Consume \/ Producers
  BY <1>2 DEF Flags, Consume, ReadBatch, ConsumeRequest, ConsumePrice, AnswerOnQueue,
     FinishRequest, ContinueMessage, Producers, SubmitRequest, StreamPrice, TrimStream,
     process, consumer
<1>3. CASE Failures \/ UNCHANGED allVars
  BY <1>3 DEF Flags, Failures, PublicationFails, PriceFails, LiquidationUnpublished,
     SnapshotFails, process, consumer, engineVars, allVars
<1>4. CASE FinalSnapshot
  BY <1>4 DEF Flags, FinalSnapshot, consumer
<1>5. CASE Exit \/ Crash
  <2>1. /\ UNCHANGED <<engineStatus, opened>> /\ queueSent' = FALSE
        /\ stopping' = "no" /\ final' = NotTaken
    BY <1>5 DEF Exit, Crash, LoseMemory
  <2>2. NotTaken.phase \in Phases
    BY DEF NotTaken, Phases
  <2> QED
    BY <2>1, <2>2 DEF Flags
<1>6. CASE Background /\ ~FinalSnapshot /\ ~Exit /\ ~Crash
  BY <1>6 DEF Flags, Status, Background, RunTimer, TakeSnapshot, CommitSnapshot,
     BeginShutdown, process, consumer, engineVars
<1> QED
  BY <1>1, <1>2, <1>3, <1>4, <1>5, <1>6 DEF EngineNext

LEMMA ShapeStep ==
  ASSUME EngineInv, ShapeInv, [EngineNext]_allVars
  PROVE  ShapeInv'
<1>0. MemoryInv /\ StorageOK /\ Flags /\ Len(stream) <= MaxStream
  BY DEF EngineInv, StorageInv, ShapeInv
<1>1. /\ Len(stream) \in Nat /\ Len(stream') \in Nat
      /\ Len(stream) <= Len(stream') /\ Len(stream') <= MaxStream
  BY <1>0, StreamStep
<1>2. Flags'
  BY <1>0, FlagsStep DEF MemoryInv, PhaseOK
<1>3. ASSUME NEW history \in Ids, \A k \in DOMAIN history : history[k] <= Len(stream)
      PROVE  \A k \in DOMAIN history : history[k] <= Len(stream')
  <2>1. \A k \in DOMAIN history : history[k] \in Nat
    BY LenProperties, ElementOfSeq DEF Ids
  <2> QED
    BY <1>1, <1>3, <2>1
<1>4. applied \in Ids
  BY <1>0 DEF MemoryInv, MemoryOK
<1>5. \A k \in DOMAIN applied' : applied'[k] <= Len(stream')
  <2>1. CASE UNCHANGED applied
    BY <1>3, <1>4, <2>1 DEF ShapeInv
  <2>2. CASE batch # <<>> /\ applied' = Append(applied, Head(batch))
    <3>1. Head(batch) \in 1 .. Len(stream) /\ Head(batch) \in Nat
      BY <1>0, <1>1, <2>2, HeadInStream
    <3>2. /\ Len(applied) \in Nat /\ DOMAIN applied = 1 .. Len(applied)
          /\ DOMAIN applied' = 1 .. Len(applied) + 1
          /\ \A k \in 1 .. Len(applied) : applied'[k] = applied[k]
          /\ applied'[Len(applied) + 1] = Head(batch)
      <4>1. applied \in Seq(Nat \ {0}) /\ Head(batch) \in Nat \ {0}
        BY <1>4, <3>1 DEF Ids
      <4> QED
        BY <2>2, <4>1, AppendProperties, LenProperties
    <3>3. \A k \in DOMAIN applied' : k \in DOMAIN applied \/ k = Len(applied) + 1
      BY <3>2
    <3>4. \A k \in DOMAIN applied : applied[k] <= Len(stream')
      BY <1>3, <1>4 DEF ShapeInv
    <3> QED
      BY <1>1, <3>1, <3>2, <3>3, <3>4
  <2>3. CASE snapshots # {} /\ applied' = NewestSnapshot.applied
    <3>1. PICK s \in snapshots : applied' = s.applied
      BY <1>0, <2>3, NewestExists
    <3>2. s.applied \in Ids /\ \A k \in DOMAIN s.applied : s.applied[k] <= Len(stream)
      BY <1>0 DEF StorageOK, SnapshotOK, ShapeInv
    <3> QED
      BY <1>3, <3>1, <3>2
  <2>4. CASE applied' = <<>>
    BY <2>4, EmptySeq
  <2> QED
    BY <2>1, <2>2, <2>3, <2>4, AppliedStep
<1>6. ASSUME NEW s \in snapshots' \cup saving'
      PROVE  /\ s.unread \subseteq 1 .. Len(stream')
             /\ \A k \in DOMAIN s.applied : s.applied[k] <= Len(stream')
  <2>1. CASE s \in snapshots \cup saving
    BY <1>0, <1>1, <1>3, <2>1 DEF StorageOK, SnapshotOK, ShapeInv
  <2>2. CASE s = Capture
    <3>1. s.applied = applied /\ s.unread = unread
      BY <2>2 DEF Capture
    <3> QED
      BY <1>1, <1>3, <1>4, <3>1 DEF ShapeInv
  <2> QED
    BY <2>1, <2>2, SavedFrom
<1>7. /\ trimmed \in 0 .. Len(stream) /\ currentStreamId \in 0 .. Len(stream)
      /\ \A s \in snapshots : s.lastStreamId \in 0 .. Len(stream)
  BY <1>0 DEF MemoryInv, MemoryOK, StorageOK, SnapshotOK
<1>8. /\ KeepLength \in Nat
      /\ trimmed > 0 => trimmed + KeepLength <= Len(stream)
      /\ unread \subseteq 1 .. Len(stream)
      /\ \A s \in snapshots : s.unread \subseteq 1 .. Len(stream)
  BY EngineAssumption DEF ShapeInv
<1>9. unread' \subseteq 1 .. Len(stream')
  <2>1. ASSUME NEW s \in snapshots PROVE s.unread \cup (s.lastStreamId + 1 .. trimmed)
                                           \subseteq 1 .. Len(stream')
    BY <1>1, <1>7, <1>8
  <2>2. unread \cup (currentStreamId + 1 .. trimmed) \subseteq 1 .. Len(stream')
    BY <1>1, <1>7, <1>8
  <2>3. snapshots # {} => NewestSnapshot \in snapshots
    BY <1>0, NewestExists
  <2>4. 1 .. Len(stream) \subseteq 1 .. Len(stream')
    BY <1>1
  <2> QED
    BY <2>1, <2>2, <2>3, <2>4, UnreadStep
<1>10. trimmed' > 0 => trimmed' + KeepLength <= Len(stream')
  <2>1. CASE UNCHANGED trimmed
    BY <1>1, <1>7, <1>8, <2>1
  <2>2. CASE TrimStream
    BY <1>1, <1>7, <1>8, <2>2 DEF TrimStream
  <2> QED
    BY <2>1, <2>2, CutStep
<1> QED
  BY <1>1, <1>2, <1>5, <1>6, <1>9, <1>10 DEF ShapeInv

\* The identifiers of a batch are positions of the stream.
LEMMA BatchInStream ==
  ASSUME MemoryInv
  PROVE  \A i \in DOMAIN batch : batch[i] \in 1 .. Len(stream)
<1>1. /\ batch \in Seq(Nat) /\ DOMAIN batch = 1 .. Len(batch) /\ Len(batch) \in Nat
      /\ currentStreamId \in Nat /\ Len(stream) \in Nat
  BY LenProperties DEF MemoryInv, MemoryOK
<1>2. ASSUME NEW i \in DOMAIN batch PROVE batch[i] \in 1 .. Len(stream)
  <2>1. batch # <<>> /\ i \in 1 .. Len(batch)
    BY <1>1, EmptySeq
  <2>2. /\ batch[1] \in Nat /\ batch[1] > currentStreamId
        /\ batch[i] = batch[1] + i - 1 /\ batch[i] <= Len(stream)
    BY <1>1, <2>1, TailOfRun DEF MemoryInv, MemoryOK, Consecutive
  <2> QED
    BY <1>1, <2>1, <2>2
<1> QED
  BY <1>2

\* The types of the process, its stream and its snapshots, and the number of
\* rows the table is kept to, over crashes and overlapping inserts.
THEOREM EngineTypeCorrect == EngineSpec => []EngineTypeOK
<1>1. EngineInit => ShapeInv /\ RowsInv
  <2> SUFFICES ASSUME EngineInit PROVE ShapeInv /\ RowsInv
    OBVIOUS
  <2>1. /\ stream = <<>> /\ applied = <<>> /\ snapshots = {} /\ saving = {}
        /\ engineStatus = "NONE" /\ opened = FALSE /\ queueSent = FALSE
        /\ stopping = "no" /\ trimmed = 0 /\ unread = {} /\ final.phase \in Phases
    BY DEF EngineInit, NotTaken, Phases
  <2>2. ShapeInv
    <3>1. DOMAIN applied = {} /\ Len(stream) = 0
      BY <2>1, EmptySeq
    <3>2. 0 <= MaxStream
      BY EngineAssumption
    <3>3. Flags
      BY <2>1 DEF Flags, Status
    <3>4. ~(trimmed > 0)
      BY <2>1
    <3> QED
      BY <2>1, <3>1, <3>2, <3>3, <3>4 DEF ShapeInv
  <2>3. IsFiniteSet({}) /\ Cardinality({}) = 0
    BY FS_EmptySet
  <2> QED
    BY <2>1, <2>2, <2>3, EngineAssumption DEF RowsInv
<1>2. EngineInv /\ ShapeInv /\ RowsInv /\ [EngineNext]_allVars => ShapeInv' /\ RowsInv'
  BY ShapeStep, RowsStep
<1>3. ASSUME EngineInv, LivesInv, ShapeInv, RowsInv PROVE EngineTypeOK
  <2>1. /\ TypeOK /\ MemoryInv
        /\ \A s \in snapshots \cup saving : s.timestamp \in 1 .. taken
        /\ final.timestamp \in 0 .. taken
    BY <1>3 DEF EngineInv, StorageInv, StorageOK, SnapshotOK, FinalOK, LivesInv, TradingInv
  <2>2. /\ phase \in Phases /\ {currentStreamId, trimmed} \subseteq 0 .. Len(stream)
        /\ applied \in Ids /\ Len(stream) \in Nat
    BY <2>1, LenProperties DEF MemoryInv, MemoryOK, PhaseOK
  <2>3. \A i \in DOMAIN applied : applied[i] \in 1 .. Len(stream)
    <3>1. \A i \in DOMAIN applied : applied[i] \in Nat \ {0}
      BY <2>2, LenProperties, ElementOfSeq DEF Ids
    <3> QED
      BY <1>3, <2>2, <3>1 DEF ShapeInv
  <2>4. \A i \in DOMAIN batch : batch[i] \in 1 .. Len(stream)
    BY <2>1, BatchInStream
  <2> QED
    BY <1>3, <2>1, <2>2, <2>3, <2>4 DEF ShapeInv, Flags, RowsInv,
       EngineTypeOK
<1>4. EngineInv /\ LivesInv /\ ShapeInv /\ RowsInv => EngineTypeOK
  BY <1>3
<1> QED
  BY <1>1, <1>2, <1>4, EngineInvariant, LivesInvariant, PTL DEF EngineSpec

-----------------------------------------------------------------------------
\* The only life of a process nothing happens to

\* One start of the process, no signal, no publication or insert that fails.
OneLife == MaxStarts = 1 /\ MaxStops = 0 /\ MaxFailures = 0

\* The last message the memory can have been given.
Edge ==
  IF batch = <<>> THEN currentStreamId
  ELSE IF pc = "next" THEN batch[1] - 1 ELSE batch[1]

\* In its only life the process never restores or replays.
LifeOK ==
  /\ starts \in Nat /\ stops = 0 /\ failures = 0 /\ stopping = "no"
  /\ phase \in {"down", "loading", "announcing", "running"}
  /\ phase # "down" => starts >= 1
  /\ phase # "running" => applied = <<>> /\ snapshots = {} /\ saving = {}

\* What memory was given was given in order, and nothing of what is to come.
OrderOK ==
  /\ AppliedInOrder
  /\ \A k \in DOMAIN applied : applied[k] <= Edge

LifeInv == LifeOK /\ OrderOK

-----------------------------------------------------------------------------
\* Every step of the only life is one of Trading

\* Nothing departs from Trading when nothing fails and nothing is restored.
LEMMA LifeStepIsTrading ==
  ASSUME OneLife, EngineInv, LivesInv, LifeOK, [EngineNext]_allVars
  PROVE  [Next]_vars
<1>1. ~Departs
  BY DEF OneLife, LifeOK, Departs, ReplayPrice, DropResponse, PublicationFails,
     PriceFails, LiquidationUnpublished, RestoreSnapshot, Exit, Crash
<1> QED
  BY <1>1, StepIsTrading DEF LivesInv

-----------------------------------------------------------------------------
\* The order in which memory is given its requests

\* The message in hand is the edge, or the one before it is.
LEMMA EdgeBounds ==
  ASSUME MemoryInv
  PROVE  /\ Edge \in Int /\ currentStreamId \in Nat
         /\ batch = <<>> => Edge = currentStreamId
         /\ batch # <<>> => /\ batch[1] \in Nat \ {0}
                            /\ batch[1] - 1 <= Edge /\ Edge <= batch[1]
                            /\ pc = "next" => Edge = batch[1] - 1
<1>1. currentStreamId \in Nat
  BY LenProperties DEF MemoryInv, MemoryOK
<1>2. batch # <<>> => batch[1] \in Nat \ {0}
  BY <1>1, TailOfRun DEF MemoryInv, MemoryOK
<1> QED
  BY <1>1, <1>2 DEF Edge

\* Nothing more is given to memory, and the edge does not move back.
LEMMA OrderKept ==
  ASSUME MemoryInv, OrderOK, UNCHANGED applied,
         NEW e \in Int, Edge' = e, Edge <= e
  PROVE  OrderOK'
<1>1. Edge \in Int /\ \A k \in DOMAIN applied : applied[k] \in Nat
  BY EdgeBounds, ElementOfSeq, LenProperties DEF MemoryInv, MemoryOK, Ids
<1> QED
  BY <1>1 DEF OrderOK, AppliedInOrder

\* Where the consumer goes with a message, the edge goes forward.
LEMMA AdvanceEdge ==
  ASSUME MemoryInv, OrderOK, batch # <<>>, Advance, UNCHANGED applied
  PROVE  OrderOK'
<1>1. /\ Head(batch) = batch[1] /\ batch[1] \in Nat
      /\ Tail(batch) # <<>> => Tail(batch)[1] = batch[1] + 1
      /\ Edge <= batch[1]
  BY TailOfRun, EdgeBounds DEF MemoryInv, MemoryOK
<1>2. Edge' = batch[1]
  <2>1. CASE pc' = "next" /\ Tail(batch) = <<>>
    BY <1>1, <2>1 DEF Advance, Edge
  <2>2. CASE pc' = "next" /\ Tail(batch) # <<>>
    <3>1. batch' = Tail(batch) /\ Tail(batch)[1] - 1 = batch[1]
      BY <1>1, <2>2 DEF Advance
    <3>2. Edge' = batch'[1] - 1
      BY <2>2, <3>1 DEF Edge
    <3> QED
      BY <3>1, <3>2
  <2>3. CASE pc' # "next"
    BY <2>3 DEF Advance, Edge
  <2> QED
    BY <2>1, <2>2, <2>3
<1> QED
  BY <1>1, <1>2, OrderKept

\* A request is given to memory after all those before it in the stream.
LEMMA RequestInOrder ==
  ASSUME MemoryInv, OrderOK, batch # <<>>, pc = "next", pc' # "next",
         applied' = Append(applied, Head(batch)), UNCHANGED batch
  PROVE  OrderOK'
<1>1. /\ Head(batch) = batch[1] /\ batch[1] \in Nat \ {0}
      /\ Edge = batch[1] - 1 /\ applied \in Seq(Nat \ {0})
  BY TailOfRun, EdgeBounds DEF MemoryInv, MemoryOK, Ids
<1>2. /\ Len(applied) \in Nat
      /\ DOMAIN applied = 1 .. Len(applied) /\ DOMAIN applied' = 1 .. Len(applied) + 1
      /\ \A k \in 1 .. Len(applied) : applied'[k] = applied[k] /\ applied[k] \in Nat
      /\ applied'[Len(applied) + 1] = batch[1]
  BY <1>1, AppendProperties, LenProperties, ElementOfSeq
<1>3. Edge' = batch[1]
  BY DEF Edge
<1>4. \A k \in 1 .. Len(applied) : applied[k] < batch[1]
  BY <1>1, <1>2 DEF OrderOK
<1>5. \A k \in 1 .. Len(applied) + 1 : k \in 1 .. Len(applied) \/ k = Len(applied) + 1
  BY <1>2
<1>6. AppliedInOrder'
  BY <1>1, <1>2, <1>4, <1>5 DEF OrderOK, AppliedInOrder
<1>7. \A k \in DOMAIN applied' : applied'[k] <= batch[1]
  BY <1>1, <1>2, <1>4, <1>5
<1> QED
  BY <1>3, <1>6, <1>7 DEF OrderOK

\* The consumer's position and its messages stay.
LEMMA OrderUnchanged ==
  ASSUME OrderOK, UNCHANGED <<batch, currentStreamId, pc, applied>>
  PROVE  OrderOK'
BY DEF OrderOK, AppliedInOrder, Edge

LEMMA LifeInvNext ==
  ASSUME OneLife, EngineInv, LifeInv, [EngineNext]_allVars
  PROVE  LifeInv'
<1>0. MemoryInv /\ LifeOK /\ OrderOK
  BY DEF EngineInv, LifeInv
<1>1. CASE Start \/ Initialize
  <2>1. Start \/ StartFresh \/ AnnounceReady
    BY <1>0, <1>1 DEF LifeOK, Initialize, RestoreSnapshot, ReplayPrice, ReplayRequest,
       DropResponse, EndReplay, SeedPrice, EndSeeding
  <2>2. ASSUME Start PROVE applied' = <<>> /\ LifeOK'
    BY <1>0, <2>2 DEF LifeOK, Start, storage
  <2>3. ASSUME StartFresh PROVE applied' = <<>> /\ LifeOK'
    BY <1>0, <2>3 DEF LifeOK, StartFresh, storage, counters
  <2>4. ASSUME AnnounceReady PROVE applied' = <<>> /\ LifeOK'
    BY <1>0, <2>4 DEF LifeOK, AnnounceReady, storage, counters
  <2>5. applied' = <<>> /\ LifeOK'
    BY <2>1, <2>2, <2>3, <2>4
  <2>6. OrderOK'
    BY <2>5, EmptySeq DEF OrderOK, AppliedInOrder
  <2> QED
    BY <2>5, <2>6 DEF LifeInv
<1>2. CASE ReadBatch
  <2>1. /\ phase = "running" /\ pc = "next" /\ batch = <<>>
        /\ currentStreamId < Len(stream)
        /\ UNCHANGED <<pc, currentStreamId, applied>> /\ UNCHANGED <<process, storage,
                                                                     counters>>
    BY <1>2 DEF ReadBatch, vars
  <2>2. PICK from \in Nat, to \in Nat : /\ currentStreamId <= from /\ from <= to
                                       /\ batch' = Span(from, to)
    <3>1. /\ Len(stream) \in Nat /\ currentStreamId \in Nat /\ BatchSize \in Nat \ {0}
          /\ trimmed \in 0 .. Len(stream)
      BY <1>0, LenProperties, EngineAssumption DEF MemoryInv, MemoryOK
    <3>2. PICK from \in Nat : from = ReadFrom(currentStreamId)
      BY <3>1 DEF ReadFrom
    <3>3. currentStreamId <= from /\ from <= Len(stream)
      BY <2>1, <3>1, <3>2 DEF ReadFrom
    <3>4. CASE from + BatchSize < Len(stream)
      BY <1>2, <3>1, <3>2, <3>3, <3>4 DEF ReadBatch
    <3>5. CASE ~(from + BatchSize < Len(stream))
      BY <1>2, <3>1, <3>2, <3>3, <3>5 DEF ReadBatch
    <3> QED
      BY <3>4, <3>5
  <2>3. currentStreamId \in Nat /\ Edge = currentStreamId
    BY <1>0, <2>1, EdgeBounds
  <2>4. batch' # <<>> => batch'[1] = from + 1
    BY <2>2, SpanIsRun, Zenon
  <2>5. PICK e \in Int : Edge' = e /\ Edge <= e
    <3>1. CASE batch' = <<>>
      BY <2>1, <2>3, <3>1 DEF Edge
    <3>2. CASE batch' # <<>>
      BY <2>1, <2>2, <2>3, <2>4, <3>2 DEF Edge
    <3> QED
      BY <3>1, <3>2
  <2>6. OrderOK'
    BY <1>0, <2>1, <2>5, OrderKept
  <2>7. LifeOK'
    BY <1>0, <2>1 DEF LifeOK, process, storage, counters
  <2> QED
    BY <2>6, <2>7 DEF LifeInv
<1>3. CASE ConsumeRequest
  <2>1. /\ phase = "running" /\ batch # <<>> /\ pc = "next" /\ pc' # "next"
        /\ applied' = Append(applied, Head(batch)) /\ UNCHANGED batch
        /\ UNCHANGED <<process, storage, counters>>
    BY <1>3, HandlerHolds DEF ConsumeRequest, consumer
  <2>2. OrderOK'
    BY <1>0, <2>1, RequestInOrder
  <2>3. LifeOK'
    BY <1>0, <2>1 DEF LifeOK, process, storage, counters
  <2> QED
    BY <2>2, <2>3 DEF LifeInv
<1>4. CASE ConsumePrice \/ FinishRequest \/ ContinueMessage
  <2>1. /\ phase = "running" /\ batch # <<>> /\ Advance /\ UNCHANGED applied
        /\ UNCHANGED <<phase, stopping, final, storage, counters>>
    <3>1. CASE ConsumePrice
      BY <3>1 DEF ConsumePrice
    <3>2. CASE FinishRequest
      BY <1>0, <3>2, InHandCovered DEF FinishRequest, PublishResponse, process
    <3>3. CASE ContinueMessage
      <4>1. /\ pc # "next" /\ phase = "running" /\ Advance /\ UNCHANGED applied
            /\ UNCHANGED <<phase, stopping, final, storage, counters>>
        BY <1>0, <3>3 DEF LifeOK, ContinueMessage, CloseAtPrice, SkipOrder,
           LiquidateOrder, PublishLiquidation, process
      <4> QED
        BY <1>0, <4>1, InHandCovered
    <3> QED
      BY <1>4, <3>1, <3>2, <3>3
  <2>2. OrderOK'
    BY <1>0, <2>1, AdvanceEdge
  <2>3. LifeOK'
    BY <1>0, <2>1 DEF LifeOK, process, storage, counters
  <2> QED
    BY <2>2, <2>3 DEF LifeInv
<1>5. CASE AnswerOnQueue \/ Producers \/ RunTimer \/ UNCHANGED allVars
  <2>1. UNCHANGED <<batch, currentStreamId, pc, applied, snapshots, saving>>
        /\ UNCHANGED <<phase, stopping, final, starts, stops, failures>>
    BY <1>5 DEF AnswerOnQueue, Producers, SubmitRequest, StreamPrice, TrimStream, RunTimer,
       AgeOrder, CleanupOldClosedOrders, allVars, vars, engineVars, process, storage, consumer,
       counters
  <2>2. OrderOK'
    BY <1>0, <2>1, OrderUnchanged
  <2>3. LifeOK'
    BY <1>0, <2>1 DEF LifeOK
  <2> QED
    BY <2>2, <2>3 DEF LifeInv
<1>6. CASE TakeSnapshot \/ \E s \in saving : CommitSnapshot(s)
  <2>1. /\ phase = "running" /\ UNCHANGED <<batch, currentStreamId, pc, applied>>
        /\ UNCHANGED <<phase, stopping, final, starts, stops, failures>>
    BY <1>0, <1>6 DEF TakeSnapshot, TimersRun, CommitSnapshot, LifeOK, vars, process,
       consumer, counters
  <2>2. OrderOK'
    BY <1>0, <2>1, OrderUnchanged
  <2>3. LifeOK'
    BY <1>0, <2>1 DEF LifeOK
  <2> QED
    BY <2>2, <2>3 DEF LifeInv
<1>7. ~Failures /\ ~BeginShutdown /\ ~FinalSnapshot /\ ~Exit /\ ~Crash
  BY <1>0 DEF OneLife, LifeOK, Failures, PublicationFails, PriceFails,
     LiquidationUnpublished, SnapshotFails, BeginShutdown, FinalSnapshot, Exit, Crash
<1> QED
  BY <1>1, <1>2, <1>3, <1>4, <1>5, <1>6, <1>7 DEF EngineNext, Consume, Background

LEMMA LifeInvInit == EngineInit /\ OneLife => LifeInv
<1> SUFFICES ASSUME EngineInit PROVE LifeInv
  OBVIOUS
<1>1. applied = <<>> /\ DOMAIN applied = {}
  BY EmptySeq DEF EngineInit
<1> QED
  BY <1>1 DEF EngineInit, LifeInv, LifeOK, OrderOK, AppliedInOrder

\* In its only life the engine never restores or replays, and is given its
\* requests in order.
LEMMA LifeInvariant ==
  ASSUME OneLife
  PROVE  EngineSpec => []LifeInv
<1>1. EngineInv /\ LifeInv /\ [EngineNext]_allVars => LifeInv'
  BY LifeInvNext
<1>2. EngineInit => LifeInv
  BY LifeInvInit
<1> QED
  BY <1>1, <1>2, EngineInvariant, PTL DEF EngineSpec

\* In a life without failures no request is applied twice or out of the stream's
\* order, whatever the batches and however prices and passes come in between.
THEOREM AppliedAlwaysInOrder ==
  ASSUME OneLife
  PROVE  EngineSpec => []AppliedInOrder
<1>1. LifeInv => AppliedInOrder
  BY DEF LifeInv, OrderOK
<1> QED
  BY <1>1, LifeInvariant, PTL

\* In a life without failures the process with its batches, timers, snapshots
\* and producers does to its memory what Trading allows: what is proved of
\* Trading holds in the process.
THEOREM EngineImplementsTrading ==
  ASSUME OneLife
  PROVE  EngineSpec => ImplementsTrading
<1>1. EngineInv /\ LivesInv /\ LifeInv /\ [EngineNext]_allVars => [Next]_vars
  BY LifeStepIsTrading DEF LifeInv
<1>2. EngineInit => Init
  BY DEF EngineInit
<1> QED
  BY <1>1, <1>2, EngineInvariant, LivesInvariant, LifeInvariant, PTL
     DEF EngineSpec, ImplementsTrading, Spec
=============================================================================
