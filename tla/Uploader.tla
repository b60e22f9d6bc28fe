------------------------------ MODULE Uploader ------------------------------
(***************************************************************************)
(* The batch uploader: it follows the request stream, collects what it     *)
(* reads, inserts the trades among it by the batch and then trims the      *)
(* stream.  What this leaves of it to the engine's replay is a question    *)
(* of module Engine, where the stream may be cut at any time.              *)
(*                                                                         *)
(* Positions in the stream are its identifiers; entries up to `trimmed`    *)
(* are gone.  A trade is known by its entry.                               *)
(***************************************************************************)
EXTENDS Integers, Sequences, FiniteSets, Maps

CONSTANTS
  BATCH_SIZE,         \* COUNT of the XREAD
  TARGET_BATCH_SIZE,  \* the buffer is flushed at this size
  Keep,               \* MAXLEN of the XTRIM
  MaxStream,          \* bound: entries
  MaxFailures,        \* bound: failed reads and inserts
  MaxStops            \* bound: ends of the uploader's process

ASSUME UploaderAssumption ==
  /\ {BATCH_SIZE, TARGET_BATCH_SIZE, Keep} \subseteq Nat \ {0}
  /\ {MaxStream, MaxFailures, MaxStops} \subseteq Nat

VARIABLES
  stream,      \* request stream: the types of its entries
  trimmed,     \* the last entry that was trimmed
  phase,       \* "down"; lastId is "$": "latest", and "waiting" in the XREAD;
               \* "reading"; in processBatch: "inserting", "trimming"
  lastId,      \* position of the uploader
  buffer,      \* messageBuffer: the entries read and not yet processed
  trades,      \* the table: entry -> number of rows
  first,       \* history: the position this process started to read at
  seen,        \* history: the entries that were read by any process
  dropped,     \* history: those lost with a failed insert or a process
  overtaken,   \* history: those trimmed before they were read
  failures, stops   \* counters for the bounds

vars == <<stream, trimmed, phase, lastId, buffer, trades, first, seen, dropped,
          overtaken, failures, stops>>
history == <<first, seen, dropped, overtaken>>

Prices(ids) == {i \in ids : stream[i] = "PRICE_UPDATE"}

Fails == failures < MaxFailures /\ failures' = failures + 1

-----------------------------------------------------------------------------
\* Poller and backend

\* Neither looks at how long the stream is; the backend's own limit is ten times
\* the uploader's.
Publish(type) ==
  /\ Len(stream) < MaxStream
  /\ stream' = Append(stream, type)
  /\ UNCHANGED <<trimmed, phase, lastId, buffer, trades, history, failures, stops>>

-----------------------------------------------------------------------------
\* main()

Start ==
  /\ phase = "down"
  /\ phase' = "latest"
  /\ UNCHANGED <<stream, trimmed, lastId, buffer, trades, history, failures, stops>>

\* XREAD resolves "$" when it is called.
ReadLatest ==
  /\ phase = "latest"
  /\ phase' = "waiting"
  /\ lastId' = Len(stream) /\ first' = Len(stream)
  /\ UNCHANGED <<stream, trimmed, buffer, trades, seen, dropped, overtaken,
                 failures, stops>>

\* Nothing came within a second, or the read failed: "$" is resolved again.
ReadNothing ==
  /\ phase = "waiting"
  /\ phase' = "latest"
  /\ \/ Len(stream) = lastId /\ UNCHANGED failures
     \/ Fails
  /\ UNCHANGED <<stream, trimmed, lastId, buffer, trades, history, stops>>

Available == {i \in lastId + 1 .. Len(stream) : i > trimmed}

\* Up to BATCH_SIZE entries after lastId.
NextBatch ==
  {i \in Available : Cardinality({j \in Available : j < i}) < BATCH_SIZE}

\* By size; by time only when something was read.
ReadMessages ==
  /\ phase \in {"waiting", "reading"} /\ Available # {}
  /\ buffer' = buffer \cup NextBatch
  /\ lastId' = CHOOSE i \in NextBatch : \A j \in NextBatch : j <= i
  /\ seen' = seen \cup NextBatch
  /\ overtaken' = overtaken \cup {i \in lastId + 1 .. trimmed : i <= Len(stream)}
  /\ \/ phase' = "inserting"
     \/ phase' = "reading" /\ Cardinality(buffer') < TARGET_BATCH_SIZE
  /\ UNCHANGED <<stream, trimmed, trades, first, dropped, failures, stops>>

\* Mutant: messageBuffer is not reset.
Reset_Keeps == UNCHANGED buffer

\* Nothing reads the buffer between processBatch and here.
Reset == buffer' = {}

\* createMany inserts all or nothing; rows have an id of their own, so
\* skipDuplicates skips none.  On a failure processBatch returns, the batch is
\* gone, and nothing is trimmed.
InsertTrades ==
  /\ phase = "inserting"
  /\ LET batch == Prices(buffer)
         rows == DOMAIN trades \cup batch
     IN  \/ /\ trades' = [i \in rows |-> (IF i \in DOMAIN trades THEN trades[i] ELSE 0)
                                          + (IF i \in batch THEN 1 ELSE 0)]
            /\ phase' = IF batch = {} THEN "reading" ELSE "trimming"
            /\ UNCHANGED <<dropped, failures>>
         \/ /\ batch # {} /\ Fails
            /\ dropped' = dropped \cup batch
            /\ phase' = "reading"
            /\ UNCHANGED trades
  /\ Reset
  /\ UNCHANGED <<stream, trimmed, lastId, first, seen, overtaken, stops>>

Trimmable == Len(stream) - Keep

\* XTRIM MAXLEN ~ removes whole nodes of the stream, so it may leave more.
TrimStream ==
  /\ phase = "trimming"
  /\ trimmed' \in trimmed .. (IF Trimmable > trimmed THEN Trimmable ELSE trimmed)
  /\ phase' = "reading"
  /\ UNCHANGED <<stream, lastId, buffer, trades, history, failures, stops>>

\* The buffer is in memory only.
StopUploader ==
  /\ phase # "down" /\ stops < MaxStops
  /\ stops' = stops + 1
  /\ phase' = "down" /\ buffer' = {}
  /\ dropped' = dropped \cup Prices(buffer)
  /\ UNCHANGED <<stream, trimmed, lastId, trades, first, seen, overtaken, failures>>

-----------------------------------------------------------------------------
Init ==
  /\ stream = <<>> /\ trimmed = 0
  /\ phase = "down" /\ lastId = 0 /\ buffer = {}
  /\ trades = EmptyMap
  /\ first = 0 /\ seen = {} /\ dropped = {} /\ overtaken = {}
  /\ failures = 0 /\ stops = 0

Next ==
  \/ \E type \in {"PRICE_UPDATE", "PLACE_ORDER"} : Publish(type)
  \/ Start \/ ReadLatest \/ ReadNothing \/ ReadMessages \/ InsertTrades \/ TrimStream
  \/ StopUploader

Spec == Init /\ [][Next]_vars

-----------------------------------------------------------------------------
\* Properties

\* Every trade that was read is in exactly one place, over failures and restarts:
\* once in the table, in the buffer, or dropped with its batch.  A running uploader
\* passes over an entry only when its own trimming has removed it before it was
\* read: a slow insert and a burst of prices do that.
TradesAccounted ==
  /\ \A i \in DOMAIN trades : trades[i] = 1
  /\ Prices(seen) = DOMAIN trades \cup dropped \cup Prices(buffer)
  /\ {} = DOMAIN trades \cap dropped
  /\ {} = (DOMAIN trades \cup dropped) \cap buffer
  /\ phase \notin {"down", "latest"} => first + 1 .. lastId \subseteq seen \cup overtaken
=============================================================================
