--------------------------- MODULE UploaderProofs ---------------------------
(***************************************************************************)
(* What becomes of the trades the uploader reads, for every batch size,    *)
(* length kept and bound.                                                  *)
(***************************************************************************)
EXTENDS Uploader, Extrema, SequenceTheorems, FiniteSetTheorems

EntryType == {"PRICE_UPDATE", "PLACE_ORDER"}

Reading == phase \notin {"down", "latest"}

StreamOK ==
  /\ stream \in Seq(EntryType)
  /\ trimmed \in Nat

\* What was read lies before the position of the process that reads on.
PositionOK ==
  /\ lastId \in 0 .. Len(stream) /\ first \in Nat
  /\ seen \subseteq 1 .. Len(stream)
  /\ Reading => seen \subseteq 1 .. lastId
  /\ buffer \subseteq seen

UploaderInv == StreamOK /\ PositionOK /\ TradesAccounted

-----------------------------------------------------------------------------
\* One read

\* A batch is not empty and ends at its largest entry: the entries before it are
\* in it or were trimmed.
LEMMA BatchIsPrefix ==
  ASSUME UploaderInv, Available # {},
         NEW last, last = (CHOOSE i \in NextBatch : \A j \in NextBatch : j <= i)
  PROVE  /\ last \in NextBatch /\ \A j \in NextBatch : j <= last
         /\ \A i \in Available : i <= last => i \in NextBatch
<1>0. /\ Len(stream) \in Nat /\ lastId \in Nat /\ BATCH_SIZE \in Nat \ {0}
      /\ Available \subseteq 0 .. Len(stream)
  BY LenProperties, UploaderAssumption DEF UploaderInv, StreamOK, PositionOK, Available
<1>1. NextBatch # {}
  <2>1. PICK m \in Available : \A n \in Available : m <= n
    BY <1>0, SmallestOf
  <2>2. {j \in Available : j < m} = {}
    <3>1. m \in Nat /\ \A j \in Available : j \in Nat /\ ~(j < m)
      BY <1>0, <2>1
    <3> QED
      BY <3>1
  <2>3. Cardinality({}) < BATCH_SIZE
    BY <1>0, FS_EmptySet
  <2>4. Cardinality({j \in Available : j < m}) < BATCH_SIZE
    BY <2>2, <2>3, Zenon
  <2> QED
    BY <2>1, <2>4, Zenon DEF NextBatch
<1>2. NextBatch \in SUBSET (0 .. Len(stream))
  BY <1>0 DEF NextBatch
<1>3. \E i \in NextBatch : \A j \in NextBatch : j <= i
  BY <1>0, <1>1, <1>2, LargestOf
<1>4. last \in NextBatch /\ \A j \in NextBatch : j <= last
  BY <1>3
<1>5. ASSUME NEW i \in Available, i <= last
      PROVE  i \in NextBatch
  <2>0. \A j \in Available : j \in Nat
    BY <1>0
  <2> DEFINE below == {j \in Available : j < i}
             lower == {j \in Available : j < last}
  <2>1. last \in Available /\ Cardinality(lower) < BATCH_SIZE
    BY <1>4, Zenon DEF NextBatch
  <2>2. below \in SUBSET lower
    <3>1. i \in Nat /\ last \in Nat /\ \A j \in Available : j \in Nat
      <4>1. last \in Available
        BY <2>1, Zenon
      <4> HIDE DEF below, lower
      <4> QED
        BY <1>5, <2>0, <4>1, Zenon
    <3>2. \A j \in Available : j < i => j < last
      BY <1>5, <3>1
    <3> QED
      BY <3>2
  <2>3. IsFiniteSet(lower)
    <3>1. IsFiniteSet(0 .. Len(stream))
      BY <1>0, FS_Interval
    <3>2. lower \in SUBSET (0 .. Len(stream))
      BY <1>0
    <3> HIDE DEF lower
    <3> QED
      BY <3>1, <3>2, FS_Subset
  <2>4. Cardinality(below) < BATCH_SIZE
    <3> HIDE DEF below, lower
    <3>1. /\ Cardinality(below) <= Cardinality(lower)
          /\ Cardinality(below) \in Nat /\ Cardinality(lower) \in Nat
      BY <2>2, <2>3, FS_Subset, FS_CardinalityType
    <3> QED
      BY <1>0, <2>1, <3>1
  <2> QED
    BY <2>4, Zenon DEF NextBatch
<1> QED
  BY <1>4, <1>5

\* What is read is new, and nothing between two positions is passed over that
\* was not trimmed.
LEMMA ReadStep ==
  ASSUME UploaderInv, ReadMessages
  PROVE  UploaderInv'
<1>0. /\ stream \in Seq(EntryType) /\ Len(stream) \in Nat /\ trimmed \in Nat
      /\ lastId \in 0 .. Len(stream) /\ first \in Nat
      /\ seen \subseteq 1 .. lastId /\ buffer \subseteq seen
      /\ phase \in {"waiting", "reading"} /\ phase' \in {"inserting", "reading"}
      /\ UNCHANGED <<stream, trimmed, trades, first, dropped>>
      /\ seen' = seen \cup NextBatch /\ buffer' = buffer \cup NextBatch
      /\ overtaken' = overtaken \cup {i \in lastId + 1 .. trimmed : i <= Len(stream)}
  BY LenProperties
     DEF UploaderInv, StreamOK, PositionOK, Reading, ReadMessages
<1>1. PICK last \in Nat :
        /\ lastId' = last /\ last \in NextBatch /\ \A j \in NextBatch : j <= last
        /\ \A i \in Available : i <= last => i \in NextBatch
  <2>1. lastId' \in NextBatch
    BY BatchIsPrefix DEF ReadMessages
  <2>2. NextBatch \subseteq Nat
    BY <1>0 DEF NextBatch, Available
  <2> QED
    BY <2>1, <2>2, BatchIsPrefix DEF ReadMessages
<1>2. \A i \in NextBatch : i \in lastId + 1 .. Len(stream)
  BY DEF NextBatch, Available
<1>3. NextBatch \cap seen = {}
  BY <1>0, <1>2
<1>4. StreamOK'
  BY <1>0 DEF UploaderInv, StreamOK
<1>5. PositionOK'
  BY <1>0, <1>1, <1>2 DEF PositionOK, Reading
<1>6. Prices(seen)' = Prices(seen) \cup Prices(NextBatch)
      /\ Prices(buffer)' = Prices(buffer) \cup Prices(NextBatch)
  BY <1>0 DEF Prices
<1>7. DOMAIN trades \cup dropped \subseteq seen
  BY DEF UploaderInv, TradesAccounted, Prices
<1>8. first' + 1 .. lastId' \subseteq seen' \cup overtaken'
  <2> SUFFICES ASSUME NEW i \in first + 1 .. lastId'
               PROVE  i \in seen' \cup overtaken'
    BY <1>0
  <2>1. CASE i <= lastId
    BY <1>0, <1>1, <2>1 DEF UploaderInv, TradesAccounted
  <2>2. CASE i > lastId /\ i <= trimmed
    BY <1>0, <1>1, <1>2, <2>2
  <2>3. CASE i > lastId /\ i > trimmed
    BY <1>0, <1>1, <1>2, <2>3 DEF Available
  <2> QED
    BY <1>0, <1>1, <2>1, <2>2, <2>3
<1>9. TradesAccounted'
  BY <1>0, <1>3, <1>6, <1>7, <1>8 DEF UploaderInv, TradesAccounted
<1> QED
  BY <1>4, <1>5, <1>9 DEF UploaderInv

-----------------------------------------------------------------------------
\* The other steps

\* Neither producer nor engine touches what the uploader has.
LEMMA PublishStep ==
  ASSUME UploaderInv, NEW type \in EntryType, Publish(type)
  PROVE  UploaderInv'
<1>1. /\ stream' = Append(stream, type) /\ stream \in Seq(EntryType)
      /\ UNCHANGED <<trimmed, phase, lastId, buffer, trades, first, seen,
                     dropped, overtaken>>
  BY DEF Publish, UploaderInv, StreamOK, history
<1>2. /\ stream' \in Seq(EntryType) /\ Len(stream) \in Nat
      /\ Len(stream') = Len(stream) + 1
      /\ \A i \in 1 .. Len(stream) : stream'[i] = stream[i]
  BY <1>1, AppendProperties, LenProperties
<1>3. StreamOK'
  BY <1>1, <1>2, UploaderAssumption DEF UploaderInv, StreamOK
<1>4. PositionOK'
  BY <1>1, <1>2 DEF UploaderInv, PositionOK, Reading
<1>5. Prices(seen)' = Prices(seen) /\ Prices(buffer)' = Prices(buffer)
  BY <1>1, <1>2 DEF UploaderInv, PositionOK, Prices
<1>6. TradesAccounted'
  BY <1>1, <1>5 DEF UploaderInv, TradesAccounted
<1> QED
  BY <1>3, <1>4, <1>6 DEF UploaderInv

\* The batch goes into the table or is lost, whole; it was in neither before.
LEMMA InsertStep ==
  ASSUME UploaderInv, InsertTrades
  PROVE  UploaderInv'
<1> DEFINE batch == Prices(buffer)
<1>1. /\ UNCHANGED <<stream, trimmed, lastId, first, seen, overtaken>>
      /\ phase = "inserting" /\ phase' \in {"reading", "trimming"} /\ buffer' = {}
  BY DEF InsertTrades, Reset
<1>2. StreamOK' /\ PositionOK'
  BY <1>1 DEF UploaderInv, StreamOK, PositionOK, Reading
<1>3. /\ \A i \in DOMAIN trades : trades[i] = 1
      /\ Prices(seen) = DOMAIN trades \cup dropped \cup batch
      /\ {} = DOMAIN trades \cap dropped /\ {} = (DOMAIN trades \cup dropped) \cap batch
      /\ first + 1 .. lastId \subseteq seen \cup overtaken
  BY <1>1 DEF UploaderInv, TradesAccounted, Prices
<1>4. Prices(seen)' = Prices(seen) /\ Prices(buffer)' = {}
  BY <1>1 DEF Prices
<1>5. CASE UNCHANGED dropped
  <2>1. /\ DOMAIN trades' = DOMAIN trades \cup batch
        /\ \A i \in DOMAIN trades' :
             trades'[i] = (IF i \in DOMAIN trades THEN trades[i] ELSE 0)
                            + (IF i \in batch THEN 1 ELSE 0)
    BY <1>5, <1>3 DEF InsertTrades
  <2> HIDE DEF batch
  <2>2. \A i \in DOMAIN trades' : trades'[i] = 1
    BY <1>3, <2>1
  <2> QED
    BY <1>1, <1>2, <1>3, <1>4, <1>5, <2>1, <2>2 DEF UploaderInv, TradesAccounted
<1>6. CASE dropped' = dropped \cup batch /\ UNCHANGED trades
  <2> HIDE DEF batch
  <2> QED
    BY <1>1, <1>2, <1>3, <1>4, <1>6 DEF UploaderInv, TradesAccounted
<1> QED
  BY <1>5, <1>6 DEF InsertTrades

\* Trimming touches nothing of what was read.
LEMMA TrimStep ==
  ASSUME UploaderInv, TrimStream
  PROVE  UploaderInv'
<1>1. /\ UNCHANGED <<stream, lastId, buffer, trades, first, seen, dropped,
                     overtaken>>
      /\ phase = "trimming" /\ phase' = "reading"
      /\ trimmed' \in trimmed .. (IF Trimmable > trimmed THEN Trimmable ELSE trimmed)
  BY DEF TrimStream, history
<1>2. trimmed \in Nat /\ Trimmable \in Int
  BY LenProperties, UploaderAssumption DEF UploaderInv, StreamOK, Trimmable
<1>3. StreamOK'
  BY <1>1, <1>2 DEF UploaderInv, StreamOK
<1>4. PositionOK' /\ TradesAccounted'
  BY <1>1 DEF UploaderInv, PositionOK, Reading, TradesAccounted, Prices
<1> QED
  BY <1>3, <1>4 DEF UploaderInv

\* A process starts to read at the end of the stream, after all that was read.
LEMMA StartStep ==
  ASSUME UploaderInv, Start \/ ReadLatest \/ ReadNothing
  PROVE  UploaderInv'
<1>1. /\ UNCHANGED <<stream, trimmed, buffer, trades, seen, dropped, overtaken>>
      /\ Len(stream) \in Nat
  BY LenProperties
     DEF Start, ReadLatest, ReadNothing, history, UploaderInv, StreamOK
<1>2. StreamOK'
  BY <1>1 DEF UploaderInv, StreamOK, Start, ReadLatest, ReadNothing
<1>3. \/ phase' = "waiting" /\ lastId' = Len(stream) /\ first' = Len(stream)
      \/ phase' = "latest" /\ UNCHANGED <<lastId, first>>
  BY DEF Start, ReadLatest, ReadNothing, history
<1>4. PositionOK'
  BY <1>1, <1>3 DEF UploaderInv, PositionOK, Reading
<1>5. phase' \in {"down", "latest"} \/ first' + 1 .. lastId' = {}
  BY <1>1, <1>3
<1>6. TradesAccounted'
  BY <1>1, <1>5 DEF UploaderInv, TradesAccounted, Prices
<1> QED
  BY <1>2, <1>4, <1>6 DEF UploaderInv

\* The buffer goes with the process.
LEMMA StopStep ==
  ASSUME UploaderInv, StopUploader
  PROVE  UploaderInv'
<1>1. /\ UNCHANGED <<stream, trimmed, lastId, trades, first, seen, overtaken>>
      /\ phase' = "down" /\ buffer' = {} /\ dropped' = dropped \cup Prices(buffer)
  BY DEF StopUploader
<1>2. StreamOK' /\ PositionOK'
  BY <1>1 DEF UploaderInv, StreamOK, PositionOK, Reading
<1>3. TradesAccounted'
  BY <1>1 DEF UploaderInv, TradesAccounted, Prices
<1> QED
  BY <1>2, <1>3 DEF UploaderInv

-----------------------------------------------------------------------------
\* The theorems

LEMMA UploaderInvInit == Init => UploaderInv
<1> SUFFICES ASSUME Init PROVE UploaderInv
  OBVIOUS
<1>1. stream \in Seq(EntryType) /\ Len(stream) = 0
  BY EmptySeq DEF Init
<1> QED
  BY <1>1 DEF Init, EmptyMap, UploaderInv, StreamOK, PositionOK, Reading,
     TradesAccounted, Prices

LEMMA UploaderInvNext == UploaderInv /\ [Next]_vars => UploaderInv'
<1> SUFFICES ASSUME UploaderInv, [Next]_vars PROVE UploaderInv'
  OBVIOUS
<1>1. CASE UNCHANGED vars
  BY <1>1 DEF vars, UploaderInv, StreamOK, PositionOK, Reading,
     TradesAccounted, Prices
<1> QED
  BY <1>1, PublishStep, StartStep, ReadStep, InsertStep, TrimStep, StopStep
     DEF Next, EntryType

\* Every trade the uploader has read is in exactly one place, and only its own
\* trimming makes it pass over an entry.
THEOREM TradesAlwaysAccounted == Spec => []TradesAccounted
<1>1. UploaderInv => TradesAccounted
  BY DEF UploaderInv
<1> QED
  BY <1>1, UploaderInvInit, UploaderInvNext, PTL DEF Spec
=============================================================================
