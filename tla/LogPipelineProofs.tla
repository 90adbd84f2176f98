------------------------- MODULE LogPipelineProofs --------------------------
(***************************************************************************)
(* As long as it has its sender the log pipeline loses nothing in silence, *)
(* and it stores in order, for any batch size, any channel capacity and    *)
(* any number of events.                                                   *)
(*                                                                         *)
(* Neither PipelineHonest nor StoredInOrder is inductive.  The counters    *)
(* need the entries in the channel and in the batch to be distinct, which  *)
(* follows from their order (QueuesInOrder, NumbersEmitted); the rows need *)
(* to be behind what is still queued, but for the batch a failed attempt   *)
(* may have committed (RowsBehind); what a shutdown leaves behind needs    *)
(* the phases of the guard and of the writer (Phases).                     *)
(***************************************************************************)
EXTENDS LogPipeline, FiniteSetTheorems, TLAPS

\* s is sorted without repeats; everything in s is before everything in t.
Increasing(s) == \A i, j \in 1..Len(s) : i < j => s[i] < s[j]

Below(s, t) == \A i \in 1..Len(s), j \in 1..Len(t) : s[i] < t[j]

\* Entry numbers are given by on_event: nothing downstream has a later one.
NumbersEmitted ==
  /\ accepted \subseteq 1..emitted
  /\ stored \subseteq 1..emitted /\ lost \subseteq 1..emitted
  /\ rows \in Seq(1..emitted)

\* The channel and the batch are queues: a batch was received before whatever
\* is still in the channel.
QueuesInOrder == Increasing(channel) /\ Increasing(buffer) /\ Below(buffer, channel)

\* The table is behind the channel, and behind the batch unless an attempt
\* that was reported as failed had committed it.
RowsBehind ==
  /\ Below(rows, channel)
  /\ \/ Below(rows, buffer)
     \/ writer \in {"retry", "lastretry", "done"} /\ Range(buffer) \subseteq Range(rows)

\* Where the application and the writer can be with respect to each other.
Phases ==
  /\ app = "starting" => emitted = 0
  /\ writer = "select" => Len(buffer) < BATCH_SIZE
  /\ app = "starting" => writer = "none"
  /\ writer = "none" => channel = <<>> /\ buffer = <<>> /\ ~slot
  /\ app \in {"starting", "clearing", "waiting", "exited"} => ~slot
  /\ app \in {"clearing", "waiting"} => graceful
  /\ ~graceful /\ writer = "done" => app = "exited"
  /\ graceful /\ writer \in {"lastflush", "lastretry", "done"} =>
       channel = <<>> /\ app \in {"waiting", "exited"}
  /\ graceful /\ writer = "done" => buffer = <<>>
  /\ writer \in {"lastflush", "lastretry"} => graceful
  /\ app = "exited" => writer \in {"none", "done"}

\* The inductive invariant.
PipelineInv ==
  /\ TypeOK /\ NumbersEmitted /\ QueuesInOrder /\ RowsBehind /\ Phases
  /\ EntriesAccounted /\ DiscardedLast /\ StoredInOrder

-----------------------------------------------------------------------------
(* What the operators on sequences do to the entries they hold.             *)

\* The elements of a sequence over S are in S.
LEMMA SeqElement ==
  ASSUME NEW S, NEW s \in Seq(S)
  PROVE  Len(s) \in Nat /\ \A i \in 1..Len(s) : s[i] \in S
OBVIOUS

\* A sequence is one over any set that holds its elements.
LEMMA SeqRestrict ==
  ASSUME NEW S, NEW T, NEW s \in Seq(S), \A i \in 1..Len(s) : s[i] \in T
  PROVE  s \in Seq(T)
OBVIOUS

\* What is in a sequence has a position in it.
LEMMA RangeMember ==
  ASSUME NEW S, NEW s \in Seq(S)
  PROVE  /\ Range(s) \subseteq S
         /\ \A i \in 1..Len(s) : s[i] \in Range(s)
BY DEF Range

\* Two batches put together hold what either held.
LEMMA RangeConcat ==
  ASSUME NEW S, NEW s \in Seq(S), NEW t \in Seq(S)
  PROVE  Range(s \o t) = Range(s) \cup Range(t)
<1>1. s \o t \in Seq(S) /\ Len(s \o t) = Len(s) + Len(t)
  OBVIOUS
<1>2. ASSUME NEW x \in Range(s \o t) PROVE x \in Range(s) \cup Range(t)
  <2>1. PICK i \in 1..Len(s \o t) : x = (s \o t)[i]
    BY <1>1 DEF Range
  <2>2. CASE i <= Len(s)
    BY <2>1, <2>2, <1>1 DEF Range
  <2>3. CASE i > Len(s)
    <3>1. i - Len(s) \in 1..Len(t) /\ x = t[i - Len(s)]
      BY <2>1, <2>3, <1>1
    <3> QED BY <3>1 DEF Range
  <2> QED BY <2>1, <2>2, <2>3
<1>3. ASSUME NEW x \in Range(s) PROVE x \in Range(s \o t)
  <2>1. PICK i \in 1..Len(s) : x = s[i]
    BY <1>3 DEF Range
  <2>2. i \in 1..Len(s \o t) /\ x = (s \o t)[i]
    BY <2>1, <1>1
  <2> QED BY <2>2, <1>1 DEF Range
<1>4. ASSUME NEW x \in Range(t) PROVE x \in Range(s \o t)
  <2>1. PICK i \in 1..Len(t) : x = t[i]
    BY <1>4 DEF Range
  <2>2. Len(s) + i \in 1..Len(s \o t) /\ x = (s \o t)[Len(s) + i]
    BY <2>1, <1>1
  <2> QED BY <2>2, <1>1 DEF Range
<1> QED BY <1>2, <1>3, <1>4

\* try_send adds one entry to the channel.
LEMMA RangeAppend ==
  ASSUME NEW S, NEW s \in Seq(S), NEW x \in S
  PROVE  Range(Append(s, x)) = Range(s) \cup {x}
<1>1. Append(s, x) = s \o <<x>> /\ <<x>> \in Seq(S)
  OBVIOUS
<1>r. Range(<<x>>) = {x}
  BY DEF Range
<1>2. Range(s \o <<x>>) = Range(s) \cup Range(<<x>>)
  BY <1>1, RangeConcat, ZenonT(40)
<1> QED BY <1>1, <1>2, <1>r, Zenon

\* recv takes one entry from the channel.
LEMMA RangeHeadTail ==
  ASSUME NEW S, NEW s \in Seq(S), s # <<>>
  PROVE  Range(s) = {Head(s)} \cup Range(Tail(s))
<1>1. s = <<Head(s)>> \o Tail(s) /\ <<Head(s)>> \in Seq(S) /\ Tail(s) \in Seq(S)
  OBVIOUS
<1>2. Range(<<Head(s)>>) = {Head(s)}
  BY DEF Range
<1>3. Range(<<Head(s)>> \o Tail(s)) = Range(<<Head(s)>>) \cup Range(Tail(s))
  BY <1>1, RangeConcat, ZenonT(40)
<1> QED BY <1>1, <1>2, <1>3, Zenon

(* A batch of entries in emission order holds as many entries as it is      *)
(* long: the counters count entries, not slots of the buffer.               *)
LEMMA IncreasingCardinality ==
  ASSUME NEW s \in Seq(Nat), Increasing(s)
  PROVE  IsFiniteSet(Range(s)) /\ Cardinality(Range(s)) = Len(s)
<1>1. s \in [1..Len(s) -> Range(s)] /\ Len(s) \in Nat
  BY DEF Range
<1>2. \A i, j \in 1..Len(s) : s[i] = s[j] => i = j
  BY DEF Increasing
<1>3. \A x \in Range(s) : \E i \in 1..Len(s) : s[i] = x
  BY DEF Range
<1>4. s \in Bijection(1..Len(s), Range(s))
  BY <1>1, <1>2, <1>3 DEF Bijection, Injection, Surjection, IsInjective
<1>5. ExistsBijection(1..Len(s), Range(s))
  BY <1>4 DEF ExistsBijection
<1>6. IsFiniteSet(1..Len(s)) 
  BY <1>1, FS_Interval
<1> QED BY <1>1, <1>5, <1>6, FS_CountingElements, FS_Bijection

(* Appending entries that are all later, or all there already, keeps the    *)
(* table in order but for repetitions.                                      *)
LEMMA ConcatInOrder ==
  ASSUME NEW s \in Seq(Nat), NEW t \in Seq(Nat), Increasing(t),
         \A i, j \in DOMAIN s :
            i < j /\ s[i] > s[j] => \E k \in 1..(j - 1) : s[k] = s[j],
         Below(s, t) \/ Range(t) \subseteq Range(s)
  PROVE  \A i, j \in DOMAIN (s \o t) :
            i < j /\ (s \o t)[i] > (s \o t)[j] =>
               \E k \in 1..(j - 1) : (s \o t)[k] = (s \o t)[j]
<1> DEFINE r == s \o t
           m == Len(s)
           n == Len(t)
<1>1. /\ m \in Nat /\ n \in Nat /\ DOMAIN r = 1..(m + n)
      /\ DOMAIN s = 1..m /\ s \in [1..m -> Nat] /\ t \in [1..n -> Nat]
      /\ \A i \in 1..m : r[i] = s[i]
      /\ \A i \in 1..(m + n) : i > m => r[i] = t[i - m] /\ i - m \in 1..n
  OBVIOUS
<1>2. \A i, j \in 1..n : i < j => t[i] < t[j]
  BY DEF Increasing
<1>3. (\A i \in 1..m, j \in 1..n : s[i] < t[j]) \/ (\A j \in 1..n : \E k \in 1..m : s[k] = t[j])
  <2>1. CASE Below(s, t)
    BY <2>1 DEF Below
  <2>2. CASE Range(t) \subseteq Range(s)
    <3>1. ASSUME NEW j \in 1..n PROVE \E k \in 1..m : s[k] = t[j]
      <4>1. t[j] \in Range(s)
        BY <2>2, <1>1 DEF Range
      <4> QED BY <4>1, <1>1 DEF Range
    <3> QED BY <3>1
  <2> QED BY <2>1, <2>2
<1>4. \A i, j \in 1..m : i < j /\ s[i] > s[j] => \E k \in 1..(j - 1) : s[k] = s[j]
  BY <1>1
<1> SUFFICES ASSUME NEW i \in 1..(m + n), NEW j \in 1..(m + n), i < j, r[i] > r[j]
             PROVE  \E k \in 1..(j - 1) : r[k] = r[j]
  BY <1>1
<1> HIDE DEF r, m, n
<1>5. CASE j <= m
  <2>1. i \in 1..m /\ j \in 1..m /\ s[i] > s[j]
    BY <1>1, <1>5
  <2>2. PICK k \in 1..(j - 1) : s[k] = s[j]
    BY <2>1, <1>4
  <2>3. k \in 1..m /\ r[k] = r[j]
    BY <2>1, <2>2, <1>1
  <2> QED BY <2>3
<1>6. CASE j > m
  <2>1. r[j] = t[j - m] /\ j - m \in 1..n /\ t[j - m] \in Nat
    BY <1>1, <1>6
  <2>2. CASE \A x \in 1..m, y \in 1..n : s[x] < t[y]
    <3>1. CASE i <= m
      <4>1. i \in 1..m /\ r[i] = s[i] /\ s[i] \in Nat
        BY <1>1, <3>1
      <4>2. s[i] < t[j - m]
        BY <4>1, <2>1, <2>2
      <4> QED BY <4>1, <4>2, <2>1
    <3>2. CASE i > m
      <4>1. r[i] = t[i - m] /\ i - m \in 1..n /\ t[i - m] \in Nat
        BY <1>1, <3>2
      <4>2. i - m < j - m
        BY <1>1
      <4>3. t[i - m] < t[j - m]
        BY <4>1, <4>2, <2>1, <1>2
      <4> QED BY <4>1, <4>3, <2>1
    <3> QED BY <3>1, <3>2, <1>1
  <2>3. CASE \A y \in 1..n : \E k \in 1..m : s[k] = t[y]
    <3>1. PICK k \in 1..m : s[k] = t[j - m]
      BY <2>1, <2>3
    <3>2. k \in 1..(j - 1) /\ r[k] = r[j]
      BY <3>1, <1>1, <1>6, <2>1
    <3> QED BY <3>2
  <2> QED BY <2>2, <2>3, <1>3
<1> QED BY <1>1, <1>5, <1>6

\* The counters of DbLayerMetrics.
MetricField ==
  {"entries_written", "entries_dropped", "flush_count", "flush_errors", "queue_depth"}

\* NoMetrics has exactly those counters.
LEMMA MetricsFields == DOMAIN NoMetrics = MetricField
BY DEF NoMetrics, MetricField

-----------------------------------------------------------------------------
(* The initial state and the steps that leave the entries where they are.   *)

\* Nothing is queued, stored or counted at first.
LEMMA PipelineInit == Init => PipelineInv
<1> SUFFICES ASSUME Init PROVE PipelineInv
  OBVIOUS
<1> USE SizesAssumption
<1>1. Range(<<>>) = {}
  BY DEF Range
<1>2. metrics \in [DOMAIN NoMetrics -> Nat]
  BY DEF Init, NoMetrics
<1>b. slot \in BOOLEAN /\ graceful \in BOOLEAN
  BY Zenon DEF Init
<1>3. TypeOK
  BY <1>2, <1>b DEF Init, TypeOK
<1>4. NumbersEmitted /\ QueuesInOrder /\ RowsBehind /\ Phases
  BY DEF Init, NumbersEmitted, QueuesInOrder, RowsBehind, Phases, Increasing, Below
<1>5. EntriesAccounted
  BY <1>1, FS_EmptySet DEF Init, EntriesAccounted, NoMetrics
<1>6. StoredInOrder
  BY DEF Init, StoredInOrder
<1>7. DiscardedLast
  BY DEF Init, DiscardedLast, Discarded
<1> QED BY <1>3, <1>4, <1>5, <1>6, <1>7 DEF PipelineInv

(* What was discarded stays so, unless an entry is emitted or a sender      *)
(* appears.                                                                 *)
LEMMA DiscardedKept ==
  ASSUME DiscardedLast, slot' => slot, UNCHANGED <<emitted, accepted>>,
         accepted \cup lost' = accepted \cup lost
  PROVE  DiscardedLast'
BY DEF DiscardedLast, Discarded

(* LogBuilder::init, the guard's shutdown and the writer's idle arms move   *)
(* no entry and touch no counter.                                           *)
LEMMA ControlStepInv ==
  ASSUME PipelineInv,
         \/ InitDb \/ InitConsoleOnly \/ Tick \/ ChannelClosed \/ ClearSlot
         \/ DropSender \/ WriterJoined \/ ExitWithoutShutdown \/ UNCHANGED vars
  PROVE  PipelineInv'
<1> USE SizesAssumption
<1> DEFINE Entries == <<channel, buffer, rows, metrics, emitted, accepted, stored, lost>>
<1>1. UNCHANGED Entries /\ UNCHANGED graceful
  BY DEF InitDb, InitConsoleOnly, Tick, ChannelClosed, ClearSlot, DropSender, WriterJoined,
         ExitWithoutShutdown, vars
<1>2. TypeOK'
  BY <1>1 DEF PipelineInv, TypeOK, InitDb, InitConsoleOnly, Tick, ChannelClosed, ClearSlot,
         DropSender, WriterJoined, ExitWithoutShutdown, vars
<1>3. NumbersEmitted' /\ QueuesInOrder'
  BY <1>1 DEF PipelineInv, NumbersEmitted, QueuesInOrder, Increasing, Below
<1>4. EntriesAccounted' /\ StoredInOrder'
  BY <1>1 DEF PipelineInv, EntriesAccounted, StoredInOrder
<1>5. RowsBehind'
  <2>1. writer \in {"retry", "lastretry", "done"} =>
          writer' \in {"retry", "lastretry", "done"}
    BY DEF InitDb, InitConsoleOnly, Tick, ChannelClosed, ClearSlot, DropSender, WriterJoined,
         ExitWithoutShutdown, vars, PipelineInv, Phases
  <2> QED BY <1>1, <2>1 DEF PipelineInv, RowsBehind, Below
<1>6. Phases'
  BY <1>1 DEF PipelineInv, TypeOK, Phases, SenderAlive, InitDb, InitConsoleOnly, Tick,
         ChannelClosed, ClearSlot, DropSender, WriterJoined, ExitWithoutShutdown, vars
<1>7. DiscardedLast'
  <2>1. CASE InitDb
    <3>1. emitted' = 0 /\ accepted' = {} /\ lost' = {}
      BY <1>1, <2>1 DEF InitDb, PipelineInv, Phases, NumbersEmitted
    <3> QED BY <3>1 DEF DiscardedLast, Discarded
  <2>2. CASE ~InitDb
    <3>1. slot' => slot
      BY <2>2 DEF InitConsoleOnly, Tick, ChannelClosed, ClearSlot, DropSender, WriterJoined,
         ExitWithoutShutdown, vars
    <3> QED BY <1>1, <3>1, DiscardedKept DEF PipelineInv
  <2> QED BY <2>1, <2>2
<1> QED BY <1>2, <1>3, <1>4, <1>5, <1>6, <1>7 DEF PipelineInv

-----------------------------------------------------------------------------
(* DbLayer::on_event: a new entry has the highest number so far.            *)

\* on_event gives the next number, and puts the entry into the channel or counts it.
LEMMA OnEventInv ==
  ASSUME PipelineInv, OnEvent
  PROVE  PipelineInv'
<1> USE SizesAssumption
<1> DEFINE e == emitted + 1
<1>1. /\ emitted \in Nat /\ e \in 1..MaxEvents /\ emitted' = e
      /\ e \notin accepted /\ e \notin stored /\ e \notin lost
      /\ UNCHANGED <<graceful, app, slot, buffer, writer, rows, stored>>
  BY DEF PipelineInv, TypeOK, NumbersEmitted, OnEvent
<1>2. 1..emitted \subseteq 1..e
  BY <1>1
<1>3. rows \in Seq(1..e)
  BY <1>1, <1>2 DEF PipelineInv, NumbersEmitted
<1>4. StoredInOrder'
  BY <1>1 DEF PipelineInv, StoredInOrder
<1>5. Range(channel) \cup Range(buffer) \subseteq 1..emitted
  BY DEF PipelineInv, EntriesAccounted, NumbersEmitted
<1>6. IsFiniteSet(lost) /\ Cardinality(lost) \in Nat
  <2>1. IsFiniteSet(1..emitted)
    BY <1>1, FS_Interval
  <2> QED BY <2>1, FS_Subset, FS_CardinalityType DEF PipelineInv, NumbersEmitted
<1>d. DiscardedLast'
  <2>1. accepted \cup lost \subseteq 1..emitted /\ DiscardedLast
    BY DEF PipelineInv, NumbersEmitted
  <2>2. CASE ~slot
    <3>1. accepted' = accepted /\ lost' = lost /\ ~slot'
      BY <2>2, <1>1 DEF OnEvent
    <3>2. ASSUME NEW d \in Discarded', NEW taken \in accepted' \cup lost' PROVE taken < d
      <4>1. taken \in accepted \cup lost /\ taken \in 1..emitted
        BY <3>1, <3>2, <2>1
      <4>2. d \in Discarded \/ d = e
        BY <1>1, <3>1, <3>2 DEF Discarded
      <4> QED BY <1>1, <2>1, <4>1, <4>2 DEF DiscardedLast
    <3> QED BY <3>1, <3>2 DEF DiscardedLast
  <2>3. CASE slot
    <3>1. accepted' \cup lost' = (accepted \cup lost) \cup {e}
      BY <2>3, <1>1 DEF OnEvent
    <3>2. Discarded = {}
      BY <2>1, <2>3 DEF DiscardedLast
    <3>3. Discarded' = {}
      BY <1>1, <3>1, <3>2 DEF Discarded
    <3> QED BY <3>3 DEF DiscardedLast
  <2> QED BY <2>2, <2>3
<1>7. CASE ~slot /\ UNCHANGED <<channel, metrics, accepted, lost>>
  <2>1. TypeOK' /\ NumbersEmitted'
    BY <1>1, <1>2, <1>3, <1>7 DEF PipelineInv, TypeOK, NumbersEmitted
  <2>2. QueuesInOrder' /\ RowsBehind'
    BY <1>1, <1>7 DEF PipelineInv, QueuesInOrder, RowsBehind, Increasing, Below
  <2>3. EntriesAccounted' /\ Phases'
    BY <1>1, <1>7 DEF PipelineInv, EntriesAccounted, Phases, OnEvent
  <2> QED BY <2>1, <2>2, <2>3, <1>4, <1>d DEF PipelineInv
<1>8. CASE /\ slot /\ Len(channel) < CHANNEL_CAPACITY
           /\ channel' = Append(channel, e)
           /\ accepted' = accepted \cup {e}
           /\ UNCHANGED <<metrics, lost>>
  <2>1. TypeOK' /\ NumbersEmitted'
    BY <1>1, <1>2, <1>3, <1>8 DEF PipelineInv, TypeOK, NumbersEmitted
  <2>2. /\ \A i \in 1..Len(channel) : channel[i] \in 1..emitted
        /\ \A i \in 1..Len(buffer) : buffer[i] \in 1..emitted
        /\ \A i \in 1..Len(rows) : rows[i] \in 1..emitted
        /\ \A i \in 1..Len(channel') : channel'[i] = IF i <= Len(channel) THEN channel[i] ELSE e
        /\ Len(channel') = Len(channel) + 1 /\ Len(channel) \in Nat
    <3>1. channel \in Seq(1..MaxEvents) /\ buffer \in Seq(1..MaxEvents)
      BY DEF PipelineInv, TypeOK
    <3>2. \A i \in 1..Len(channel) : channel[i] \in Range(channel)
      BY <3>1 DEF Range
    <3>3. \A i \in 1..Len(buffer) : buffer[i] \in Range(buffer)
      BY <3>1 DEF Range
    <3>4. rows \in Seq(1..emitted)
      BY DEF PipelineInv, NumbersEmitted
    <3>5. \A i \in 1..Len(channel') : channel'[i] = IF i <= Len(channel) THEN channel[i] ELSE e
      BY <3>1, <1>1, <1>8
    <3>6. Len(channel') = Len(channel) + 1 /\ Len(channel) \in Nat
      BY <3>1, <1>1, <1>8
    <3>7. \A i \in 1..Len(channel) : channel[i] \in 1..emitted
      BY <3>2, <1>5, Zenon
    <3>8. \A i \in 1..Len(buffer) : buffer[i] \in 1..emitted
      BY <3>3, <1>5, Zenon
    <3>9. \A i \in 1..Len(rows) : rows[i] \in 1..emitted
      BY <3>4, SeqElement, Zenon
    <3> QED BY <3>5, <3>6, <3>7, <3>8, <3>9
  <2>3. Increasing(channel)'
    <3> SUFFICES ASSUME NEW i \in 1..Len(channel'), NEW j \in 1..Len(channel'), i < j
                 PROVE  channel'[i] < channel'[j]
      BY DEF Increasing
    <3>1. i \in 1..Len(channel)
      BY <2>2
    <3>2. CASE j \in 1..Len(channel)
      BY <3>1, <3>2, <2>2 DEF PipelineInv, QueuesInOrder, Increasing
    <3>3. CASE j = Len(channel) + 1
      BY <3>1, <3>3, <2>2, <1>1
    <3> QED BY <3>2, <3>3, <2>2
  <2>4. ASSUME NEW s, Len(s) \in Nat, Below(s, channel),
               \A i \in 1..Len(s) : s[i] \in 1..emitted
        PROVE  Below(s, channel')
    <3> SUFFICES ASSUME NEW i \in 1..Len(s), NEW j \in 1..Len(channel')
                 PROVE  s[i] < channel'[j]
      BY DEF Below
    <3>1. CASE j \in 1..Len(channel)
      BY <3>1, <2>2, <2>4 DEF Below
    <3>2. CASE j = Len(channel) + 1
      BY <3>2, <2>2, <2>4, <1>1
    <3> QED BY <3>1, <3>2, <2>2
  <2>5. Below(buffer, channel')
    <3>1. Len(buffer) \in Nat /\ Below(buffer, channel)
      BY DEF PipelineInv, QueuesInOrder, TypeOK
    <3> QED BY <2>2, <2>4, <3>1, Zenon
  <2>6. Below(rows, channel')
    <3>1. Len(rows) \in Nat /\ Below(rows, channel)
      BY DEF PipelineInv, RowsBehind, TypeOK
    <3> QED BY <2>2, <2>4, <3>1, Zenon
  <2>7. QueuesInOrder'
    BY <2>3, <2>5, <1>1 DEF PipelineInv, QueuesInOrder, Increasing, Below
  <2>8. RowsBehind'
    BY <2>6, <1>1 DEF PipelineInv, RowsBehind, Below
  <2>9. EntriesAccounted'
    <3>1. Range(channel') = Range(channel) \cup {e}
      BY <1>1, <1>8, RangeAppend DEF PipelineInv, TypeOK
    <3> QED BY <3>1, <1>1, <1>5, <1>8 DEF PipelineInv, EntriesAccounted
  <2>10. Phases'
    BY <1>1, <1>8 DEF PipelineInv, Phases, OnEvent, TypeOK
  <2> QED BY <2>1, <2>7, <2>8, <2>9, <2>10, <1>4, <1>d DEF PipelineInv
<1>9. CASE /\ metrics' = [metrics EXCEPT !.entries_dropped = @ + 1]
           /\ lost' = lost \cup {e}
           /\ UNCHANGED <<channel, accepted>>
  <2>1. /\ metrics' \in [DOMAIN NoMetrics -> Nat]
        /\ metrics'.entries_dropped = metrics.entries_dropped + 1
        /\ metrics'.entries_written = metrics.entries_written
    <3>1. metrics \in [MetricField -> Nat]
      BY MetricsFields DEF PipelineInv, TypeOK
    <3>2. metrics' \in [MetricField -> Nat]
      BY <3>1, <1>9 DEF MetricField
    <3> QED BY <3>1, <3>2, <1>9, MetricsFields DEF MetricField
  <2>2. TypeOK'
    BY <1>1, <1>9, <2>1 DEF PipelineInv, TypeOK
  <2>3. NumbersEmitted'
    BY <1>1, <1>2, <1>3, <1>9 DEF PipelineInv, NumbersEmitted
  <2>4. QueuesInOrder' /\ RowsBehind'
    BY <1>1, <1>9 DEF PipelineInv, QueuesInOrder, RowsBehind, Increasing, Below
  <2>5. Cardinality(lost') = Cardinality(lost) + 1
    BY <1>1, <1>6, <1>9, FS_AddElement
  <2>6. EntriesAccounted'
    BY <2>1, <2>5, <1>1, <1>5, <1>9 DEF PipelineInv, EntriesAccounted
  <2>7. Phases'
    BY <1>1, <1>9 DEF PipelineInv, Phases, OnEvent
  <2> QED BY <2>2, <2>3, <2>4, <2>6, <2>7, <1>4, <1>d DEF PipelineInv
<1> QED BY <1>7, <1>8, <1>9 DEF OnEvent

-----------------------------------------------------------------------------
(* The writer.  Receiving moves the oldest entry of the channel to the end  *)
(* of the batch.                                                            *)

\* The writer moves the oldest queued entry to its batch.
LEMMA ReceiveInv ==
  ASSUME PipelineInv, Receive
  PROVE  PipelineInv'
<1> USE SizesAssumption
<1> DEFINE S == 1..MaxEvents
           h == Head(channel)
<1>1. /\ channel \in Seq(S) /\ channel # <<>> /\ buffer \in Seq(S) /\ rows \in Seq(S)
      /\ buffer' = Append(buffer, h) /\ channel' = Tail(channel)
      /\ writer = "select" /\ Len(buffer) < BATCH_SIZE /\ S \subseteq Nat
      /\ UNCHANGED <<graceful, app, slot, rows, emitted, accepted, stored, lost>>
  BY DEF PipelineInv, TypeOK, Phases, Receive
<1>2. /\ channel' \in Seq(S) /\ Len(channel') = Len(channel) - 1 /\ Len(channel) \in Nat
      /\ \A i \in 1..Len(channel') : i + 1 \in 1..Len(channel) /\ channel'[i] = channel[i + 1]
      /\ h = channel[1] /\ h \in S /\ 1 \in 1..Len(channel)
  BY <1>1
<1>3. /\ buffer' \in Seq(S) /\ Len(buffer') = Len(buffer) + 1 /\ Len(buffer) \in Nat
      /\ \A i \in 1..Len(buffer) : buffer'[i] = buffer[i]
      /\ buffer'[Len(buffer) + 1] = channel[1]
  BY <1>1, <1>2
<1>4. Len(rows) \in Nat
  BY <1>1
<1> HIDE DEF S, h
<1>5. TypeOK'
  <2>1. metrics' \in [DOMAIN NoMetrics -> Nat]
    <3>1. metrics \in [MetricField -> Nat]
      BY MetricsFields DEF PipelineInv, TypeOK
    <3>2. metrics' = [metrics EXCEPT !.queue_depth = Len(buffer')] /\ Len(buffer') \in Nat
      BY <1>3 DEF Receive
    <3> QED BY <3>1, <3>2, MetricsFields DEF MetricField
  <2>2. Len(channel') <= CHANNEL_CAPACITY /\ Len(buffer') <= BATCH_SIZE
    BY <1>1, <1>2, <1>3 DEF PipelineInv, TypeOK
  <2> QED BY <2>1, <2>2, <1>1, <1>2, <1>3 DEF PipelineInv, TypeOK, Receive, S
<1>6. NumbersEmitted'
  BY <1>1 DEF PipelineInv, NumbersEmitted
<1>7. QueuesInOrder'
  <2>o. /\ \A i, j \in 1..Len(channel) : i < j => channel[i] < channel[j]
        /\ \A i, j \in 1..Len(buffer) : i < j => buffer[i] < buffer[j]
        /\ \A i \in 1..Len(buffer), j \in 1..Len(channel) : buffer[i] < channel[j]
    BY DEF PipelineInv, QueuesInOrder, Increasing, Below
  <2>1. ASSUME NEW i \in 1..Len(channel'), NEW j \in 1..Len(channel'), i < j
        PROVE  channel'[i] < channel'[j]
    <3>1. i + 1 \in 1..Len(channel) /\ j + 1 \in 1..Len(channel) /\ i + 1 < j + 1
      BY <1>2, <2>1
    <3> QED BY <3>1, <1>2, <2>o
  <2>2. ASSUME NEW i \in 1..Len(buffer'), NEW j \in 1..Len(buffer'), i < j
        PROVE  buffer'[i] < buffer'[j]
    <3>1. i \in 1..Len(buffer) /\ buffer'[i] = buffer[i]
      BY <1>3, <2>2
    <3>2. CASE j \in 1..Len(buffer)
      BY <3>1, <3>2, <1>3, <2>2, <2>o
    <3>3. CASE j = Len(buffer) + 1
      <4>1. buffer'[j] = channel[1]
        BY <3>3, <1>3
      <4> QED BY <3>1, <4>1, <1>2, <2>o
    <3> QED BY <3>2, <3>3, <1>3
  <2>3. ASSUME NEW i \in 1..Len(buffer'), NEW j \in 1..Len(channel')
        PROVE  buffer'[i] < channel'[j]
    <3>1. j + 1 \in 1..Len(channel) /\ channel'[j] = channel[j + 1] /\ 1 < j + 1
      BY <1>2
    <3>2. CASE i \in 1..Len(buffer)
      BY <3>1, <3>2, <1>3, <2>o
    <3>3. CASE i = Len(buffer) + 1
      <4>1. buffer'[i] = channel[1]
        BY <3>3, <1>2, <1>3
      <4> QED BY <3>1, <4>1, <1>2, <2>o
    <3> QED BY <3>2, <3>3, <1>3
  <2> QED BY <2>1, <2>2, <2>3 DEF QueuesInOrder, Increasing, Below
<1>8. RowsBehind'
  <2>o. /\ \A i \in 1..Len(rows), j \in 1..Len(channel) : rows[i] < channel[j]
        /\ \A i \in 1..Len(rows), j \in 1..Len(buffer) : rows[i] < buffer[j]
    BY <1>1 DEF PipelineInv, RowsBehind, Below
  <2>1. ASSUME NEW i \in 1..Len(rows), NEW j \in 1..Len(channel')
        PROVE  rows[i] < channel'[j]
    BY <1>2, <2>o
  <2>2. ASSUME NEW i \in 1..Len(rows), NEW j \in 1..Len(buffer')
        PROVE  rows[i] < buffer'[j]
    <3>1. CASE j \in 1..Len(buffer)
      BY <3>1, <1>3, <2>o
    <3>2. CASE j = Len(buffer) + 1
      <4>1. buffer'[j] = channel[1]
        BY <3>2, <1>2, <1>3
      <4> QED BY <4>1, <1>2, <2>o
    <3> QED BY <3>1, <3>2, <1>3
  <2> QED BY <2>1, <2>2, <1>1 DEF RowsBehind, Below
<1>9. EntriesAccounted'
  <2>1. Range(channel) = {h} \cup Range(channel')
    BY <1>1, RangeHeadTail DEF h
  <2>2. Range(buffer') = Range(buffer) \cup {h}
    BY <1>1, <1>2, RangeAppend
  <2>3. /\ metrics'.entries_written = metrics.entries_written
        /\ metrics'.entries_dropped = metrics.entries_dropped
    <3>1. metrics \in [MetricField -> Nat]
      BY MetricsFields DEF PipelineInv, TypeOK
    <3> QED BY <3>1 DEF MetricField, Receive
  <2> QED BY <2>1, <2>2, <2>3, <1>1 DEF PipelineInv, EntriesAccounted
<1>10. StoredInOrder'
  BY <1>1 DEF PipelineInv, StoredInOrder
<1>11. Phases'
  BY <1>1, <1>2, <1>3 DEF PipelineInv, Phases, Receive, TypeOK
<1>12. DiscardedLast'
  BY <1>1, DiscardedKept DEF PipelineInv, Receive
<1> QED BY <1>5, <1>6, <1>7, <1>8, <1>9, <1>10, <1>11, <1>12 DEF PipelineInv

(* The batch of a flush: its entries are distinct, accepted, counted        *)
(* nowhere yet and no longer in the channel.                                *)
LEMMA BatchUncounted ==
  ASSUME PipelineInv
  PROVE  /\ IsFiniteSet(Range(buffer)) /\ Cardinality(Range(buffer)) = Len(buffer)
         /\ Len(buffer) \in Nat
         /\ IsFiniteSet(stored) /\ IsFiniteSet(lost)
         /\ Cardinality(stored) \in Nat /\ Cardinality(lost) \in Nat
         /\ Cardinality(stored \cup Range(buffer)) = Cardinality(stored) + Len(buffer)
         /\ Cardinality(lost \cup Range(buffer)) = Cardinality(lost) + Len(buffer)
         /\ Range(buffer) \subseteq accepted /\ Range(buffer) \subseteq 1..emitted
         /\ Range(buffer) \cap Range(channel) = {}
         /\ Range(buffer) \cap (stored \cup lost) = {}
<1> USE SizesAssumption
<1>1. /\ buffer \in Seq(1..MaxEvents) /\ buffer \in Seq(Nat) /\ channel \in Seq(1..MaxEvents)
      /\ emitted \in Nat /\ 1..MaxEvents \subseteq Nat
  BY DEF PipelineInv, TypeOK
<1>2. IsFiniteSet(Range(buffer)) /\ Cardinality(Range(buffer)) = Len(buffer)
  BY <1>1, IncreasingCardinality DEF PipelineInv, QueuesInOrder
<1>3. /\ Range(buffer) \cap (stored \cup lost) = {} /\ Range(buffer) \subseteq accepted
      /\ Range(buffer) \subseteq 1..emitted
  BY DEF PipelineInv, EntriesAccounted, NumbersEmitted
<1>4. IsFiniteSet(stored) /\ IsFiniteSet(lost)
  <2>1. IsFiniteSet(1..emitted)
    BY <1>1, FS_Interval
  <2> QED BY <2>1, FS_Subset DEF PipelineInv, NumbersEmitted
<1>5. Cardinality(stored) \in Nat /\ Cardinality(lost) \in Nat
  BY <1>4, FS_CardinalityType
<1>6. Len(buffer) \in Nat
  BY <1>1
<1>7. ASSUME NEW A, IsFiniteSet(A), A \cap Range(buffer) = {}, Cardinality(A) \in Nat
      PROVE  Cardinality(A \cup Range(buffer)) = Cardinality(A) + Len(buffer)
  <2>1. Cardinality(A \cup Range(buffer)) =
          Cardinality(A) + Cardinality(Range(buffer)) - Cardinality(A \cap Range(buffer))
    BY <1>2, <1>7, FS_Union
  <2>2. Cardinality(A \cap Range(buffer)) = 0
    BY <1>7, FS_EmptySet
  <2> QED BY <2>1, <2>2, <1>2, <1>6, <1>7
<1>8. Range(buffer) \cap Range(channel) = {}
  <2> SUFFICES ASSUME NEW x \in Range(buffer), x \in Range(channel) PROVE FALSE
    OBVIOUS
  <2>1. PICK i \in 1..Len(buffer) : x = buffer[i]
    BY <1>1 DEF Range
  <2>2. PICK j \in 1..Len(channel) : x = channel[j]
    BY <1>1 DEF Range
  <2>3. buffer[i] < channel[j]
    BY DEF PipelineInv, QueuesInOrder, Below
  <2> QED BY <1>3, <2>1, <2>2, <2>3, <1>1
<1>9. stored \cap Range(buffer) = {} /\ lost \cap Range(buffer) = {}
  BY <1>3
<1> QED BY <1>2, <1>3, <1>4, <1>5, <1>6, <1>7, <1>8, <1>9

(* Inserting the batch: the table stays in order, behind the channel.       *)
LEMMA InsertBatch ==
  ASSUME PipelineInv
  PROVE  LET r == rows \o buffer
         IN  /\ r \in Seq(1..MaxEvents) /\ r \in Seq(1..emitted)
             /\ Range(r) = Range(rows) \cup Range(buffer)
             /\ Below(r, channel)
             /\ \A i, j \in DOMAIN r :
                   i < j /\ r[i] > r[j] => \E k \in 1..(j - 1) : r[k] = r[j]
<1> USE SizesAssumption
<1> DEFINE r == rows \o buffer
<1>1. /\ buffer \in Seq(1..MaxEvents) /\ rows \in Seq(1..MaxEvents) /\ emitted \in Nat
      /\ rows \in Seq(1..emitted)
  BY DEF PipelineInv, TypeOK, NumbersEmitted
<1>2. buffer \in Seq(1..emitted)
  <2>1. Range(buffer) \subseteq 1..emitted
    BY BatchUncounted
  <2>2. \A i \in 1..Len(buffer) : buffer[i] \in Range(buffer)
    BY <1>1, RangeMember
  <2> QED BY <2>1, <2>2, <1>1, SeqRestrict
<1>3. r \in Seq(1..MaxEvents) /\ r \in Seq(1..emitted)
  BY <1>1, <1>2
<1>4. Range(r) = Range(rows) \cup Range(buffer)
  BY <1>1, RangeConcat
<1>5. Below(r, channel)
  <2>1. /\ Len(r) = Len(rows) + Len(buffer) /\ Len(rows) \in Nat /\ Len(buffer) \in Nat
        /\ \A i \in 1..Len(r) : IF i <= Len(rows) THEN r[i] = rows[i]
                                ELSE r[i] = buffer[i - Len(rows)] /\ i - Len(rows) \in 1..Len(buffer)
    BY <1>1
  <2>2. Below(rows, channel) /\ Below(buffer, channel)
    BY DEF PipelineInv, RowsBehind, QueuesInOrder
  <2> HIDE DEF r
  <2> SUFFICES ASSUME NEW i \in 1..Len(r), NEW j \in 1..Len(channel) PROVE r[i] < channel[j]
    BY DEF Below
  <2>3. CASE i <= Len(rows)
    BY <2>1, <2>2, <2>3 DEF Below
  <2>4. CASE i > Len(rows)
    BY <2>1, <2>2, <2>4 DEF Below
  <2> QED BY <2>1, <2>3, <2>4
<1>6. \A i, j \in DOMAIN r : i < j /\ r[i] > r[j] => \E k \in 1..(j - 1) : r[k] = r[j]
  <2>1. rows \in Seq(Nat) /\ buffer \in Seq(Nat)
    BY <1>1
  <2>2. Increasing(buffer) /\ (Below(rows, buffer) \/ Range(buffer) \subseteq Range(rows))
    BY DEF PipelineInv, RowsBehind, QueuesInOrder
  <2>3. \A i, j \in DOMAIN rows :
           i < j /\ rows[i] > rows[j] => \E k \in 1..(j - 1) : rows[k] = rows[j]
    BY DEF PipelineInv, StoredInOrder
  <2> QED BY <2>1, <2>2, <2>3, ConcatInOrder
<1> QED BY <1>3, <1>4, <1>5, <1>6

(* A batch that leaves the writer's buffer, into the table and one counter  *)
(* (FlushOk) or into the other counter and perhaps the table (RetryFails).  *)
LEMMA BatchLeaves ==
  ASSUME PipelineInv, writer \in {"flush", "retry", "lastflush", "lastretry"},
         buffer' = <<>>, writer' = AfterFlush(writer),
         rows' = rows \/ rows' = rows \o buffer,
         UNCHANGED <<graceful, app, slot, channel, emitted, accepted>>,
         metrics' \in [DOMAIN NoMetrics -> Nat],
         \/ /\ stored' = stored \cup Range(buffer) /\ lost' = lost
            /\ rows' = rows \o buffer
            /\ metrics'.entries_written = metrics.entries_written + Len(buffer)
            /\ metrics'.entries_dropped = metrics.entries_dropped
         \/ /\ lost' = lost \cup Range(buffer) /\ stored' = stored
            /\ metrics'.entries_written = metrics.entries_written
            /\ metrics'.entries_dropped = metrics.entries_dropped + Len(buffer)
  PROVE  PipelineInv'
<1> USE SizesAssumption
<1>1. /\ rows \o buffer \in Seq(1..MaxEvents) /\ rows \o buffer \in Seq(1..emitted)
      /\ Range(rows \o buffer) = Range(rows) \cup Range(buffer)
      /\ Below(rows \o buffer, channel)
  BY InsertBatch
<1>2. Range(buffer') = {} /\ Len(buffer') = 0
  BY DEF Range
<1>3. TypeOK'
  <2>1. buffer' \in Seq(1..MaxEvents) /\ Len(buffer') <= BATCH_SIZE
    BY <1>2
  <2>2. writer' \in {"select", "done"}
    BY DEF AfterFlush
  <2>3. rows' \in Seq(1..MaxEvents)
    BY <1>1 DEF PipelineInv, TypeOK
  <2> QED BY <2>1, <2>2, <2>3 DEF PipelineInv, TypeOK
<1>4. NumbersEmitted'
  <2>1. rows' \in Seq(1..emitted)
    BY <1>1 DEF PipelineInv, NumbersEmitted
  <2> QED BY <2>1, BatchUncounted DEF PipelineInv, NumbersEmitted
<1>5. QueuesInOrder'
  BY <1>2 DEF PipelineInv, QueuesInOrder, Increasing, Below
<1>6. RowsBehind'
  <2>1. Below(rows', channel)
    BY <1>1 DEF PipelineInv, RowsBehind
  <2> QED BY <2>1, <1>2 DEF RowsBehind, Below
<1>7. Phases'
  BY <1>2 DEF PipelineInv, TypeOK, Phases, AfterFlush
<1>8. EntriesAccounted'
  <2>1. accepted \ (stored' \cup lost') = Range(channel)
    BY BatchUncounted DEF PipelineInv, EntriesAccounted
  <2>2. stored' \cap lost' = {}
    BY BatchUncounted DEF PipelineInv, EntriesAccounted
  <2>3. /\ Cardinality(stored') = metrics'.entries_written
        /\ Cardinality(lost') = metrics'.entries_dropped
    BY BatchUncounted DEF PipelineInv, EntriesAccounted
  <2> QED BY <2>1, <2>2, <2>3, <1>2 DEF EntriesAccounted
<1>9. StoredInOrder'
  <2>1. stored' \subseteq Range(rows')
    BY <1>1 DEF PipelineInv, StoredInOrder
  <2>2. CASE rows' = rows
    BY <2>1, <2>2 DEF PipelineInv, StoredInOrder
  <2>3. CASE rows' = rows \o buffer
    BY <2>1, <2>3, InsertBatch DEF StoredInOrder
  <2> QED BY <2>2, <2>3
<1>10. DiscardedLast'
  <2>1. accepted \cup lost' = accepted \cup lost
    BY BatchUncounted
  <2> QED BY <2>1, DiscardedKept DEF PipelineInv
<1> QED BY <1>3, <1>4, <1>5, <1>6, <1>7, <1>8, <1>9, <1>10 DEF PipelineInv

\* A flush that succeeds writes the batch behind the earlier rows.
LEMMA FlushOkInv ==
  ASSUME PipelineInv, FlushOk
  PROVE  PipelineInv'
<1>1. metrics \in [MetricField -> Nat] /\ Len(buffer) \in Nat
  BY MetricsFields, BatchUncounted DEF PipelineInv, TypeOK
<1> DEFINE w == metrics.entries_written + Len(buffer)
           c == metrics.flush_count + (IF writer \in {"flush", "lastflush"} THEN 1 ELSE 0)
<1>2. w \in Nat /\ c \in Nat
  BY <1>1 DEF MetricField
<1>3. metrics' = [metrics EXCEPT !.entries_written = w, !.queue_depth = 0, !.flush_count = c]
  BY DEF FlushOk
<1> HIDE DEF c
<1>4. /\ metrics' \in [MetricField -> Nat]
      /\ metrics'.entries_written = metrics.entries_written + Len(buffer)
      /\ metrics'.entries_dropped = metrics.entries_dropped
  <2> HIDE DEF w
  <2>1. metrics' \in [MetricField -> Nat]
    BY <1>1, <1>2, <1>3 DEF MetricField
  <2>2. metrics'.entries_written = w /\ metrics'.entries_dropped = metrics.entries_dropped
    BY <1>1, <1>2, <1>3 DEF MetricField
  <2> QED BY <2>1, <2>2 DEF w
<1> QED BY <1>4, MetricsFields, BatchLeaves DEF FlushOk

\* A second failure gives up the batch and counts it.
LEMMA RetryFailsInv ==
  ASSUME PipelineInv, NEW committed \in BOOLEAN, RetryFails(committed)
  PROVE  PipelineInv'
<1>1. metrics \in [MetricField -> Nat] /\ Len(buffer) \in Nat
  BY MetricsFields, BatchUncounted DEF PipelineInv, TypeOK
<1>2. /\ metrics' \in [MetricField -> Nat]
      /\ metrics'.entries_written = metrics.entries_written
      /\ metrics'.entries_dropped = metrics.entries_dropped + Len(buffer)
  <2> DEFINE d == metrics.entries_dropped + Len(buffer)
             x == metrics.flush_errors + 1
  <2>1. d \in Nat /\ x \in Nat
    BY <1>1 DEF MetricField
  <2>2. metrics' = [metrics EXCEPT !.entries_dropped = d, !.flush_errors = x, !.queue_depth = 0]
    BY DEF RetryFails
  <2> HIDE DEF d, x
  <2>3. metrics' \in [MetricField -> Nat]
    BY <1>1, <2>1, <2>2 DEF MetricField
  <2>4. metrics'.entries_dropped = d /\ metrics'.entries_written = metrics.entries_written
    BY <1>1, <2>1, <2>2 DEF MetricField
  <2> QED BY <2>3, <2>4 DEF d
<1> QED BY <1>2, MetricsFields, BatchLeaves DEF RetryFails

\* A first failure keeps the batch, whether or not its rows were committed.
LEMMA FlushFailsInv ==
  ASSUME PipelineInv, NEW committed \in BOOLEAN, FlushFails(committed)
  PROVE  PipelineInv'
<1> USE SizesAssumption
<1>1. /\ rows \o buffer \in Seq(1..MaxEvents) /\ rows \o buffer \in Seq(1..emitted)
      /\ Range(rows \o buffer) = Range(rows) \cup Range(buffer)
      /\ Below(rows \o buffer, channel)
  BY InsertBatch
<1>2. /\ metrics' \in [DOMAIN NoMetrics -> Nat]
      /\ metrics'.entries_written = metrics.entries_written
      /\ metrics'.entries_dropped = metrics.entries_dropped
  <2>1. metrics \in [MetricField -> Nat]
    BY MetricsFields DEF PipelineInv, TypeOK
  <2> QED BY <2>1, MetricsFields DEF MetricField, FlushFails
<1>3. UNCHANGED <<graceful, app, slot, channel, buffer, emitted, accepted, stored, lost>>
  BY DEF FlushFails
<1>4. rows' = rows \/ rows' = rows \o buffer
  BY DEF FlushFails
<1>5. TypeOK' /\ NumbersEmitted'
  BY <1>1, <1>2, <1>3, <1>4 DEF PipelineInv, TypeOK, NumbersEmitted, FlushFails
<1>6. QueuesInOrder' /\ EntriesAccounted'
  BY <1>2, <1>3 DEF PipelineInv, QueuesInOrder, EntriesAccounted, Increasing, Below
<1>7. RowsBehind'
  <2>1. Below(rows', channel)
    BY <1>1, <1>4 DEF PipelineInv, RowsBehind
  <2>2. CASE rows' = rows
    BY <2>1, <2>2, <1>3 DEF PipelineInv, RowsBehind, FlushFails, Below
  <2>3. CASE rows' = rows \o buffer
    BY <2>1, <2>3, <1>1, <1>3 DEF PipelineInv, RowsBehind, FlushFails, Below
  <2> QED BY <1>4, <2>2, <2>3
<1>8. Phases'
  BY <1>3 DEF PipelineInv, TypeOK, Phases, FlushFails
<1>9. StoredInOrder'
  <2>1. stored' \subseteq Range(rows')
    BY <1>1, <1>3, <1>4 DEF PipelineInv, StoredInOrder
  <2>2. CASE rows' = rows
    BY <2>1, <2>2 DEF PipelineInv, StoredInOrder
  <2>3. CASE rows' = rows \o buffer
    BY <2>1, <2>3, InsertBatch DEF StoredInOrder
  <2> QED BY <1>4, <2>2, <2>3
<1>10. DiscardedLast'
  BY <1>3, DiscardedKept DEF PipelineInv
<1> QED BY <1>5, <1>6, <1>7, <1>8, <1>9, <1>10 DEF PipelineInv

-----------------------------------------------------------------------------
(* The theorems.                                                            *)

(* The inductive invariant holds in every state of the pipeline.            *)
LEMMA PipelineInvariant == Spec => []PipelineInv
<1>1. PipelineInv /\ [Next]_vars => PipelineInv'
  <2> SUFFICES ASSUME PipelineInv, [Next]_vars PROVE PipelineInv'
    OBVIOUS
  <2>1. CASE AppStep
    BY <2>1, ControlStepInv, OnEventInv DEF AppStep
  <2>2. CASE WriterStep
    BY <2>2, ControlStepInv, ReceiveInv, FlushOkInv, FlushFailsInv, RetryFailsInv
       DEF WriterStep
  <2>3. CASE Done \/ UNCHANGED vars
    BY <2>3, ControlStepInv DEF Done
  <2> QED BY <2>1, <2>2, <2>3 DEF Next
<1> QED BY <1>1, PipelineInit, PTL DEF Spec

(* A pipeline that lost entries and wrote none is over the 10 percent       *)
(* threshold of MetricsSnapshot::status, whatever its flushes did.          *)
LEMMA LossFailing == TypeOK => LossIsReported
<1> SUFFICES ASSUME TypeOK, metrics.entries_dropped > 0, metrics.entries_written = 0
             PROVE  status(metrics) = "failing"
  BY DEF LossIsReported
<1>1. metrics.entries_dropped \in Nat
  BY MetricsFields DEF TypeOK, MetricField
<1> QED BY <1>1 DEF status

(* Whatever the database does and however events, writer and shutdown       *)
(* interleave, no entry on_event hands to the sender disappears: it is      *)
(* queued, or counted exactly once as written or dropped; a loss shows in   *)
(* the status, and LogGuard::shutdown leaves nothing behind.  Uncounted are *)
(* only the entries emitted after the sender was cleared, or without one.   *)
THEOREM PipelineIsHonest == Spec => []PipelineHonest
<1>1. PipelineInv => PipelineHonest
  BY LossFailing DEF PipelineInv, PipelineHonest, ShutdownDrains, Phases
<1> QED BY <1>1, PipelineInvariant, PTL

(* Everything counted as written is in service_log, whose rows are in       *)
(* emission order but for the batch a retry may repeat.                     *)
THEOREM RowsStayInOrder == Spec => []StoredInOrder
<1>1. PipelineInv => StoredInOrder
  BY DEF PipelineInv
<1> QED BY <1>1, PipelineInvariant, PTL

=============================================================================
