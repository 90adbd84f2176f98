---------------------------- MODULE LogPipeline -----------------------------
(***************************************************************************)
(* The database log pipeline of networker-log: tracing events go through   *)
(* the DbLayer's shared sender slot into a bounded channel; one writer     *)
(* task batches them and inserts each batch with one statement, retried    *)
(* once.  LogGuard::shutdown clears the slot, drops the last sender and    *)
(* waits for the writer.                                                   *)
(*                                                                         *)
(* Log entries are numbered in the order on_event reaches the channel,     *)
(* under the slot's lock; the timestamp an entry carries is taken before   *)
(* the lock and may be out of that order between two threads.              *)
(***************************************************************************)
EXTENDS Integers, Sequences, FiniteSets, SequencesExt, Functions

CONSTANTS
  BATCH_SIZE,          \* entries that force a flush
  CHANNEL_CAPACITY,    \* capacity of the mpsc channel
  MaxEvents            \* bound on emitted events

ASSUME SizesAssumption ==
  /\ BATCH_SIZE \in Nat \ {0}
  /\ CHANNEL_CAPACITY \in Nat \ {0}
  /\ MaxEvents \in Nat

VARIABLES
  graceful,   \* whether main ends with LogGuard::shutdown or just drops the guard
  app,        \* the application: its life from init to exit
  slot,       \* SharedSender: the DbLayer's sender is still there
  channel,    \* entries in the mpsc channel
  buffer,     \* the writer's batch
  writer,     \* what the writer task is doing
  rows,       \* service_log, in insertion order
  metrics,    \* LogPipelineMetrics
  emitted,    \* events emitted so far
  accepted,   \* entries the channel took
  stored,     \* entries counted in entries_written
  lost        \* entries counted in entries_dropped

vars == <<graceful, app, slot, channel, buffer, writer, rows, metrics, emitted, accepted,
          stored, lost>>

NoMetrics == [entries_written |-> 0, entries_dropped |-> 0, flush_count |-> 0,
              flush_errors |-> 0, queue_depth |-> 0]

(***************************************************************************)
(* MetricsSnapshot::status, without the latency thresholds: 10 percent of  *)
(* the entries dropped or 5 percent of the flushes failed is failing, 1    *)
(* percent dropped is degraded.                                            *)
(***************************************************************************)
status(m) ==
  LET total == m.entries_written + m.entries_dropped
  IN  IF \/ total > 0 /\ 10 * m.entries_dropped >= total
         \/ m.flush_count > 0 /\ 20 * m.flush_errors >= m.flush_count
      THEN "failing"
      ELSE IF total > 0 /\ 100 * m.entries_dropped >= total
           THEN "degraded" ELSE "healthy"

Init ==
  /\ graceful \in BOOLEAN
  /\ app = "starting" /\ slot = FALSE
  /\ channel = <<>> /\ buffer = <<>> /\ writer = "none" /\ rows = <<>>
  /\ metrics = NoMetrics
  /\ emitted = 0 /\ accepted = {} /\ stored = {} /\ lost = {}

\* LogBuilder::init: setup_db connects, migrates and spawns the writer; when
\* any of it fails the subscriber is installed without the database layer.
InitDb ==
  /\ app = "starting"
  /\ app' = "running" /\ slot' = TRUE /\ writer' = "select"
  /\ UNCHANGED <<graceful, channel, buffer, rows, metrics, emitted, accepted, stored, lost>>

InitConsoleOnly ==
  /\ app = "starting"
  /\ app' = "running"
  /\ UNCHANGED <<graceful, slot, writer, channel, buffer, rows, metrics, emitted, accepted,
                 stored, lost>>

\* DbLayer::on_event: try_send under the slot's lock.  A full channel counts a
\* drop, a cleared slot discards in silence.
OnEvent ==
  /\ app \notin {"starting", "exited"} /\ emitted < MaxEvents
  /\ emitted' = emitted + 1
  /\ IF ~slot
     THEN UNCHANGED <<channel, metrics, accepted, lost>>
     ELSE IF Len(channel) < CHANNEL_CAPACITY
     THEN /\ channel' = Append(channel, emitted + 1)
          /\ accepted' = accepted \cup {emitted + 1}
          /\ UNCHANGED <<metrics, lost>>
     ELSE /\ metrics' = [metrics EXCEPT !.entries_dropped = @ + 1]
          /\ lost' = lost \cup {emitted + 1}
          /\ UNCHANGED <<channel, accepted>>
  /\ UNCHANGED <<graceful, app, slot, buffer, writer, rows, stored>>

(***************************************************************************)
(* The writer task.                                                        *)
(***************************************************************************)
\* A live sender: the DbLayer's slot, or the guard's BatchHandle.
SenderAlive == slot \/ app \in {"running", "clearing"}

\* select!, receive arm: biased, so it wins whenever an entry is there.
Receive ==
  /\ writer = "select" /\ channel # <<>>
  /\ buffer' = Append(buffer, Head(channel))
  /\ channel' = Tail(channel)
  /\ metrics' = [metrics EXCEPT !.queue_depth = Len(buffer')]
  /\ writer' = IF Len(buffer') >= BATCH_SIZE THEN "flush" ELSE "select"
  /\ UNCHANGED <<graceful, app, slot, rows, emitted, accepted, stored, lost>>

\* Mutant: no flush on the interval.
TickFullOnly ==
  /\ writer = "select" /\ channel = <<>> /\ Len(buffer) = BATCH_SIZE /\ SenderAlive
  /\ writer' = "flush"
  /\ UNCHANGED <<graceful, app, slot, channel, buffer, rows, metrics, emitted, accepted, stored, lost>>

\* select!, interval arm: only when nothing can be received.
Tick ==
  /\ writer = "select" /\ channel = <<>> /\ buffer # <<>> /\ SenderAlive
  /\ writer' = "flush"
  /\ UNCHANGED <<graceful, app, slot, channel, buffer, rows, metrics, emitted, accepted, stored, lost>>

\* recv returns None once every sender is gone and the channel is empty.
ChannelClosed ==
  /\ writer = "select" /\ channel = <<>> /\ ~SenderAlive
  /\ writer' = IF buffer # <<>> THEN "lastflush" ELSE "done"
  /\ UNCHANGED <<graceful, app, slot, channel, buffer, rows, metrics, emitted, accepted, stored, lost>>

AfterFlush(w) == IF w \in {"lastflush", "lastretry"} THEN "done" ELSE "select"

\* flush, a successful attempt (the first or the retry).
FlushOk ==
  /\ writer \in {"flush", "retry", "lastflush", "lastretry"}
  /\ rows' = rows \o buffer
  /\ metrics' = [metrics EXCEPT
        !.entries_written = @ + Len(buffer), !.queue_depth = 0,
        !.flush_count = @ + (IF writer \in {"flush", "lastflush"} THEN 1 ELSE 0)]
  /\ stored' = stored \cup Range(buffer)
  /\ buffer' = <<>>
  /\ writer' = AfterFlush(writer)
  /\ UNCHANGED <<graceful, app, slot, channel, emitted, accepted, lost>>

\* Mutant: a failed batch goes back to the end of the channel.
FlushFailsRequeued(committed) ==
  /\ writer = "flush" /\ ~committed /\ Len(channel \o buffer) <= CHANNEL_CAPACITY
  /\ channel' = channel \o buffer
  /\ buffer' = <<>>
  /\ writer' = "select"
  /\ UNCHANGED <<graceful, app, slot, rows, metrics, emitted, accepted, stored, lost>>

\* flush, a failed first attempt; the insert may have been committed before
\* the connection broke.
FlushFails(committed) ==
  /\ writer \in {"flush", "lastflush"}
  /\ metrics' = [metrics EXCEPT !.flush_count = @ + 1]
  /\ rows' = IF committed THEN rows \o buffer ELSE rows
  /\ writer' = IF writer = "flush" THEN "retry" ELSE "lastretry"
  /\ UNCHANGED <<graceful, app, slot, channel, buffer, emitted, accepted, stored, lost>>

\* Mutant: the batch is given up without being counted.
RetryFailsUncounted(committed) ==
  /\ writer \in {"retry", "lastretry"}
  /\ rows' = IF committed THEN rows \o buffer ELSE rows
  /\ metrics' = [metrics EXCEPT !.flush_errors = @ + 1, !.queue_depth = 0]
  /\ buffer' = <<>>
  /\ writer' = AfterFlush(writer)
  /\ UNCHANGED <<graceful, app, slot, channel, emitted, accepted, stored, lost>>

\* flush, the retry failed too: the batch is dropped and counted.
RetryFails(committed) ==
  /\ writer \in {"retry", "lastretry"}
  /\ rows' = IF committed THEN rows \o buffer ELSE rows
  /\ metrics' = [metrics EXCEPT !.entries_dropped = @ + Len(buffer),
                                !.flush_errors = @ + 1, !.queue_depth = 0]
  /\ lost' = lost \cup Range(buffer)
  /\ buffer' = <<>>
  /\ writer' = AfterFlush(writer)
  /\ UNCHANGED <<graceful, app, slot, channel, emitted, accepted, stored>>

(***************************************************************************)
(* The end of the application.                                             *)
(***************************************************************************)
\* LogGuard::shutdown, step by step.
ClearSlot ==
  /\ graceful /\ app = "running"
  /\ app' = "clearing" /\ slot' = FALSE
  /\ UNCHANGED <<graceful, channel, buffer, writer, rows, metrics, emitted, accepted, stored, lost>>

DropSender ==
  /\ app = "clearing"
  /\ app' = "waiting"
  /\ UNCHANGED <<graceful, slot, channel, buffer, writer, rows, metrics, emitted, accepted, stored, lost>>

WriterJoined ==
  /\ app = "waiting" /\ writer \in {"none", "done"}
  /\ app' = "exited"
  /\ UNCHANGED <<graceful, slot, channel, buffer, writer, rows, metrics, emitted, accepted, stored, lost>>

\* main returns with the guard merely dropped: the runtime goes away and the
\* writer task with it, whatever it was doing.
ExitWithoutShutdown ==
  /\ ~graceful /\ app = "running"
  /\ app' = "exited" /\ slot' = FALSE /\ writer' = "done"
  /\ UNCHANGED <<graceful, channel, buffer, rows, metrics, emitted, accepted, stored, lost>>

Done == app = "exited" /\ UNCHANGED vars

WriterStep ==
  \/ Receive \/ Tick \/ ChannelClosed \/ FlushOk
  \/ \E committed \in BOOLEAN : FlushFails(committed) \/ RetryFails(committed)

AppStep ==
  InitDb \/ InitConsoleOnly \/ OnEvent \/ ClearSlot \/ DropSender \/ WriterJoined
  \/ ExitWithoutShutdown

Next == AppStep \/ WriterStep \/ Done

\* The runtime polls the writer, the 500 ms interval fires, a statement
\* returns (the pool's waits time out); shutdown proceeds once begun.
Fairness == WF_vars(WriterStep) /\ WF_vars(DropSender) /\ WF_vars(WriterJoined)

Spec == Init /\ [][Next]_vars /\ Fairness

-----------------------------------------------------------------------------
(***************************************************************************)
(* Properties.                                                             *)
(***************************************************************************)
\* The pipeline's state is well-formed and within its limits.
TypeOK ==
  /\ app \in {"starting", "running", "clearing", "waiting", "exited"}
  /\ slot \in BOOLEAN /\ graceful \in BOOLEAN
  /\ channel \in Seq(1..MaxEvents) /\ Len(channel) <= CHANNEL_CAPACITY
  /\ buffer \in Seq(1..MaxEvents) /\ Len(buffer) <= BATCH_SIZE
  /\ writer \in {"none", "select", "flush", "retry", "lastflush", "lastretry", "done"}
  /\ rows \in Seq(1..MaxEvents)
  /\ emitted \in 0..MaxEvents
  /\ metrics \in [DOMAIN NoMetrics -> Nat]

\* No accepted entry disappears: each is in the channel, in the batch, or in
\* exactly one of the two counters, entries_written and entries_dropped,
\* whatever the database did and however the task was interleaved.
EntriesAccounted ==
  /\ accepted \ (stored \cup lost) = Range(channel) \cup Range(buffer)
  /\ stored \cap lost = {}
  /\ Cardinality(stored) = metrics.entries_written
  /\ Cardinality(lost) = metrics.entries_dropped

\* Emitted with no sender there to take them: on_event discards such entries
\* and no counter has them, entries_dropped included.
Discarded == (1..emitted) \ (accepted \cup lost)

\* What no counter has was emitted with the sender gone, after every entry that
\* was taken or counted.
DiscardedLast ==
  /\ Discarded # {} => ~slot
  /\ \A e \in Discarded, taken \in accepted \cup lost : taken < e

\* What entries_written counts is in the table, and the table's rows are, but
\* for the repetition of a whole batch by the retry, in emission order.
StoredInOrder ==
  /\ stored \subseteq Range(rows)
  /\ \A i, j \in DOMAIN rows :
       i < j /\ rows[i] > rows[j] => \E k \in 1..(j - 1) : rows[k] = rows[j]

\* A pipeline that has lost entries and written none reports "failing".
LossIsReported ==
  metrics.entries_dropped > 0 /\ metrics.entries_written = 0 => status(metrics) = "failing"

\* LogGuard::shutdown flushes all remaining entries: an application that
\* calls it has, at exit, nothing left in the channel or the batch.
ShutdownDrains ==
  app = "exited" /\ graceful => channel = <<>> /\ buffer = <<>>

\* As long as the DbLayer has its sender the pipeline loses nothing in silence:
\* its state is well-formed, every entry emitted with it is queued or in one of
\* the counters, a loss shows in the status, and a shutdown that was asked for
\* leaves nothing behind.
PipelineHonest ==
  TypeOK /\ EntriesAccounted /\ DiscardedLast /\ LossIsReported /\ ShutdownDrains

\* Unless the process just ends, every accepted entry leaves the pipeline,
\* written or counted as dropped, and a shutdown that begins ends.
EntriesLeave ==
  /\ \A e \in 1..MaxEvents :
       (e \in accepted) ~> (e \in stored \cup lost \/ (app = "exited" /\ ~graceful))
  /\ (app = "clearing") ~> (app = "exited")

=============================================================================
