----------------------------- MODULE SinkRuntime -----------------------------
(***************************************************************************)
(* The sink connector runtime of connectforge-core (connector.rs): the     *)
(* delivery protocol of one connector over one (topic, partition).         *)
(*                                                                         *)
(* Tasks call `run_once` and `status` on one shared SinkRuntime.  Every    *)
(* await of the code ends an action, so tasks interleave exactly where the *)
(* executor may switch between them, and a crash may fall between any two  *)
(* steps.  The ports (log store, sink, checkpoint store, dead-letter sink) *)
(* are seen through what `run_once` relies on:                             *)
(*   - the log is the interval logStart .. logNext-1 of retained offsets;  *)
(*   - the checkpoint store is one offset, 0 standing for "no entry",      *)
(*     which is how `load(..).unwrap_or(Offset::ZERO)` reads it;           *)
(*   - the external sink is the set of offsets whose delivery took effect. *)
(***************************************************************************)
EXTENDS Integers

CONSTANTS
    Runners,            \* tasks that call run_once (and status) on the runtime
    Observers,          \* tasks that only call status
    Guarantee,          \* SinkConfig.guarantee
    MaxAttempts,        \* SinkConfig.max_attempts
    BatchSize,          \* SinkConfig.batch_size
    LostAcks,           \* may a delivery take effect and still report an error?
    Retention,          \* does the store prune the head of the partition?
    DurableCheckpoints, \* FileCheckpointStore (TRUE) or MemoryCheckpointStore
    DurableDlq,         \* does the dead-letter sink survive a restart?
    MaxOffset,          \* bound: records ever appended
    MaxFaults,          \* bound: errors returned by load, fetch, save, dead_letter
    MaxCrashes          \* bound: process restarts

AtLeastOnce == "AtLeastOnce"
AtMostOnce == "AtMostOnce"

ASSUME ConfigAssumption ==
    /\ Guarantee \in {AtLeastOnce, AtMostOnce}
    /\ MaxAttempts \in Nat
    /\ BatchSize \in Nat
    /\ LostAcks \in BOOLEAN
    /\ Retention \in BOOLEAN
    /\ DurableCheckpoints \in BOOLEAN
    /\ DurableDlq \in BOOLEAN

ASSUME BoundAssumption ==
    /\ MaxOffset \in Nat
    /\ MaxFaults \in Nat
    /\ MaxCrashes \in Nat

VARIABLES
    logStart,     \* earliest retained offset of the partition
    logNext,      \* high watermark: the next offset the log assigns
    ckpt,         \* the checkpoint store's next offset
    cursor,       \* SinkRuntime.cursor, the cached checkpoint
    task,         \* where each task is inside run_once or status
    delivered,    \* offsets whose delivery took effect in the external sink
    redelivered,  \* offsets whose delivery took effect more than once
    dlq,          \* the dead-letter queue, as a set of [offset, attempts]
    processed,    \* SinkRuntime.processed
    dead,         \* SinkRuntime.dead
    faults,       \* port errors so far
    crashes       \* restarts so far

log == <<logStart, logNext>>
effects == <<delivered, redelivered, dlq>>
counters == <<processed, dead>>
budget == <<faults, crashes>>
vars == <<log, ckpt, cursor, task, effects, counters, budget>>

Tasks == Runners \cup Observers

\* cursor: Mutex<Option<Offset>> holding None
Unset == -1

\* config.max_attempts.max(1)
Attempts == IF MaxAttempts = 0 THEN 1 ELSE MaxAttempts

Max2(a, b) == IF a >= b THEN a ELSE b
Min2(a, b) == IF a <= b THEN a ELSE b

(***************************************************************************)
(* The local state of a task: the await it is at; from, the offset         *)
(* resolve_checkpoint returned; pos and next, the record being delivered   *)
(* and the end of the batch; attempt, the delivery attempts that failed on *)
(* that record.                                                            *)
(***************************************************************************)
PCs == {"idle", "load", "loaded", "fetch", "save", "saved", "deliver", "dead",
        "statusLoad", "statusLoaded"}

Idle == [pc |-> "idle", from |-> 0, pos |-> 0, next |-> 0, attempt |-> 0]

Goto(t, label) == task' = [task EXCEPT ![t].pc = label]
Return(t) == task' = [task EXCEPT ![t] = Idle]

Init ==
    /\ logStart = 0
    /\ logNext = 0
    /\ ckpt = 0
    /\ cursor = Unset
    /\ task = [t \in Tasks |-> Idle]
    /\ delivered = {}
    /\ redelivered = {}
    /\ dlq = {}
    /\ processed = 0
    /\ dead = 0
    /\ faults = 0
    /\ crashes = 0

-----------------------------------------------------------------------------
(* resolve_checkpoint: a cached cursor is returned at once; otherwise the  *)
(* store is read, and the value read is cached in a later step.            *)

RunOnce(t) ==
    /\ t \in Runners
    /\ task[t].pc = "idle"
    /\ \/ /\ cursor # Unset
          /\ task' = [task EXCEPT ![t].pc = "fetch", ![t].from = cursor]
       \/ /\ cursor = Unset
          /\ Goto(t, "load")
    /\ UNCHANGED <<log, ckpt, cursor, effects, counters, budget>>

\* status() with a cached cursor reads and changes nothing.
Status(t) ==
    /\ task[t].pc = "idle"
    /\ cursor = Unset
    /\ Goto(t, "statusLoad")
    /\ UNCHANGED <<log, ckpt, cursor, effects, counters, budget>>

\* Deviation: with no saved checkpoint, start at the high watermark.
LoadCheckpoint_FromLatest(t) ==
    /\ task[t].pc = "load"
    /\ task' = [task EXCEPT ![t].pc = "loaded",
                            ![t].from = IF ckpt = 0 THEN logNext ELSE ckpt]
    /\ UNCHANGED <<log, ckpt, cursor, effects, counters, budget>>

LoadCheckpoint(t) ==
    /\ \/ /\ task[t].pc = "load"
          /\ task' = [task EXCEPT ![t].pc = "loaded", ![t].from = ckpt]
       \/ /\ task[t].pc = "statusLoad"
          /\ task' = [task EXCEPT ![t].pc = "statusLoaded", ![t].from = ckpt]
    /\ UNCHANGED <<log, ckpt, cursor, effects, counters, budget>>

CacheCheckpoint(t) ==
    /\ cursor' = task[t].from
    /\ \/ task[t].pc = "loaded" /\ Goto(t, "fetch")
       \/ task[t].pc = "statusLoaded" /\ Return(t)
    /\ UNCHANGED <<log, ckpt, effects, counters, budget>>

-----------------------------------------------------------------------------
(* store.fetch(from, batch_size): the store clamps `from` forward to the   *)
(* first retained offset.                                                  *)

\* Deviation: the clamp goes one past the first retained offset.
FetchFrom_PastHead(t) == Max2(task[t].from, logStart + 1)
FetchFrom(t) == Max2(task[t].from, logStart)

\* Deviation: the last record is never returned.
FetchEnd_OffByOne(t) == Min2(FetchFrom(t) + BatchSize, logNext - 1)
FetchEnd(t) == Min2(FetchFrom(t) + BatchSize, logNext)

\* The batch is empty: run_once reports polled = 0.
FetchNothing(t) ==
    /\ task[t].pc = "fetch"
    /\ FetchEnd(t) <= FetchFrom(t)
    /\ Return(t)
    /\ UNCHANGED <<log, ckpt, cursor, effects, counters, budget>>

\* Deviation: the commit before delivery is forgotten.
AfterFetch_NoCommit == "deliver"

\* What follows a fetched batch: at-most-once commits it before delivery.
AfterFetch == IF Guarantee = AtMostOnce THEN "save" ELSE "deliver"

FetchBatch(t) ==
    /\ task[t].pc = "fetch"
    /\ FetchFrom(t) < FetchEnd(t)
    /\ task' = [task EXCEPT ![t] = [pc |-> AfterFetch, from |-> task[t].from,
                                    pos |-> FetchFrom(t), next |-> FetchEnd(t),
                                    attempt |-> 0]]
    /\ UNCHANGED <<log, ckpt, cursor, effects, counters, budget>>

-----------------------------------------------------------------------------
(* commit_checkpoint(next): the save, and then the cached cursor.          *)

SaveCheckpoint(t) ==
    /\ task[t].pc = "save"
    /\ ckpt' = task[t].next
    /\ Goto(t, "saved")
    /\ UNCHANGED <<log, cursor, effects, counters, budget>>

\* Deviation: the cached cursor is not moved.
AdvanceCursor_KeepsCursor(t) ==
    /\ task[t].pc = "saved"
    /\ \/ Guarantee = AtMostOnce /\ Goto(t, "deliver")
       \/ Guarantee = AtLeastOnce /\ Return(t)
    /\ UNCHANGED <<log, ckpt, cursor, effects, counters, budget>>

AdvanceCursor(t) ==
    /\ task[t].pc = "saved"
    /\ cursor' = task[t].next
    /\ \/ Guarantee = AtMostOnce /\ Goto(t, "deliver")
       \/ Guarantee = AtLeastOnce /\ Return(t)
    /\ UNCHANGED <<log, ckpt, effects, counters, budget>>

-----------------------------------------------------------------------------
(* The delivery loop: deliver_one retries the sink, dead_letter takes what *)
(* could not be delivered.                                                 *)

\* Deviation: the cursor moves without the checkpoint being saved.
NextRecord_CursorOnly(t) ==
    IF task[t].pos + 1 < task[t].next
    THEN task' = [task EXCEPT ![t].pc = "deliver", ![t].pos = @ + 1, ![t].attempt = 0]
    ELSE IF Guarantee = AtLeastOnce
         THEN task' = [task EXCEPT ![t].pc = "saved", ![t].attempt = 0]
         ELSE Return(t)

\* The loop goes on to the next record or, after the last, leaves the loop.
NextRecord(t) ==
    IF task[t].pos + 1 < task[t].next
    THEN task' = [task EXCEPT ![t].pc = "deliver", ![t].pos = @ + 1, ![t].attempt = 0]
    ELSE IF Guarantee = AtLeastOnce
         THEN task' = [task EXCEPT ![t].pc = "save", ![t].attempt = 0]
         ELSE Return(t)

\* The external system applies the record.
TakeEffect(o) ==
    /\ redelivered' = IF o \in delivered THEN redelivered \cup {o} ELSE redelivered
    /\ delivered' = delivered \cup {o}

Deliver(t) ==
    /\ task[t].pc = "deliver"
    /\ TakeEffect(task[t].pos)
    /\ processed' = processed + 1
    /\ NextRecord(t)
    /\ UNCHANGED <<log, ckpt, cursor, dlq, dead, budget>>

\* Deviation: the attempts of a retryable error are not bounded.
DeliverFails_Unbounded(t) ==
    /\ task[t].pc = "deliver"
    /\ \/ task' = [task EXCEPT ![t].attempt = @ + 1]
       \/ task' = [task EXCEPT ![t].attempt = @ + 1, ![t].pc = "dead"]
    /\ UNCHANGED <<log, ckpt, cursor, effects, counters, budget>>

\* retry_if: a retryable error is retried while attempts are left; the last
\* one, and any permanent error, goes to dead_letter.  Whether an error is
\* retryable is the sink's choice.
DeliverFails(t) ==
    /\ task[t].pc = "deliver"
    /\ \/ UNCHANGED <<delivered, redelivered>>
       \/ LostAcks /\ TakeEffect(task[t].pos)
    /\ \/ /\ task[t].attempt + 1 < Attempts
          /\ task' = [task EXCEPT ![t].attempt = @ + 1]
       \/ task' = [task EXCEPT ![t].attempt = @ + 1, ![t].pc = "dead"]
    /\ UNCHANGED <<log, ckpt, cursor, dlq, counters, budget>>

\* The stored record always names the configured attempt bound.
DeadLetterRecord(offset) == [offset |-> offset, attempts |-> Attempts]

DeadLetter(t) ==
    /\ task[t].pc = "dead"
    /\ dlq' = dlq \cup {DeadLetterRecord(task[t].pos)}
    /\ dead' = dead + 1
    /\ NextRecord(t)
    /\ UNCHANGED <<log, ckpt, cursor, delivered, redelivered, processed, budget>>

-----------------------------------------------------------------------------
\* Deviation: an error of the dead-letter sink is ignored and the loop goes on.
PortError_DlqIgnored(t) ==
    /\ task[t].pc \in {"load", "statusLoad", "fetch", "save", "dead"}
    /\ faults < MaxFaults
    /\ faults' = faults + 1
    /\ IF task[t].pc = "dead" THEN NextRecord(t) ELSE Return(t)
    /\ UNCHANGED <<log, ckpt, cursor, effects, counters, crashes>>

\* load, fetch, save and dead_letter are followed by `?`: an error of the
\* port has no effect and ends the call.
PortError(t) ==
    /\ task[t].pc \in {"load", "statusLoad", "fetch", "save", "dead"}
    /\ faults < MaxFaults
    /\ faults' = faults + 1
    /\ Return(t)
    /\ UNCHANGED <<log, ckpt, cursor, effects, counters, crashes>>

\* LogStore::append by any producer: one record, then retention, which never
\* removes the record just appended.
Append ==
    /\ logNext < MaxOffset
    /\ logNext' = logNext + 1
    /\ logStart' \in IF Retention THEN logStart .. logNext ELSE {logStart}
    /\ UNCHANGED <<ckpt, cursor, task, effects, counters, budget>>

\* The process stops and is started again: SinkRuntime::new over the stores.
Crash ==
    /\ crashes < MaxCrashes
    /\ crashes' = crashes + 1
    /\ task' = [t \in Tasks |-> Idle]
    /\ cursor' = Unset
    /\ ckpt' = IF DurableCheckpoints THEN ckpt ELSE 0
    /\ dlq' = IF DurableDlq THEN dlq ELSE {}
    /\ processed' = 0
    /\ dead' = 0
    /\ UNCHANGED <<log, delivered, redelivered, faults>>

\* The steps of a call in progress.
Continue(t) ==
    \/ LoadCheckpoint(t)
    \/ CacheCheckpoint(t)
    \/ FetchNothing(t)
    \/ FetchBatch(t)
    \/ SaveCheckpoint(t)
    \/ AdvanceCursor(t)
    \/ Deliver(t)
    \/ DeliverFails(t)
    \/ DeadLetter(t)
    \/ PortError(t)

Next ==
    \/ \E t \in Tasks : RunOnce(t) \/ Status(t) \/ Continue(t)
    \/ Append
    \/ Crash

Spec == Init /\ [][Next]_vars

\* The executor runs every task that can go on, and the caller of run_once
\* calls it again and again, as its documentation asks.
Fairness == \A t \in Runners : WF_vars(RunOnce(t)) /\ WF_vars(Continue(t))

FairSpec == Spec /\ Fairness

-----------------------------------------------------------------------------
(* Properties                                                              *)

\* Offsets the pipeline is done with, and those that need nothing more: done
\* with, or pruned by retention.
Handled == delivered \cup {e.offset : e \in dlq}
Settled(o) == o \in Handled \/ o < logStart

\* Types of all variables; a record is given up after at most Attempts
\* deliveries, and a task delivers only inside its batch.
TypeOK ==
    /\ logStart \in Nat
    /\ logNext \in Nat
    /\ ckpt \in Nat
    /\ cursor \in Nat \cup {Unset}
    /\ task \in [Tasks -> [pc : PCs, from : Nat, pos : Nat, next : Nat,
                           attempt : 0 .. Attempts]]
    /\ delivered \in SUBSET Nat
    /\ redelivered \in SUBSET Nat
    /\ dlq \in SUBSET [offset : Nat, attempts : {Attempts}]
    /\ processed \in Nat
    /\ dead \in Nat
    /\ faults \in 0 .. MaxFaults
    /\ crashes \in 0 .. MaxCrashes

\* At-least-once: whatever the interleaving of run_once and status calls, the
\* port errors and the crashes, every record below the saved checkpoint or the
\* cached cursor was delivered, dead-lettered or pruned by retention
\* (run_once commits only after the batch).
NoLoss ==
    Guarantee = AtLeastOnce =>
        \A o \in 0 .. Max2(ckpt, cursor) - 1 : Settled(o)

\* At-least-once: records are handled in offset order; nothing is handled while
\* an earlier retained record is not (the loop of run_once never skips).
NoGaps ==
    Guarantee = AtLeastOnce =>
        \A o \in Handled : \A p \in 0 .. o - 1 : Settled(p)

\* At-least-once with one runner: what a crash or a port error can make it handle
\* again lies within one batch of the checkpoint, or of the head of the log if
\* retention has passed that: a whole batch, when only its save is missing, and
\* never a record beyond it.
BoundedRedelivery ==
    Guarantee = AtLeastOnce =>
        \A o \in Handled : o < Max2(ckpt, logStart) + BatchSize

\* With one runner a fetch starts exactly at the saved checkpoint, after port
\* errors, crashes and status calls too: the cached cursor is never stale.
ResumesAtCheckpoint ==
    \A t \in Tasks : task[t].pc = "fetch" => task[t].from = ckpt

\* At-most-once with one runner: no record takes effect twice in the external
\* sink, whatever fails and whenever the process restarts.
NoDuplicates == redelivered = {}

\* At-most-once with one runner: a record is delivered or dead-lettered only
\* after the checkpoint beyond it is in the store.
CommitBeforeDelivery ==
    Guarantee = AtMostOnce => \A o \in Handled : o < ckpt

\* At-least-once: a run_once that reports polled = 0 has caught up, i.e. no
\* retained record is waiting to be handled.
EmptyPoll(t) == /\ task[t].pc = "fetch" /\ task'[t].pc = "idle"
                /\ UNCHANGED budget
CaughtUp ==
    [][ Guarantee = AtLeastOnce /\ (\E t \in Tasks : EmptyPoll(t))
            => \A o \in 0 .. logNext - 1 : Settled(o) ]_vars

\* At-least-once: every appended record is eventually delivered, dead-lettered
\* or pruned; one bad record never wedges the pipeline.
Drains ==
    \A o \in 0 .. MaxOffset - 1 : (o < logNext) ~> Settled(o)

=============================================================================
