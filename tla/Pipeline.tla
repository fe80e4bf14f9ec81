------------------------------ MODULE Pipeline -------------------------------
(***************************************************************************)
(* The node's source-to-sink pipeline (connectforge-node main.rs): the     *)
(* `serve` supervisor and the `demo` command, over SourceRuntime,          *)
(* GeneratorSource, SinkRuntime, FailingSink, the in-memory checkpoint and *)
(* dead-letter stores and the ConnectorRegistry that GraphQL queries read. *)
(*                                                                         *)
(* One task drives everything; producers append to the same partition      *)
(* through the API at any time, file operations fail and the process may   *)
(* be restarted.  The partition is the sequence of all it was given, the   *)
(* number of a source record or Client for a record of another producer,   *)
(* and the head that retention has moved over it.  A failed append is a    *)
(* clean prefix here, and a file that could not be removed does not come   *)
(* back with a restart: FileLogStore has these.                            *)
(***************************************************************************)
EXTENDS Integers, Sequences, FiniteSets

CONSTANTS
    PollSize,     \* batch_size of the GeneratorSource
    Total,        \* total of the demo's GeneratorSource, and bound of the serve one
    FailEvery,    \* FailingSink.fail_every
    BatchSize,    \* SinkConfig.batch_size
    Bounds,       \* values of the topic's retention.max_records
    MaxClient,    \* bound: records of other producers
    MaxFaults,    \* bound: errors of file operations and of create_topic
    MaxCrashes    \* bound: process restarts

ASSUME PipelineAssumption ==
    /\ PollSize \in Nat \ {0}
    /\ {Total, FailEvery, BatchSize, MaxClient, MaxFaults, MaxCrashes} \subseteq Nat
    /\ Bounds \subseteq Nat

VARIABLES
    command,      \* "serve" or "demo"
    dataDir,      \* is the log in files (--data-dir) or in memory?
    max_records,  \* retention.max_records: the default, or that of an older topic
    sup,          \* where the driving task is
    topic,        \* does the topic exist?
    content,      \* what was ever stored in the partition
    head,         \* its start_offset: what lies before it is pruned
    clients,      \* records other producers appended
    remaining,    \* GeneratorSource.remaining
    counter,      \* RecordGenerator.counter
    batch,        \* polled records not yet appended
    produced,     \* SourceRuntime.produced
    registry      \* ConnectorRegistry: statuses by connector, dead letters

\* The sink's side, under the names SinkRuntime gives it.
VARIABLES ckpt, cursor, task, delivered, redelivered, dlq, processed, dead, faults, crashes

T == "supervisor"
S == INSTANCE SinkRuntime WITH
        Runners <- {T}, Observers <- {}, Guarantee <- "AtLeastOnce", MaxAttempts <- 3,
        LostAcks <- FALSE, Retention <- TRUE, DurableCheckpoints <- FALSE,
        DurableDlq <- FALSE, MaxOffset <- Total + MaxClient,
        logStart <- head, logNext <- Len(content)

sinkVars == <<ckpt, cursor, task, delivered, redelivered, dlq, processed, dead, faults, crashes>>
sourceVars == <<remaining, counter, batch, produced>>
logVars == <<topic, content, head, clients>>
setting == <<command, dataDir, max_records>>
vars == <<setting, sup, logVars, sourceVars, registry, sinkVars>>

Client == 0
\* ConnectorStatus; a connector not yet reported stands as NoStatus.
Status(done, failed, next) ==
    [running |-> TRUE, processed |-> done, dead_lettered |-> failed, checkpoint |-> next]
NoStatus == [Status(0, 0, 0) EXCEPT !.running = FALSE]
EmptyRegistry == [source |-> NoStatus, sink |-> NoStatus, dead_letters |-> {}]

NewGenerator(left, made) == left = Total /\ made = 0
NewSourceRuntime(polled, stored) == polled = <<>> /\ stored = 0

\* MemoryCheckpointStore and MemoryDeadLetterSink start empty in every process.
NewMemoryStores(next, letters) == next = 0 /\ letters = {}

Init ==
    /\ command \in {"serve", "demo"}
    /\ dataDir \in BOOLEAN
    /\ max_records \in Bounds
    /\ sup = "create"
    /\ topic = FALSE
    /\ content = <<>>
    /\ head = 0
    /\ clients = 0
    /\ NewGenerator(remaining, counter)
    /\ NewSourceRuntime(batch, produced)
    /\ NewMemoryStores(ckpt, dlq)
    /\ registry = EmptyRegistry
    /\ S!Init

Error == faults < MaxFaults /\ faults' = faults + 1
NoError == UNCHANGED faults

\* anyhow's `?`: the supervisor returns and is not started again; demo exits.
Stop == sup' = "stopped"

(***************************************************************************)
(* Where the two commands differ: serve goes on after a failed create, and *)
(* alternates one poll of the source with emptying the log into the sink   *)
(* for ever; demo stops, and otherwise empties the source, then the log,   *)
(* and ends.                                                               *)
(***************************************************************************)
AfterCreateError == IF command = "serve" THEN "poll" ELSE "stopped"

\* Deviation: demo, too, goes on with the sink after one batch.
AfterBatch_OnePoll == "sink"
AfterBatch == IF command = "demo" THEN "poll" ELSE "sink"
AfterSink == IF command = "demo" THEN "done" ELSE "source"

-----------------------------------------------------------------------------
(* create_topic                                                            *)

\* A topic kept from an earlier life is an error too.  A timed-out create may
\* take effect.
CreateTopic ==
    /\ sup = "create"
    /\ \/ /\ ~topic /\ topic' = TRUE /\ NoError
          /\ sup' = "poll"
       \/ /\ \/ topic /\ topic' = topic /\ NoError
             \/ ~topic /\ topic' \in BOOLEAN /\ Error
          /\ sup' = AfterCreateError
    /\ UNCHANGED <<setting, content, head, clients, sourceVars, registry,
                   ckpt, cursor, task, delivered, redelivered, dlq, processed, dead, crashes>>

-----------------------------------------------------------------------------
(* SourceRuntime::run_once over a GeneratorSource                          *)

Take == S!Min2(remaining, PollSize)

\* next_record numbers the records it makes; their keys and padding do not matter.
NextRecords(n) == [i \in 1 .. n |-> counter + i]

\* The source advances here, before anything is stored.  No record: go on with
\* the sink.
Poll ==
    /\ sup = "poll"
    /\ remaining' = remaining - Take
    /\ counter' = counter + Take
    /\ batch' = NextRecords(Take)
    /\ sup' = IF Take = 0 THEN "sink" ELSE "append"
    /\ UNCHANGED <<setting, logVars, produced, registry, sinkVars>>

\* The heads that retention may leave behind an append up to offset next: the store
\* in memory prunes to the bound, the one in files by whole segments; neither
\* removes the last record.
Heads(next) ==
    {h \in head .. next : h > head => /\ Len(content) < next /\ h < next
                                     /\ max_records # 0 /\ next - head > max_records}

\* The first n records of the batch are stored, and retention follows the last one.
StorePrefix(n) ==
    /\ content' = content \o SubSeq(batch, 1, n)
    /\ head' \in IF n = Len(batch) THEN Heads(Len(content) + n) ELSE {head}

AppendBatch ==
    /\ sup = "append"
    /\ topic
    /\ StorePrefix(Len(batch))
    /\ batch' = <<>>
    /\ produced' = produced + Len(batch)
    /\ sup' = AfterBatch
    /\ UNCHANGED <<setting, topic, clients, remaining, counter, registry, sinkVars>>

\* Deviation: the supervisor logs the error and polls again.
AppendFails_GoesOn ==
    /\ sup = "append"
    /\ dataDir /\ Error
    /\ batch' = <<>>
    /\ sup' = "poll"
    /\ UNCHANGED <<setting, logVars, remaining, counter, produced, registry,
                   ckpt, cursor, task, delivered, redelivered, dlq, processed, dead, crashes>>

\* The topic is missing, or a file operation fails after part of the batch or in
\* retention.
AppendFails ==
    /\ sup = "append"
    /\ IF topic
       THEN /\ dataDir /\ Error
            /\ \E n \in 0 .. Len(batch) : StorePrefix(n)
       ELSE UNCHANGED <<faults, content, head>>
    /\ batch' = <<>>
    /\ Stop
    /\ UNCHANGED <<setting, topic, clients, remaining, counter, produced, registry,
                   ckpt, cursor, task, delivered, redelivered, dlq, processed, dead, crashes>>

-----------------------------------------------------------------------------
(* while sink_rt.run_once().await?.polled > 0 {}                           *)

\* FailingSink: the error is permanent, so the record is not tried again.
Poison(o) == FailEvery # 0 /\ o % FailEvery = 0

SinkDelivers ==
    /\ ~Poison(task[T].pos)
    /\ S!Deliver(T)

SinkRejects ==
    /\ Poison(task[T].pos)
    /\ S!DeliverFails(T)
    /\ task'[T].pc = "dead"

\* The stores in memory: each call is one step and cannot fail.
MemoryLoad == S!LoadCheckpoint(T)
MemorySave == S!SaveCheckpoint(T)
MemoryDeadLetter == S!DeadLetter(T)

SinkStep ==
    /\ UNCHANGED <<setting, logVars, sourceVars, registry>>
    /\ sup = "sink"
    /\ sup' = sup
    /\ \/ S!RunOnce(T)
       \/ MemoryLoad
       \/ S!CacheCheckpoint(T)
       \/ S!FetchBatch(T)
       \/ SinkDelivers
       \/ SinkRejects
       \/ MemoryDeadLetter
       \/ MemorySave
       \/ S!AdvanceCursor(T)

\* polled = 0: the loop ends.
SinkIdle ==
    /\ UNCHANGED <<setting, logVars, sourceVars, registry>>
    /\ sup = "sink"
    /\ S!FetchNothing(T)
    /\ sup' = AfterSink

\* The checkpoints and dead letters are in memory: only the fetch can fail.
SinkFails ==
    /\ UNCHANGED <<setting, logVars, sourceVars, registry>>
    /\ sup = "sink"
    /\ dataDir
    /\ task[T].pc = "fetch"
    /\ S!PortError(T)
    /\ Stop

-----------------------------------------------------------------------------
(* The registry, one call after the other                                  *)

UpsertStatus(connector, status) == registry' = [registry EXCEPT ![connector] = status]
SetDeadLetters(records) == registry' = [registry EXCEPT !.dead_letters = records]

PublishSource ==
    /\ sup = "source"
    /\ UpsertStatus("source", Status(produced, 0, 0))
    /\ sup' = "status"
    /\ UNCHANGED <<setting, logVars, sourceVars, sinkVars>>

\* Deviation: the sink's checkpoint is left out, as the source's is.
PublishSink_NoCheckpoint ==
    /\ sup = "status"
    /\ UpsertStatus("sink", Status(processed, dead, 0))
    /\ sup' = "dead"
    /\ UNCHANGED <<setting, logVars, sourceVars, sinkVars>>

\* status(): the cursor is cached since the loop before.
PublishSink ==
    /\ sup = "status"
    /\ UpsertStatus("sink", Status(processed, dead, cursor))
    /\ sup' = "dead"
    /\ UNCHANGED <<setting, logVars, sourceVars, sinkVars>>

\* Deviation: the snapshot is taken only when the queue is empty.
PublishDead_Never ==
    /\ sup = "dead"
    /\ sup' = "poll"
    /\ UNCHANGED <<setting, logVars, sourceVars, registry, sinkVars>>

\* set_dead_letters(dlq.records()), and the sleep before the next round.
PublishDead ==
    /\ sup = "dead"
    /\ SetDeadLetters(dlq)
    /\ sup' = "poll"
    /\ UNCHANGED <<setting, logVars, sourceVars, sinkVars>>

-----------------------------------------------------------------------------
(* The API: connectors, deadLetters and produce                            *)

connectors == [c \in {"source", "sink"} |-> registry[c]]
dead_letters == registry.dead_letters

\* The produce mutation of an API client; only `serve` has an API.
ClientProduce ==
    /\ command = "serve" /\ topic
    /\ clients < MaxClient
    /\ clients' = clients + 1
    /\ content' = Append(content, Client)
    /\ head' \in Heads(Len(content) + 1)
    /\ UNCHANGED <<setting, sup, topic, sourceVars, registry, sinkVars>>

\* The process ends, perhaps in the middle of an append, and is started again:
\* everything but a log in files is gone.
Crash ==
    /\ crashes < MaxCrashes
    /\ crashes' = crashes + 1
    /\ IF dataDir
       THEN /\ topic' = topic
            /\ \E n \in 0 .. (IF topic THEN Len(batch) ELSE 0) : StorePrefix(n)
       ELSE topic' = FALSE /\ content' = <<>> /\ head' = 0
    /\ sup' = "create"
    /\ NewGenerator(remaining', counter')
    /\ NewSourceRuntime(batch', produced')
    /\ NewMemoryStores(ckpt', dlq')
    /\ registry' = EmptyRegistry
    /\ cursor' = S!Unset /\ task' = [task EXCEPT ![T] = S!Idle]
    /\ delivered' = {} /\ redelivered' = {}
    /\ processed' = 0 /\ dead' = 0
    /\ UNCHANGED <<setting, clients, faults>>

Supervise ==
    \/ CreateTopic \/ Poll \/ AppendBatch \/ AppendFails
    \/ SinkStep \/ SinkIdle \/ SinkFails
    \/ PublishSource \/ PublishSink \/ PublishDead

Next == Supervise \/ ClientProduce \/ Crash

Spec == Init /\ [][Next]_vars

\* The executor polls the one task that drives the pipeline, and its sleeps end.
FairSpec == Spec /\ WF_vars(Supervise)

-----------------------------------------------------------------------------
(* Properties                                                              *)

IsSource(i) == content[i] # Client
InLog == Cardinality({i \in DOMAIN content : IsSource(i)})

\* The partition follows the source without a gap: before every source record
\* comes the one the generator made before it, other producers' records,
\* failed appends and restarts (which begin again at 1) notwithstanding.  It
\* holds because an append that fails ends the supervisor.
LogFollowsSource ==
    \A i \in DOMAIN content : content[i] > 1 =>
        \E j \in 1 .. i - 1 : /\ content[j] = content[i] - 1
                              /\ \A k \in j + 1 .. i - 1 : ~IsSource(k)

HandledBelow(n) == {o \in S!Handled : o < n}

\* What the connectors query shows is true: a source never reports more than was
\* stored, the sink's checkpoint lies within the log, the sink's counters are those
\* of the records below it that were delivered or dead-lettered, and whatever else
\* lies below it was pruned.
StatusTruthful ==
    LET sink == connectors["sink"]
    IN
    /\ connectors["source"].processed <= InLog
    /\ sink.checkpoint <= Len(content)
    /\ sink.processed + sink.dead_lettered = Cardinality(HandledBelow(sink.checkpoint))
    /\ \A o \in 0 .. sink.checkpoint - 1 : S!Settled(o)

\* What the deadLetters query shows never runs ahead of the status shown with
\* it, and between two rounds is exactly the poison records below the shown
\* checkpoint, those that were pruned before the sink read them apart.
DeadLettersShown ==
    LET shown == {e.offset : e \in dead_letters}
        expected == {o \in HandledBelow(connectors["sink"].checkpoint) : Poison(o)}
    IN
    /\ shown \subseteq expected
    /\ sup = "poll" => shown = expected

\* Between two restarts no record is delivered or dead-lettered twice: any error
\* that could repeat a batch ends the pipeline instead.
DeliveredOnce ==
    /\ redelivered = {}
    /\ processed = Cardinality(delivered) /\ dead = Cardinality(dlq)

\* A demo that ends normally has sourced everything it was asked for, and the
\* counts it prints add up to what retention left of that: to all of it, unless
\* more was asked for than the topic keeps.
DemoComplete ==
    sup = "done" => /\ produced = Total
                    /\ processed + dead = produced - head
                    /\ S!Handled = head .. Total - 1
                    /\ head > 0 => 0 < max_records /\ max_records < Total

\* Every stored record, whoever produced it, is delivered, dead-lettered or pruned,
\* unless an error has stopped the supervisor or a restart has emptied the log.
StoredIsHandled ==
    \A o \in 0 .. Total + MaxClient - 1 :
        o < Len(content) ~> (S!Settled(o) \/ o >= Len(content) \/ sup = "stopped")

=============================================================================
