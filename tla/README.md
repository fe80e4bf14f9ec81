# ConnectForge in TLA+

A verification project for ConnectForge, a connector SDK over a durable,
partitioned log: TLA+ modules translated from the Rust source, TLC runs on
small instances, and TLAPS proofs for all values of the constants.
`PROJECT.json` lists the components, the runs, the mutants (each property with
a plausible bug that breaks it), the source lines every definition stands for,
the findings, the hazards and the theorems.

## 1. The system

| Component (crate) | State it keeps | Operations | Hard because |
|---|---|---|---|
| `SinkRuntime` (core, `connector.rs`) | cached cursor, two counters | `run_once`, `status` | it reads, delivers, dead-letters and checkpoints in separate awaits; callers share the cursor; every port may fail; the process may stop anywhere |
| `LogEngine` (core, `engine.rs`) | round-robin counter, rate limiter | `create_topic`, `produce`; queries `fetch`, `topics`, `stats`, `subscribe` | check and act are different store calls; retries of an append are not idempotent; a timeout does not stop the job it waits for; append and publish are not atomic |
| `LogStore` port (core, `ports.rs`) | - | `append`, `fetch`, `create_topic`, ... | its promise is what everything else relies on |
| `FileLogStore` and `Segment` (infra) | segments, offsets and index in memory; files | `append`, `fetch`, recovery at open | crashes and I/O errors between any two file operations |
| Topics of the `FileLogStore` (infra) | map of topics; directories and `topic.json` | `create_topic`, `open`, `topics`, `stats` | a create is several file operations and undoes none of them |
| `MemoryLogStore` (infra) | vectors under one mutex | the same port | prunes record by record where the file store prunes segments |
| Checkpoint stores (infra) | map, or one file per connector and partition | `load`, `save` | temporary file and rename; shared names |
| Dead-letter sink (infra) | a list in memory | `dead_letter`, `records` | not durable |
| `BroadcastEventBus` (infra) | ring buffer | `publish`, `subscribe` | a lagging subscriber loses events |
| Sources, `SourceRuntime` (infra, core) | generator position, counter | `poll`, `run_once` | the position moves before the append |
| Supervisor and registry (node, api) | statuses, dead letters | the loop of `run_supervisor` | ends at the first error, its last status stays |
| Resilience: retry, timeout, limiter, breaker, bulkhead | tokens; breaker state and counters | `retry_if`, `with_timeout`, `try_acquire_n`, `acquire`, ... | concurrent callers, late outcomes, clocks |
| GraphQL API, HTTP server, configuration | - | translate calls | - |

How they interact: GraphQL mutations call `LogEngine::create_topic` and
`produce`, which call the `LogStore` under a timeout and retries and publish on
the `EventBus`. The supervisor alternates `SourceRuntime::run_once` (poll, then
`LogStore::append` directly, bypassing the engine) and `SinkRuntime::run_once`,
which fetches from the same `LogStore`, delivers through a `Sink`, dead-letters
through a `DeadLetterSink` and saves its position in a `CheckpointStore`; it
then copies statuses and dead letters into the registry.

What makes each part correct:

- sink runtime: at-least-once never loses and never skips, at-most-once never
  repeats, a restart resumes at the checkpoint, one bad record never stops the rest;
- log store: dense offsets, no offset reused, acknowledged records stay until
  retention removes them, `fetch` returns exactly the retained slice, through
  crashes and recovery;
- engine: answers, stored records and published events agree; one creator per
  topic; limits hold; every call returns;
- checkpoint file: always the old or the new offset, whatever interrupts a save;
- topics: an acknowledged topic keeps its settings and its records, and what a failed create
  left behind never changes or hides another;
- pipeline: the log follows the source without gaps, what queries show is true of the log, every
  stored record is handled, or the supervisor has stopped;
- event bus: tailing with `fetch` is ordered and complete although events are neither, and
  lost events are counted.

The hazards behind these properties, each at its source line, are in
`PROJECT.json`.

## 2. Modules

### SinkRuntime (`SinkRuntime.tla`, `MCSinkRuntime.tla`)

The delivery protocol of one connector over one partition. `task[t].pc` is the
await a caller of `run_once` or `status` stands at; every await of the code ends
an action.

| Action | Code in `connector.rs` |
|---|---|
| `RunOnce`, `Status` | the call; `resolve_checkpoint` returns a cached cursor at once |
| `LoadCheckpoint`, `CacheCheckpoint` | `resolve_checkpoint`: load with the cursor unlocked, then overwrite it |
| `FetchNothing`, `FetchBatch` | `store.fetch`, early return with `polled = 0`, and for at-most-once the commit that follows |
| `SaveCheckpoint`, `AdvanceCursor` | `commit_checkpoint`: `save`, then the cached cursor |
| `Deliver`, `DeliverFails` | `deliver_one` with `retry_if`: success, retryable error with attempts left, final or permanent error |
| `DeadLetter` | `dead_letter` and the `dead` counter |
| `PortError` | an error of load, fetch, save or dead_letter, which `?` returns |
| `Append`, `Crash` | producers and retention; the end of the process and `SinkRuntime::new` |

The ports are constants of the instance: `LostAcks` (a delivery may take effect
and still report an error), `Retention`, `DurableCheckpoints` and `DurableDlq`
(what survives a restart). Payloads, failure texts, timestamps, backoff times and
metrics are left out.

### CommitLog and FileLogStore (`CommitLog.tla`, `FileLogStore.tla`, `MCFileLogStore.tla`)

`CommitLog` is what one partition of a `LogStore` promises: `head`, `next` and the
retained records; an append adds a record at `next`, `Prune` removes a head while
more than `MaxRecords` are retained, and `FetchOutcome(from, max)` is what `fetch` returns:
the retained slice, the offset to go on from and the high watermark.

`FileLogStore` is one partition as `filestore.rs` and `segment.rs` implement it:
`disk` (base offset -> frames), the segments and offsets in memory, the
`BufWriter` content left by a failed flush (`pending`), and the append that holds
the mutex, one file operation per action (`CreateSegment`, `WriteRecord`,
`RemoveHead`, their failures, `FinishAppend`). A write fails in two ways: the frame of a small record stays in the
`BufWriter`, that of a large one (8 KiB or more goes past it) may be cut short in the file. `IoFaults` says which of
`"create"`, `"write"`, `"partial"` and `"remove"` may happen. `Crash` may fall between any two
and may leave a torn frame; `Recover` is `recover_partition`, which cuts a file off at the first frame that does not decode. A crash is the end
of the process, not of the machine: what was flushed stays. Frames have one size,
so byte positions are frame counts. `Fetch` is the loop of `fetch` over the segments as a recursive function:
`Collected(from, max)[b]` is what the loop has when it is through with the segment at `b`. The refinement mapping reads head, next and
records off the directory alone: nothing in memory may be needed to know what the
log is.

### MemoryLogStore (`MemoryLogStore.tla`, `MCMemoryLogStore.tla`)

One partition of the in-memory backend of `memstore.rs`. The mutex is held for a whole
append, so nothing is seen of it in between; the actions are the iterations of its loops:
`BeginAppend` (the batch with its offsets), `PushRecord` (rolling the segment counter),
`RemoveFirst` (one step of retention), `FinishAppend` (the produced counter, the unlock).
It maps to the same `CommitLog` as the file store. The filter and the `take` of `fetch` are `TakeFirst`: the first `max` of the
places that pass.

### LogEngine (`LogEngine.tla`, `MCLogEngine.tla`)

`create_topic` and `produce` called by concurrent clients.

| Action | Code in `engine.rs` (and what it calls) |
|---|---|
| `CreateTopic`, `ListTopics`, `CreateInStore`, `PublishCreated` | `create_topic`: default partitions, the capacity test, the store call, the event |
| `Produce`, `RefuseProduce`, `Refill` | the checks before the first await, with the token bucket of `limiter.rs` |
| `CountPartitions` | `partition_count` and `route` |
| `AppendToStore`, `PublishAppended`, `PublishTruncated` | the append and its two events |
| `StoreError`, `StorePermanentError`, `StoreTimeout` | `store_call`: one timeout around `retry_if` |
| `LateJob` | a job `FileLogStore::blocking` left in `spawn_blocking` when the caller timed out |

A failing append may have stored a prefix of its batch, as
`PartitionState::append_records` does, and may have left the frame it failed on in the
`BufWriter`: the next append then writes that frame in front of its own first record, under the same offset (`shadow`). The store is otherwise `CommitLog`-like:
where retention puts the head, or whether it moves it at all, is its choice. It may also never answer.
The partial frame of a large write, and what `open` makes of it, are `FileLogStore`'s. Tokens are whole; time adds them one
by one. Records are the request they belong to and their index in it.

### FileCheckpointStore and CheckpointedSink

`FileCheckpointStore` is the file of one key of `checkpoint.rs` and its temporary file. A save is
`OpenTmp` (open with truncation), `WriteTmp` and `Rename`, or `SaveError` at any of them; a saver keeps
the file it opened when another renames it. A file holds the digits of a number in base `Radix`, so that an empty
file, a leading zero and digits of two numbers can be told from a checkpoint. `CheckpointedSink` composes it with the
actions of `SinkRuntime`: load and save of the runtime are the file operations, everything else is the runtime's own step.
The refinement mapping is `ckpt <- Loaded`, what `load` would return.

### TopicCatalogue

`create_topic` of `filestore.rs` one file operation at a time (`MakeDir`, `OpenMeta`, `WriteMeta`, `MakePartition`,
`InsertTopic`, or `CreateError`), appends with their retention (`AppendRecord`), which may fail in the middle of a batch (`AppendFails`) or in retention (`RetentionFails`),
`Crash`, and `open` (`Open`, `SkipEntry`, `RecoverTopic`, `OpenFails`,
`Opened`). A configuration is its number of partitions; a partition is its two offsets, in memory and on disk, and whether a write has failed in it
(`hurt`: what its files then hold is `FileLogStore`'s matter) or a removal (`stuck`). `StoreTopics`, `FindTopic` and `Stats` are the queries.

### Pipeline

The node: `run_supervisor` and `demo` of `main.rs` over `GeneratorSource`, `SourceRuntime`, `SinkRuntime`
(instantiated, with the in-memory checkpoints and dead letters and the `FailingSink` they are given), and the
`ConnectorRegistry` behind the `connectors` and `deadLetters` queries. `sup` is where the driving task stands.

| Action | Code |
|---|---|
| `CreateTopic` | `engine.create_topic`, whose error `serve` ignores and `demo` returns |
| `Poll`, `AppendBatch`, `AppendFails` | `SourceRuntime::run_once`: the source advances, the append succeeds, or fails after a prefix |
| `SinkStep`, `SinkIdle`, `SinkFails` | `while sink_rt.run_once().await?.polled > 0 {}` |
| `PublishSource`, `PublishSink`, `PublishDead` | the three registry calls |
| `ClientProduce`, `Crash` | the `produce` mutation, the end of the process and a new start |

The partition is a sequence of source record numbers and records of other producers, and the head that retention has moved over it: after an
append that leaves more than `max_records`, to anywhere before the last record (the store in memory prunes to the bound, the one in files by segments). Both commands, both
backends (`--data-dir` or memory) and the bounds of a set `Bounds` (the default, or those of a topic that was there before) are initial states. An append that fails is a clean prefix here,
and a file that could not be removed does not come back with a restart: `FileLogStore` has these.

### Tailing

Producers (`Produce`, `PublishAppended`, `PublishTruncated`), a source connector that appends and publishes nothing
(`SourceAppend`), events of other topics, the broadcast channel of `bus.rs` and subscribers: `Subscribe`, `Receive` (pass or filter),
`Lag` (skip and count), `Fetch` (the clamp of `engine.rs`, `next_offset`), `Stall`. A subscriber reads from its position
to the end whenever an event is passed on to it. tokio's channel, which keeps the last `Capacity` events, is external.

### Proofs

Eight modules hold the theorems of section 4, each named after the module it extends: `SinkRuntime_proofs`, `CheckpointedSink_proofs`,
`FileLogStore_proofs`, `MemoryLogStore_proofs`, `TopicCatalogue_proofs`, `LogEngine_proofs`, `Pipeline_proofs` and `Tailing_proofs`.

## 3. Runs

| Run | Instance | Shows |
|---|---|---|
| `sink_alo` | 1 runner, 3 records, batches of 2, 2 attempts, 1 port error, 1 crash, lost acknowledgements, retention | at-least-once: `TypeOK`, `NoLoss`, `BoundedRedelivery`, `ResumesAtCheckpoint`, and `Drains` under fairness |
| `sink_alo_concurrent` | 2 runners and a status caller, 2 records, checkpoints lost in the crash, symmetric tasks | `NoLoss`, `NoGaps`, `CaughtUp` hold for any interleaving: stale cursors cost redelivery, never a record |
| `sink_amo` | 1 runner, 4 records, 2 port errors, 2 crashes, no lost acknowledgements | at-most-once: `NoDuplicates`, `CommitBeforeDelivery` |
| `file_log` | segments of 2, 3 retained records, 6 offsets, batches up to 2, 1 failed creation, 2 crashes | `RefinesCommitLog`, `FetchCorrect`, `RetentionBounded` |
| `file_log_faults` | the same with failing creations, flushes, large writes and removals, 2 faults and 2 crashes | `AckedSurvives`, `HighWatermarkSurvives`, `FetchAscending` |
| `memory_log` | segments of 2, 2 retained records, 7 offsets, batches up to 3 | `RefinesCommitLog`, `FetchCorrect`, `RetentionExact`, `CountersAgree` |
| `engine` | 2 clients, 3 requests, 1 topic of 2 partitions, batches up to 2, at most 3 retained records, 2 attempts, 2 faults | `TypeOK`, `EventsAreCommitted`, `AckedIsPublished`, `FailuresAreSilent`, `OneCreator`, and `Returns` under fairness |
| `sink_bug_status_race` | at-most-once, a runner and a status caller, no faults | violated: `status` puts an old checkpoint back into the cursor and a batch is delivered twice |
| `checkpointed_sink` | 1 runner and a status caller, 3 records, digits in base 2, 1 error, 1 crash | `RefinesSinkRuntime`, and `Drains` under fairness |
| `catalogue` | 2 names, up to 2 partitions, 2 records, 2 failed operations, 2 crashes | `AckedTopicSurvives`, `RecordsReachable`, `StatsAgree` |
| `pipeline` | source of 3 records in batches of 2, sink batches of 2, every second offset poison, 2 records of other producers, retention off and bounds of 2 and 3, 1 error, 1 restart; `serve` and `demo`, files and memory | `LogFollowsSource`, `StatusTruthful`, `DeadLettersShown`, `DeliveredOnce`, `DemoComplete`, and `StoredIsHandled` under fairness |
| `tailing` | 2 producers, 1 subscriber, a channel of 1 event, fetches of 1 record, 2 records, 2 events of other topics | `ConsumedInOrder`, `MissedIsCounted`, and `AnnouncedIsRead` under fairness |

Bounds. Two or three batches of records, one more than a batch holds, reach every
position inside a batch, a partial last batch and a batch after a restart; a second
crash or error lets a fault fall on what the first left behind. In the file runs six
offsets fill three segments, so that retention removes a head, the middle segment is
neither first nor active, and recovery sees all three kinds. In the memory run a batch is
larger than a segment and than the retention bound, so one append rolls twice and removes its own first record. In the engine run three
requests are a create and two racing produces, or two racing creates and a produce;
two faults use up both attempts of a call, or leave two frames behind (`MaxFaults` bounds the errors and the frames; that calls return does not rest on it, see the fairness below). Record contents and tasks are
interchangeable and declared symmetric where no liveness is checked. In the checkpoint run offsets 2 and 3 have two
digits, so the file changes its length. In the catalogue run the first crash cuts a create short, which is then repeated with other settings and
followed by appends, and the second one is recovered from; a directory without `topic.json` and a truncated one stand beside a good topic.
In the pipeline run a source of 3 records ends with a partial batch, so that sink batches span polls and other producers'
records, and bounds below, at and (0) above what is stored let retention prune before the sink reads, between two of its batches, or never. One restart is enough: everything but the files is reset by it. In the tailing run a channel of one event lags as soon as
two are sent, and two producers publish in either order; the run was also made with three records and one event of another topic.

Deadlock is checked in the sink runs, where `run_once` can always be called again.
It is also checked in `checkpointed_sink` and `catalogue`. In `pipeline` a demo ends and an error stops the supervisor, and
in `tailing` nobody has to produce or subscribe, so those may stop; what must not stop is stated as liveness.
The file, memory and engine runs stop when the bound on offsets or requests is reached, and
say so; that no call hangs there is `Returns` for the engine, and for the stores follows
from the steps of an append being always enabled.

Fairness. `FairSpec` of `SinkRuntime` asks that a runner calls `run_once` again and that a
call in progress goes on: the executor runs ready tasks, the ports answer, and the
documentation of `run_once` asks for repeated calls. Crashes and errors are bounded by
the instance, never fair. `FairSpec` of `LogEngine` asks that the timer of `store_call` fires while its call waits, and that
a call which waits for nobody publishes and returns. No fairness is asked of the store: it may answer, fail any number of attempts or hang, so `Returns`
rests on the timeout alone. None is asked of `LateJob`, `Refill`
or new requests. `CheckpointedSink` asks the same of a runner as `SinkRuntime`, file operations included. `Pipeline` asks that the
one task that drives everything goes on: the executor polls it and its sleep ends. `Tailing` asks that a produce call in progress goes on and
that a subscriber which has not stalled takes what its stream offers; a stalled one never moves again.

Mutants. Every property of a passing run has a deviation in the module (`X_Something`,
before `X`) that models a plausible bug; substituted for `X`, TLC finds the property
violated.

### Observations outside the runs

The same models show, with other constants, limits that a reader should know of:

- `sink_amo` with `LostAcks = TRUE`: `deliver_one` retries in at-most-once mode too, so a
  delivery that took effect and reported an error is repeated;
- `sink_alo` with `DurableDlq = FALSE`: dead-lettered records below a durable checkpoint are
  forgotten in a restart, and `NoLoss` fails; the repository has no durable dead-letter sink;
- `CheckpointedSink` with two runners and `Radix = 3`: both open the temporary file, the first writes `10` and renames it, and the second
  writes its `2` into the file that is now the checkpoint, which then reads `20`; `NoLoss` fails. The comment at `checkpoint.rs:110` says
  "atomic, crash-safe persistence", which holds for one saver per key at a time, as the node has it;
- `SinkRuntime` with `DurableCheckpoints = FALSE`, as `serve` wires it (`main.rs:130`): a restart over a durable log reads it from offset 0 again;
- `sink_alo` with `BatchSize = 0`: every poll is empty and `CaughtUp` fails;
- `file_log` with `SegmentMax > MaxRecords`, which `RetentionPolicy::validate` accepts (a `createTopic` with `maxRecords` below the default segment of
  1024 is one): the active segment is never removed, so up to `SegmentMax` records stay, as `RetentionBounded` has it, and not `max_records`;
- `FileLogStore` with one large write cut short (`IoFaults = {"partial"}`): a frame of 8 KiB or more (payloads go up to 1 MiB, `units.rs:16`) is written past the
  `BufWriter` (`segment.rs:173`), so an error in the middle leaves part of it in the file while the process goes on. Records appended and acknowledged behind it are
  cut off by the next `Segment::open` (`segment.rs:127`), which takes the partial frame for the end of the file; until then a fetch may decode, in its place, bytes that are no frame.
  `AckedSurvives` and `HighWatermarkSurvives` therefore speak of the acknowledged records that stand behind none;
- `FileLogStore` with one failed flush (`IoFaults = {"write"}`): the frame stays in the `BufWriter` (`segment.rs:174`), the next append writes it
  again, and two frames carry one offset, where `units.rs:20` says every record consumes exactly one;
- `LogEngine` with `MaxTopics = 1` and two names: both creates list zero topics and both create (`engine.rs:95`);
- `LogEngine` with one failing append: the retry (`engine.rs:297`) stores again what the failed attempt had stored;
- `LogEngine` with an append that fails in `flush` (Transient, so retried): the frame left in the `BufWriter` is written in front of the first record of the append that succeeds,
  with the same offset. The event and the caller name that record, and a `fetch` of its offset returns the frame in front of it. `EventsAreCommitted` says that nothing
  more comes between the records of a batch;
- `Pipeline` with `max_records` below `Total`: `demo` sources everything before its sink starts, so retention prunes first, and it prints fewer processed and dead-lettered records than
  produced ones. The default bound is a million records (`topic.rs:25`), `--records` is any `u64`, and `serve` gets there in less than three hours (200 records every two seconds, `main.rs:120`);
  after a restart of `serve` over pruned files the sink's counters are less than the checkpoint they are shown with.

Reading the code for the models showed further:

- a `topic.json` truncated by a create that was never acknowledged makes `open` fail for the whole store (`filestore.rs:247`);
  `AckedTopicSurvives` says it can be no other. A create that failed or was cut short later may be served after a restart;
- an error ends the supervisor for good, and the registry goes on showing `running: true` (`main.rs:147`);
- a failed append loses the polled records, and the source still reports at-least-once (`main.rs:152`, `connectors.rs:125`);
- source connectors append past the engine, so their records are announced by no event, although `event.rs:3` says subscribers
  receive events as records are appended; and a filtered subscriber that lagged may have missed the last event of its topic;
- `produced_total` counts from the restart and leaves out what failed appends stored, although `stats.rs:69` speaks of records ever produced; `StatsAgree` says what must be added
  to make the books balance;
- the `MemoryLogStore` never lowers its segment count: it is of the segments ever begun, where `stats.rs:54` and `stats.rs:66` speak of the number there are, and where the `FileLogStore` it
  mirrors (`memstore.rs:3`) counts the live ones (`filestore.rs:217`). `CountersAgree` states what the code keeps;
- a dead letter always names `max_attempts`, after one permanent error too (`connector.rs:264`, `types/connector.rs:144`);
- `createTopic` answers with the partitions asked for, 0 included, where the engine created the default number (`schema.rs:139`);
- `model.rs:206` says that resuming is at `offset + 1`, where a checkpoint is the next offset (`types/connector.rs:114`).

## 4. Proofs

TLAPS checks them with the SMT, Zenon and LS4 backends, for every value of the constants that satisfies the named `ASSUME`s of the
module, which TLC evaluates in the runs. Every invariant, action property and refinement of the runs is stated by a theorem, some
under a further assumption, which is named below with the reason it is needed. The bounds on errors, crashes, requests
and offsets are constants like the others: the theorems hold for all of them.

### SinkRuntime (`SinkRuntime_proofs.tla`)

- `TypeCorrect`: `Spec => []TypeOK`, for any sets of tasks. The inductive invariant `TypeInv`
  adds to `TypeOK` that a task which may retry has an attempt left.
- `AtLeastOnceNoLoss` and `AtLeastOnceInOrder`: with the at-least-once guarantee `NoLoss` holds for any number of concurrent `run_once` and `status`
  callers when the dead-letter sink is as durable as the checkpoints (a crash that keeps the dead letters, or forgets the checkpoints too), and `NoGaps` when it is durable outright: the
  delivered records are not forgotten, so the dead letters among them must not be either. `NoLoss` speaks of the checkpoint and the cursor only, which are overwritten from
  the local state of tasks; `NothingLost` therefore adds that every offset below a task's
  `from`, `pos` and, once its batch is done, `next` is settled. It is preserved because settled offsets stay settled
  (`SettledStays`), a fetch starts where everything below is settled (`FetchFromSettled`), and the loop moves past a record
  only when it is handled (`RecordHandled`). `HandledInOrder` adds the same about the offsets below
  a handled one.
- `AtMostOnceNoDuplicates` and `AtMostOnceCommitFirst`: with the at-most-once guarantee and `OneReliableTask` (one task,
  durable checkpoints, no lost acknowledgements), no record takes effect twice and everything handled
  lies below the saved checkpoint. `CommittedFirst` relates the task, the checkpoint and the cursor: while a batch
  is delivered the checkpoint is its end, and what is at or after the current position is not delivered. The assumption on
  the tasks cannot be dropped: `sink_bug_status_race` is the counterexample.
- `OneTaskResumes`: one task always fetches from the checkpoint in the store. `CursorFresh` says that the cursor agrees with the
  store except between a save and the update of the cursor, and that a loaded offset is still the stored one; a second task breaks both.
- `OneTaskBoundedRedelivery`: at-least-once, one task, durable checkpoints; what can be handled again lies within a batch of the checkpoint (a full batch, when only the save is missing).
  `BatchBounded` keeps the batch in progress, and everything ever handled, below the checkpoint or the head plus a batch.
- `EmptyPollCaughtUp`: at-least-once, a dead-letter sink as durable as the checkpoints and `BatchSize > 0`; an action property from `NothingLost`.

### CheckpointedSink (`CheckpointedSink_proofs.tla`)

With one runner and any number of status callers (`OneRunner`):

- `CheckpointFileRefines`: `Spec => RefinesSinkRuntime`. The refinement needs `FileInv`: a task that only calls `status` is never in a save,
  the save of the runner stands where the runtime's task stands with the temporary file open and, before the rename, complete, and the file
  always decodes (`Readable`): an unreadable one would end a load with an error the abstract runtime does not have. That a decoded encoding is the number
  (`EncodeRoundTrip`) is proved for every number.
- `CheckpointFileNoLoss`, `CheckpointFileNoDuplicates`: the theorems of `SinkRuntime`, instantiated, carry over along the refinement.

`SinkAssumption` repeats the assumptions of the instantiated `SinkRuntime`, `SaversAssumption` says that every task may save.
Two runners are excluded for a reason: see the observations of section 3.

### FileLogStore (`FileLogStore_proofs.tla`)

Whatever file operations fail:

- `AcknowledgedStay`: `AckedSurvives`, of the acknowledged records that stand behind no partial frame. `FileInv` has that of each (`AckedInv`, with `Reachable`), where torn frames may be (`TornLast`), that the offsets in a file lie below the next
  file (`OffsetsBounded`), what memory knows of the newest file (`MemoryInv`), and how much of its batch the call in progress has written (`CallInv`): an
  acknowledgement is only as good as what the call wrote before it.
- `HighWatermarkKept`: `HighWatermarkSurvives`. An offset is at most the position of its frame (`OffsetsBounded`), so a count of the frames a scan gets to is above every offset it meets,
  frames repeated after a failed flush included.
- `FetchInOrder`: `FetchAscending`, until a failed write leaves its frame behind.

With fewer faults; TLC finds a counterexample where one of the excluded operations fails:

- `RetentionKept`, where removals do not fail (a failed one takes the segment out of the vector and leaves the start offset behind), for every policy. `HeadInv` says that the start offset is that of a segment and that the active one is at most full
  when retention begins.
- `FileFetchCorrect` and `DirectoryImplementsCommitLog`, when only creations of segments fail (`OnlyCreateFails`).

The last two need `DenseInv`: every record stands at its offset and every file begins where the one before it ends (`DenseFiles`), memory mirrors
the directory (`Mirrored`), and retention finds a record in the active segment (`ActiveNotEmpty`). The refinement reads the log off the
directory, so its proof locates the file and the frame of every offset (`LocateRecord`) and shows for each file operation which of them change.
For `fetch`, `CollectedRounds` shows that the recursive function `Collected` exists and satisfies its equation; then the first segment at which what
the loop has collected were out of order (`CollectedAscends`), or not the slice of the log up to its end (`CollectedSlices`), would follow one at which it is not.

### MemoryLogStore (`MemoryLogStore_proofs.tla`)

For every policy in which a segment holds at least one record, which `RetentionPolicy::validate` enforces:

- `MemoryImplementsCommitLog`: `Spec => RefinesCommitLog`. A push is `AppendRecord`, a removal is `Prune` of one record,
  the other steps stutter.
- `MemoryRetentionExact`, `MemoryCountersAgree`, `MemoryTypeCorrect`.
- `MemoryFetchCorrect`: `FetchCorrect`. Since every retained record stands at its offset, the places that pass the filter are an interval, and the
  n-th of them is known (`NthOfInterval`).

They share the inductive invariant `Inv`: `Dense` (every retained record, and every record of the call in progress, stands at its
offset; without it a pushed record need not be the one at the high watermark), `Accounted` (what the call in progress has
still to push and to count), `Rolled` (all segments but the active one are full) and `Kept` (retention never goes below its bound).

### TopicCatalogue (`TopicCatalogue_proofs.tla`)

- `AcknowledgedTopicsSurvive`, `RecordsStayReachable`: `CatalogueInv` relates the tree on disk (`DiskInv`), what memory has of it while the store
  is closed, opening or open (`MemoryInv`), and how far the create in progress has come in a directory that is nobody's yet (`CallInv`): that a create
  works only on a name without acknowledgement and records is what keeps its failures harmless.
- `StatsAddUp`: `StatsAgree`, for a finite set of names, with retention and with appends that fail. `SumInv` carries the sum of the high watermarks through `recover`, one directory at a time, each read once;
  what retention took is the sum of the start offsets.
  The lemmas on `SumFunction` (`SumIsNumber`, `SumOfZeros`, `SumGrows`) follow from its recursive definition by a least counterexample among the subsets summed up.

### LogEngine (`LogEngine_proofs.tla`)

For any number of clients, requests, faults and abandoned jobs:

- `TypeCorrect`: types, the bounds of the bucket, and that an append goes to a partition its topic has. The request of an abandoned job keeps its
  topic and size, which is why `TypeInv` speaks of them at every step of a request.
- `EventsNameCommitted`: by `CommittedInv`, which has the records in the log from the append on, before their event is published. A frame left behind is written in front of the first
  record of a later append, whose offset is beyond every batch that stands: so it never gets between the records of one.
- `AckedAnnouncedOnce`, `FailuresNeverAnnounced`: by `IdInv` (a request is in progress with one client or answered once) and `AnnouncedInv` (every
  event belongs to one answer, or to a request that has still to publish the new head).
- `CreatorIsUnique`: by `CreatorInv`, in which the client about to publish counts as the creator already.

### Pipeline (`Pipeline_proofs.tla`)

For every source, poll and batch size, `FailEvery`, bound of the topic, choice of what retention prunes, number of errors, restarts and records of other producers, both commands and both backends
(appends that fail store a clean prefix, see section 2):

- `LogWithoutGaps`: `SourceInv` says that the polled batch is the last the generator made and that, unless the supervisor has stopped, everything before
  it is stored: the property itself does not say why the next append fits.
- `HandledOnce`: `SinkInv` ties the delivered and dead-lettered records to the position of the task (`HandledInv`: all below it, but for those that were pruned), and the cursor to the checkpoint.
- `StatusIsTruthful`, `DeadLettersAreShown`: `RegistryInv` follows the three registry calls; between the last two the dead letters are those of an earlier checkpoint. Since the sink handles only
  what lies beyond its checkpoint (`SinkHandles`), what was shown of the records below it stays true. `HeadInv` says where retention may have put the head.
- `DemoEndsComplete` says that what was handled is exactly what retention left, and that it left everything unless more was asked for than the topic keeps. It is proved when `BatchSize > 0` (the default is 500): with an empty batch `demo` would take the first poll for the end of the log.

### Tailing (`Tailing_proofs.tla`)

- `ReadInOffsetOrder`, `LagIsCounted`, for any producers, subscribers, capacities and limits. `TailingInv` says that a position has every retained
  record below it (`ReadInv`), and that until a lag is counted a subscriber was told every event that passes its filter (`ToldInv`).

### Only model-checked

`Drains` (of `SinkRuntime` and `CheckpointedSink`), `Returns`, `StoredIsHandled` and `AnnouncedIsRead`: liveness under fairness and ENABLED are beyond
the prover. Induction over data is too, as a rule; where it was needed (recursive functions, sums) the proofs argue by a least counterexample
(`MinProperties`, `SmallestSubset`), which the well-founded order of the natural numbers gives.

## 5. Not modelled

- Formatting, routes, metrics, telemetry, argument parsing and record validation: no state, or no behaviour a property tells apart.
  Names are model values, so that file names of checkpoints (`key`, joined with `__`) may coincide for different connectors is not seen.
- `CircuitBreaker` and `Bulkhead`: no other crate uses them, so there is no caller to model them with.
- Power loss (data flushed to the operating system and lost): the crash model is the end of the process.
- The topic map of `MemoryLogStore`, which one mutex makes trivial, and the counter of fetched records.
- The key hash, and with it the per-key order inside a batch, which is routed by its first key (`engine.rs:154`).

`PROJECT.json` gives the status and the reason for every component.

## 6. Plan

Done: all modules of section 2, and a theorem for every invariant, action property and refinement of the runs.

Left, in this order:

1. Lemmas that are stated in more than one proof module (least elements, prefixes of sequences) could be kept in one.
2. The theorems of `CommitLog` users: that `FetchCorrect` of either store is all `SinkRuntime` assumes of its log (`logStart`, `logNext`), as a refinement.
