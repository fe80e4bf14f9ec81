----------------------- MODULE CheckpointedSink_proofs ------------------------
(***************************************************************************)
(* A runtime over a checkpoint file implements the runtime over an atomic, *)
(* durable checkpoint, for every configuration with one runner and any     *)
(* number of observers; what is proved of SinkRuntime carries over.        *)
(***************************************************************************)
EXTENDS CheckpointedSink, TLAPS

\* SinkRuntime's proofs, for the same refinement mapping as S.
P == INSTANCE SinkRuntime_proofs WITH ckpt <- Loaded, DurableCheckpoints <- TRUE

\* S and P name the same specification.
LEMMA SameRuntime ==
    /\ S!Init <=> P!Init
    /\ [S!Next]_(S!vars) <=> [P!Next]_(P!vars)
BY DEF S!Init, P!Init, S!Next, P!Next, S!vars, P!vars, S!Tasks, P!Tasks, S!Continue, P!Continue,
       S!RunOnce, P!RunOnce, S!Status, P!Status, S!LoadCheckpoint, P!LoadCheckpoint,
       S!CacheCheckpoint, P!CacheCheckpoint, S!FetchNothing, P!FetchNothing, S!FetchBatch,
       P!FetchBatch, S!SaveCheckpoint, P!SaveCheckpoint, S!AdvanceCursor, P!AdvanceCursor,
       S!Deliver, P!Deliver, S!DeliverFails, P!DeliverFails, S!DeadLetter, P!DeadLetter,
       S!PortError, P!PortError, S!Append, P!Append, S!Crash, P!Crash, S!Idle, P!Idle,
       S!Goto, P!Goto, S!Return, P!Return, S!NextRecord, P!NextRecord, S!TakeEffect,
       P!TakeEffect, S!FetchFrom, P!FetchFrom, S!FetchEnd, P!FetchEnd, S!AfterFetch,
       P!AfterFetch, S!Max2, P!Max2, S!Min2, P!Min2, S!Attempts, P!Attempts,
       S!DeadLetterRecord, P!DeadLetterRecord, S!Unset, P!Unset, S!AtLeastOnce, P!AtLeastOnce,
       S!AtMostOnce, P!AtMostOnce, S!log, P!log, S!effects, P!effects, S!counters, P!counters,
       S!budget, P!budget

\* serde_json gives a number back as it was: what `save` writes, `load` reads.
LEMMA EncodeRoundTrip ==
    ASSUME NEW n \in Nat
    PROVE  Decodes(Encode(n)) /\ Decode(Encode(n)) = n
<1>1. CASE n < Radix
  BY <1>1 DEF Decodes, Decode, Encode
<1>2. CASE ~(n < Radix)
  <2>1. n \div Radix \in Nat /\ n % Radix \in Nat /\ n \div Radix # 0
    BY <1>2, RadixAssumption
  <2>2. n = (n \div Radix) * Radix + (n % Radix)
    BY <1>2, RadixAssumption
  <2>3. Encode(n) = <<n \div Radix, n % Radix>>
    BY <1>2 DEF Encode
  <2> QED
    BY <2>1, <2>2, <2>3 DEF Decodes, Decode
<1> QED BY <1>1, <1>2

\* A write to the file that open truncated leaves just what was written.
LEMMA OverwriteEmpty ==
    ASSUME NEW n \in Nat
    PROVE  Overwrite(<<>>, Encode(n)) = Encode(n)
<1>1. CASE n < Radix
  BY <1>1 DEF Overwrite, Encode
<1>2. CASE ~(n < Radix)
  BY <1>2 DEF Overwrite, Encode
<1> QED BY <1>1, <1>2

\* The assumptions of SinkRuntime hold of the constants of this module.
LEMMA RuntimeAssumptions == P!ConfigAssumption /\ P!BoundAssumption
BY SinkAssumption DEF P!ConfigAssumption, P!BoundAssumption, S!ConfigAssumption,
   S!BoundAssumption, S!AtLeastOnce, P!AtLeastOnce, S!AtMostOnce, P!AtMostOnce

\* SinkRuntime's type invariant, under the assumptions of this module.
LEMMA RuntimeTypes ==
    /\ P!Init => P!TypeInv
    /\ P!TypeInv /\ [P!Next]_(P!vars) => P!TypeInv'
BY RuntimeAssumptions, P!TypeInit, P!TypeStep

-----------------------------------------------------------------------------
(* The inductive invariant                                                 *)

\* One task drives run_once; any number of others call status.
OneRunner == \A t, u \in Runners : t = u

Tasks == Runners \cup Observers

SaverType ==
    saver \in [Savers -> [pc : {"idle", "write", "rename"}, value : Nat,
                          at : {"tmp", "file", "gone"}]]

\* A task that only calls status never comes near a save.
ObserversLoadOnly ==
    \A t \in Tasks \ Runners : task[t].pc \in {"idle", "statusLoad", "statusLoaded"}

\* A save in progress is the one its task waits for, and the temporary file is
\* the file it opened: empty before the write, complete before the rename.
\* A second runner would break this: both open the same temporary file.
SaveInProgress ==
    \A t \in Tasks : saver[t].pc # "idle" =>
        /\ task[t].pc = "save"
        /\ saver[t].value = task[t].next
        /\ saver[t].at = "tmp"
        /\ saver[t].pc = "write" => tmp = [exists |-> TRUE, digits |-> <<>>]
        /\ saver[t].pc = "rename" =>
             tmp = [exists |-> TRUE, digits |-> Encode(task[t].next)]

\* The checkpoint file is never torn: Readable, the guard of Load, is part of
\* the invariant because an unreadable file ends a load with an error that
\* SinkRuntime does not have.
FileInv == SaverType /\ ObserversLoadOnly /\ SaveInProgress /\ Readable

\* A step of the runtime's task t outside its save.
LEMMA OutsideSave ==
    ASSUME P!TypeInv, SaverType, ObserversLoadOnly, SaveInProgress, Readable,
           NEW t \in Tasks, task[t].pc # "save",
           \A u \in Tasks : u # t => task'[u] = task[u],
           t \notin Runners => task'[t].pc \in {"idle", "statusLoad", "statusLoaded"},
           UNCHANGED fvars
    PROVE  FileInv'
<1>1. SaverType' /\ Readable'
  BY DEF SaverType, Readable, fvars
<1>2. ObserversLoadOnly'
  BY DEF ObserversLoadOnly
<1>3. SaveInProgress'
  BY DEF SaveInProgress, fvars
<1> QED
  BY <1>1, <1>2, <1>3 DEF FileInv

\* Every step keeps the invariant and is a step or a stutter of SinkRuntime.
LEMMA FileStep ==
    ASSUME OneRunner
    PROVE  P!TypeInv /\ FileInv /\ [Next]_vars => FileInv' /\ [S!Next]_(S!vars)
<1> SUFFICES ASSUME P!TypeInv, FileInv, [Next]_vars
             PROVE  FileInv' /\ [S!Next]_(S!vars)
  OBVIOUS
<1> USE DEF Tasks, FileInv
<1>a. task \in [Tasks -> [pc : P!PCs, from : Nat, pos : Nat, next : Nat,
                           attempt : 0 .. P!Attempts]]
  BY DEF P!TypeInv, P!TypeOK, P!Tasks
<1>b. Tasks \subseteq Savers
  BY SaversAssumption
<1>1. ASSUME NEW t \in Tasks, RuntimeStep(t) PROVE FileInv' /\ [S!Next]_(S!vars)
  <2>1. [S!Next]_(S!vars)
    BY <1>1 DEF RuntimeStep, S!Next, S!Continue, S!Tasks
  <2>2. task[t].pc # "save" /\ \A u \in Tasks : u # t => task'[u] = task[u]
    BY <1>1, <1>a DEF RuntimeStep, S!RunOnce, S!Status, S!CacheCheckpoint, S!FetchNothing,
       S!FetchBatch, S!AdvanceCursor, S!Deliver, S!DeliverFails, S!DeadLetter, S!NextRecord,
       S!Goto, S!Return
  <2>3. t \notin Runners => task'[t].pc \in {"idle", "statusLoad", "statusLoaded"}
    BY <1>1, <1>a DEF RuntimeStep, S!RunOnce, S!Status, S!CacheCheckpoint, S!FetchNothing,
       S!FetchBatch, S!AdvanceCursor, S!Deliver, S!DeliverFails, S!DeadLetter, S!NextRecord,
       S!Goto, S!Return, S!Idle, ObserversLoadOnly
  <2> QED
    BY <1>1, <2>1, <2>2, <2>3, OutsideSave DEF RuntimeStep
<1>2. ASSUME NEW t \in Tasks, Load(t) PROVE FileInv' /\ [S!Next]_(S!vars)
  <2>1. S!LoadCheckpoint(t)
    BY <1>2 DEF Load
  <2>2. [S!Next]_(S!vars)
    BY <2>1 DEF S!Next, S!Continue, S!Tasks
  <2>3. task[t].pc # "save" /\ \A u \in Tasks : u # t => task'[u] = task[u]
    BY <1>a, <2>1 DEF S!LoadCheckpoint
  <2>4. t \notin Runners => task'[t].pc \in {"idle", "statusLoad", "statusLoaded"}
    BY <1>a, <2>1 DEF S!LoadCheckpoint, ObserversLoadOnly
  <2> QED
    BY <1>2, <2>2, <2>3, <2>4, OutsideSave DEF Load
<1>3. ASSUME NEW t \in Tasks, BeginSave(t) PROVE FileInv' /\ [S!Next]_(S!vars)
  <2>1. UNCHANGED S!vars
    BY <1>3 DEF BeginSave, OpenTmp, sinkVars, butTask, S!vars, S!log, S!effects, S!counters,
                S!budget, Loaded, Readable
  <2>2. t \in Runners
    BY <1>3 DEF BeginSave, ObserversLoadOnly
  <2>3. SaverType' /\ Readable' /\ ObserversLoadOnly'
    BY <1>3, <1>a DEF BeginSave, OpenTmp, SaverType, Readable, ObserversLoadOnly, sinkVars
  <2>4. \A u \in Tasks : u # t => saver'[u].pc = "idle"
    BY <1>3, <1>b, <2>2
       DEF BeginSave, OpenTmp, SaverType, SaveInProgress, ObserversLoadOnly, OneRunner
  <2>5. SaveInProgress'
    BY <1>3, <1>b, <2>4 DEF BeginSave, OpenTmp, SaverType, SaveInProgress, sinkVars
  <2> QED
    BY <2>1, <2>3, <2>5
<1>4. ASSUME NEW t \in Tasks, WriteSave(t) PROVE FileInv' /\ [S!Next]_(S!vars)
  <2> DEFINE n == task[t].next
  <2>1. /\ saver[t].pc = "write" /\ saver[t].at = "tmp" /\ saver[t].value = n
        /\ tmp = [exists |-> TRUE, digits |-> <<>>]
        /\ task[t].pc = "save" /\ n \in Nat
    BY <1>4, <1>a DEF WriteSave, WriteTmp, SaveInProgress
  <2>2. /\ tmp' = [exists |-> TRUE, digits |-> Encode(n)]
        /\ file' = file /\ task' = task
        /\ saver' = [saver EXCEPT ![t].pc = "rename"]
    BY <1>4, <2>1, OverwriteEmpty DEF WriteSave, WriteTmp, sinkVars
  <2>3. UNCHANGED S!vars
    BY <1>4, <2>2 DEF WriteSave, sinkVars, butTask, S!vars, S!log, S!effects, S!counters,
                      S!budget, Loaded, Readable
  <2>4. t \in Runners
    BY <2>1 DEF ObserversLoadOnly
  <2>5. SaverType' /\ Readable' /\ ObserversLoadOnly'
    BY <1>b, <2>2 DEF SaverType, Readable, ObserversLoadOnly
  <2>6. \A u \in Tasks : u # t => saver'[u].pc = "idle"
    BY <1>b, <2>2, <2>4 DEF SaverType, SaveInProgress, ObserversLoadOnly, OneRunner
  <2>7. saver'[t].pc = "rename" /\ saver'[t].at = "tmp" /\ saver'[t].value = n
    BY <1>b, <2>1, <2>2 DEF SaverType
  <2>8. SaveInProgress'
    BY <2>1, <2>2, <2>6, <2>7 DEF SaveInProgress
  <2> QED
    BY <2>3, <2>5, <2>8
<1>5. ASSUME NEW t \in Tasks, FinishSave(t) PROVE FileInv' /\ [S!Next]_(S!vars)
  <2> DEFINE n == task[t].next
  <2>1. /\ task[t].pc = "save" /\ n \in Nat
        /\ tmp = [exists |-> TRUE, digits |-> Encode(n)]
    BY <1>5, <1>a DEF FinishSave, SaveInProgress
  <2>2. /\ file' = [exists |-> TRUE, digits |-> Encode(n)]
        /\ S!Goto(t, "saved") /\ UNCHANGED butTask
        /\ saver' = [r \in Savers |-> IF r = t THEN NotSaving
                                      ELSE [saver[r] EXCEPT !.at = AfterRename(@)]]
    BY <1>5, <2>1 DEF FinishSave, Rename
  <2>3. Loaded' = n /\ Readable'
    BY <2>1, <2>2, EncodeRoundTrip DEF Loaded, Readable
  <2>4. S!SaveCheckpoint(t)
    BY <2>1, <2>2, <2>3 DEF S!SaveCheckpoint, butTask, S!log, S!effects, S!counters, S!budget
  <2>5. [S!Next]_(S!vars)
    BY <2>4 DEF S!Next, S!Continue, S!Tasks
  <2>6. t \in Runners
    BY <2>1 DEF ObserversLoadOnly
  <2>7. ObserversLoadOnly'
    BY <1>a, <2>2, <2>6 DEF ObserversLoadOnly, S!Goto
  <2>8. SaverType'
    <3>1. \A r \in Savers : saver'[r] \in [pc : {"idle", "write", "rename"}, value : Nat,
                                           at : {"tmp", "file", "gone"}]
      BY <2>2 DEF SaverType, NotSaving, AfterRename
    <3> QED
      BY <2>2, <3>1 DEF SaverType
  <2>9. \A u \in Tasks : saver'[u].pc = "idle"
    <3>1. \A u \in Tasks : u # t => saver[u].pc = "idle"
      BY <2>6 DEF SaveInProgress, ObserversLoadOnly, OneRunner
    <3> QED
      BY <1>b, <2>2, <3>1 DEF NotSaving, SaverType
  <2> QED
    BY <2>3, <2>5, <2>7, <2>8, <2>9 DEF SaveInProgress
<1>6. ASSUME NEW t \in Tasks, PortError(t) PROVE FileInv' /\ [S!Next]_(S!vars)
  <2>1. [S!Next]_(S!vars)
    BY <1>6 DEF PortError, S!Next, S!Continue, S!Tasks
  <2>2. SaverType' /\ Readable'
    BY <1>6 DEF PortError, SaveError, SaverType, Readable, NotSaving
  <2>3. ObserversLoadOnly'
    BY <1>6, <1>a DEF PortError, S!PortError, S!Return, S!Idle, ObserversLoadOnly
  <2>4. SaveInProgress'
    BY <1>6, <1>a, <1>b DEF PortError, SaveError, S!PortError, S!Return, S!Idle, NotSaving,
                            SaverType, SaveInProgress
  <2> QED
    BY <2>1, <2>2, <2>3, <2>4
<1>7. CASE Produce
  <2>1. [S!Next]_(S!vars)
    BY <1>7 DEF Produce, S!Next
  <2>2. task' = task /\ UNCHANGED fvars
    BY <1>7 DEF Produce, S!Append
  <2> QED
    BY <2>1, <2>2 DEF SaverType, Readable, ObserversLoadOnly, SaveInProgress, fvars
<1>8. CASE Crash
  <2>1. [S!Next]_(S!vars)
    BY <1>8 DEF Crash, S!Next
  <2>2. /\ task' = [t \in Tasks |-> S!Idle]
        /\ saver' = [s \in Savers |-> NotSaving] /\ UNCHANGED <<file, tmp>>
    BY <1>8 DEF Crash, LoseSavers, S!Crash, S!Tasks
  <2>3. SaverType' /\ Readable'
    BY <2>2 DEF SaverType, Readable, NotSaving
  <2>4. ObserversLoadOnly' /\ SaveInProgress'
    BY <1>b, <2>2 DEF ObserversLoadOnly, SaveInProgress, S!Idle, NotSaving
  <2> QED
    BY <2>1, <2>3, <2>4
<1>9. CASE UNCHANGED vars
  BY <1>9 DEF vars, sinkVars, butTask, fvars, S!vars, S!log, S!effects, S!counters, S!budget,
              Loaded, Readable, SaverType, ObserversLoadOnly, SaveInProgress
<1> QED
  BY <1>1, <1>2, <1>3, <1>4, <1>5, <1>6, <1>7, <1>8, <1>9 DEF Next, Continue

\* The initial files satisfy the invariant and map to SinkRuntime's initial state.
LEMMA FileInit == Init => S!Init /\ P!TypeInv /\ FileInv
<1> SUFFICES ASSUME Init PROVE S!Init /\ P!TypeInv /\ FileInv
  OBVIOUS
<1>1. S!Init
  BY DEF Init
<1>2. P!TypeInv
  BY <1>1, SameRuntime, RuntimeTypes
<1>3. FileInv
  BY <1>1, SaversAssumption DEF Init, InitFiles, S!Init, S!Tasks, S!Idle, NoFile, NotSaving,
     FileInv, SaverType, ObserversLoadOnly, SaveInProgress, Readable, Tasks
<1> QED
  BY <1>1, <1>2, <1>3

\* A runtime over FileCheckpointStore, with one runner and any number of tasks
\* that call status, implements the runtime over an atomic and durable
\* checkpoint: a crash or an error between two file operations of `save` shows
\* the old offset or the new one, never a torn file.
THEOREM CheckpointFileRefines ==
    ASSUME OneRunner
    PROVE  Spec => RefinesSinkRuntime
<1>1. P!TypeInv /\ FileInv /\ [Next]_vars
        => (P!TypeInv /\ FileInv)' /\ [S!Next]_(S!vars)
  BY FileStep, SameRuntime, RuntimeTypes
<1> QED
  BY <1>1, FileInit, PTL DEF Spec, RefinesSinkRuntime, S!Spec

\* At-least-once over a checkpoint file loses nothing: with one runner, any
\* number of status calls and a durable dead-letter sink, every record below
\* the offset in the file or the cached cursor was delivered, dead-lettered or
\* pruned, wherever a crash falls in a save.
THEOREM CheckpointFileNoLoss ==
    ASSUME OneRunner, Guarantee = P!AtLeastOnce, DurableDlq
    PROVE  Spec => []P!NoLoss
<1>1. Spec => P!Spec
  BY CheckpointFileRefines, SameRuntime, PTL DEF RefinesSinkRuntime, S!Spec, P!Spec
<1>2. P!Spec => []P!NoLoss
  BY RuntimeAssumptions, P!AtLeastOnceNoLoss
<1> QED
  BY <1>1, <1>2, PTL

\* At-most-once over a checkpoint file: with a single task and no lost
\* acknowledgement no record takes effect twice, wherever a crash falls in the
\* save that precedes a delivery.
THEOREM CheckpointFileNoDuplicates ==
    ASSUME P!OneReliableTask
    PROVE  Spec => []P!NoDuplicates
<1>1. OneRunner
  BY DEF P!OneReliableTask, OneRunner, P!Tasks
<1>2. Spec => P!Spec
  BY <1>1, CheckpointFileRefines, SameRuntime, PTL DEF RefinesSinkRuntime, S!Spec, P!Spec
<1>3. P!Spec => []P!NoDuplicates
  BY RuntimeAssumptions, P!AtMostOnceNoDuplicates
<1> QED
  BY <1>2, <1>3, PTL

=============================================================================
