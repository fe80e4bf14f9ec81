-------------------------- MODULE CheckpointedSink ---------------------------
(***************************************************************************)
(* A SinkRuntime over a FileCheckpointStore.  The runtime's `load` reads   *)
(* the checkpoint file, its `save` goes through the temporary file, and a  *)
(* crash may fall between any two file operations.  The composition        *)
(* implements SinkRuntime with an atomic, durable checkpoint.              *)
(***************************************************************************)
EXTENDS FileCheckpointStore

CONSTANTS Runners, Observers, Guarantee, MaxAttempts, BatchSize, LostAcks, Retention,
          DurableDlq, MaxOffset, MaxFaults, MaxCrashes

VARIABLES logStart, logNext, cursor, task, delivered, redelivered, dlq, processed, dead,
          faults, crashes

S == INSTANCE SinkRuntime WITH ckpt <- Loaded, DurableCheckpoints <- TRUE

ASSUME SinkAssumption == S!ConfigAssumption /\ S!BoundAssumption

ASSUME SaversAssumption == Runners \cup Observers \subseteq Savers

butTask == <<logStart, logNext, cursor, delivered, redelivered, dlq, processed, dead,
             faults, crashes>>
sinkVars == <<task, butTask>>
vars == <<sinkVars, fvars>>

Init == InitFiles /\ S!Init

\* The steps of the runtime that do not touch the checkpoint file.
RuntimeStep(t) ==
    /\ UNCHANGED fvars
    /\ \/ S!RunOnce(t)
       \/ S!Status(t)
       \/ S!CacheCheckpoint(t)
       \/ S!FetchNothing(t)
       \/ S!FetchBatch(t)
       \/ S!AdvanceCursor(t)
       \/ S!Deliver(t)
       \/ S!DeliverFails(t)
       \/ S!DeadLetter(t)

\* checkpoints.load(..).await?
Load(t) ==
    /\ UNCHANGED fvars
    /\ task[t].pc \in {"load", "statusLoad"}
    /\ IF Readable THEN S!LoadCheckpoint(t)
                   ELSE S!Return(t) /\ UNCHANGED butTask

\* checkpoints.save(..).await?, one file operation at a time.
BeginSave(t) ==
    /\ task[t].pc = "save"
    /\ OpenTmp(t, task[t].next)
    /\ UNCHANGED sinkVars

WriteSave(t) ==
    /\ WriteTmp(t)
    /\ UNCHANGED sinkVars

\* The rename fails when another saver of the key has renamed the file.
FinishSave(t) ==
    /\ saver[t].pc = "rename"
    /\ IF tmp.exists THEN Rename(t) /\ S!Goto(t, "saved")
                     ELSE SaveError(t) /\ S!Return(t)
    /\ UNCHANGED butTask

PortError(t) ==
    /\ SaveError(t)
    /\ S!PortError(t)

Produce == UNCHANGED fvars /\ S!Append

Crash == LoseSavers /\ S!Crash

Continue(t) ==
    RuntimeStep(t) \/ Load(t) \/ BeginSave(t) \/ WriteSave(t) \/ FinishSave(t) \/ PortError(t)

Next ==
    \/ \E t \in Runners \cup Observers : Continue(t)
    \/ Produce
    \/ Crash

Spec == Init /\ [][Next]_vars

\* The executor runs every task that can go on, the file operations included.
FairSpec == Spec /\ \A t \in Runners : WF_vars(Continue(t))

-----------------------------------------------------------------------------
(* Properties                                                              *)

\* The runtime over the checkpoint file implements the runtime over an atomic
\* and durable checkpoint: no crash, error or status call in the middle of
\* `save` shows anything but the old or the new offset.
RefinesSinkRuntime == S!Spec

\* A crash or an error in the middle of a save never wedges the sink: every
\* appended record is eventually delivered, dead-lettered or pruned.
Drains == S!Drains

=============================================================================
