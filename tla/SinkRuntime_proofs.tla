------------------------- MODULE SinkRuntime_proofs --------------------------
(***************************************************************************)
(* Proofs about SinkRuntime, for every set of tasks, every configuration   *)
(* and every bound.                                                        *)
(***************************************************************************)
EXTENDS SinkRuntime, TLAPS

-----------------------------------------------------------------------------
(* Type correctness                                                        *)

\* attempt counts the failed deliveries of the record at hand: it is zero
\* outside the delivery loop and stays below the bound while another delivery
\* may follow.  TypeOK is not inductive without it.
AttemptsBounded ==
    \A t \in Tasks :
        /\ task[t].pc \notin {"deliver", "dead"} => task[t].attempt = 0
        /\ task[t].pc = "deliver" => task[t].attempt < Attempts

TypeInv == TypeOK /\ AttemptsBounded

\* The retry bound of deliver_one is at least one attempt.
LEMMA AttemptsType == Attempts \in Nat /\ Attempts >= 1
BY ConfigAssumption DEF Attempts

\* The bounds of a fetched batch are offsets.
LEMMA FetchType ==
    ASSUME TypeOK, NEW t \in Tasks
    PROVE  FetchFrom(t) \in Nat /\ FetchEnd(t) \in Nat
BY ConfigAssumption DEF TypeOK, FetchFrom, FetchEnd, Max2, Min2

\* What SinkRuntime::new starts with is well typed.
LEMMA TypeInit == Init => TypeInv
BY AttemptsType, BoundAssumption
   DEF Init, TypeInv, TypeOK, AttemptsBounded, Idle, PCs, Unset

\* Every await of run_once and status, an append and a crash keep the types.
LEMMA TypeStep == TypeInv /\ [Next]_vars => TypeInv'
<1> SUFFICES ASSUME TypeInv, [Next]_vars PROVE TypeInv'
  OBVIOUS
<1> USE AttemptsType DEF TypeInv, TypeOK, AttemptsBounded
<1>1. ASSUME NEW t \in Tasks, RunOnce(t) PROVE TypeInv'
  BY <1>1 DEF RunOnce, Goto, Idle, PCs, Unset, log, effects, counters, budget
<1>2. ASSUME NEW t \in Tasks, Status(t) PROVE TypeInv'
  BY <1>2 DEF Status, Goto, PCs, log, effects, counters, budget
<1>3. ASSUME NEW t \in Tasks, LoadCheckpoint(t) PROVE TypeInv'
  BY <1>3 DEF LoadCheckpoint, PCs, log, effects, counters, budget
<1>4. ASSUME NEW t \in Tasks, CacheCheckpoint(t) PROVE TypeInv'
  BY <1>4 DEF CacheCheckpoint, Goto, Return, Idle, PCs, log, effects, counters, budget
<1>5. ASSUME NEW t \in Tasks, FetchNothing(t) PROVE TypeInv'
  BY <1>5 DEF FetchNothing, Return, Idle, PCs, log, effects, counters, budget
<1>6. ASSUME NEW t \in Tasks, FetchBatch(t) PROVE TypeInv'
  <2>1. FetchFrom(t) \in Nat /\ FetchEnd(t) \in Nat
    BY FetchType
  <2>2. AfterFetch \in {"save", "deliver"}
    BY DEF AfterFetch
  <2> QED
    BY <1>6, <2>1, <2>2 DEF FetchBatch, PCs, log, effects, counters, budget
<1>7. ASSUME NEW t \in Tasks, SaveCheckpoint(t) PROVE TypeInv'
  BY <1>7 DEF SaveCheckpoint, Goto, PCs, log, effects, counters, budget
<1>8. ASSUME NEW t \in Tasks, AdvanceCursor(t) PROVE TypeInv'
  BY <1>8 DEF AdvanceCursor, Goto, Return, Idle, PCs, log, effects, counters, budget
<1>9. ASSUME NEW t \in Tasks, Deliver(t) PROVE TypeInv'
  BY <1>9 DEF Deliver, TakeEffect, NextRecord, Return, Idle, PCs, log, effects,
              counters, budget
<1>10. ASSUME NEW t \in Tasks, DeliverFails(t) PROVE TypeInv'
  <2>1. /\ task[t].pc = "deliver"
        /\ task[t].attempt + 1 \in 0 .. Attempts
        /\ delivered' \in SUBSET Nat /\ redelivered' \in SUBSET Nat
        /\ UNCHANGED <<log, ckpt, cursor, dlq, counters, budget>>
    BY <1>10 DEF DeliverFails, TakeEffect
  <2>2. CASE /\ task[t].attempt + 1 < Attempts
             /\ task' = [task EXCEPT ![t].attempt = @ + 1]
    BY <2>1, <2>2 DEF PCs, log, counters, budget
  <2>3. CASE task' = [task EXCEPT ![t].attempt = @ + 1, ![t].pc = "dead"]
    BY <2>1, <2>3 DEF PCs, log, counters, budget
  <2> QED
    BY <1>10, <2>2, <2>3 DEF DeliverFails
<1>11. ASSUME NEW t \in Tasks, DeadLetter(t) PROVE TypeInv'
  BY <1>11 DEF DeadLetter, DeadLetterRecord, NextRecord, Return, Idle, PCs, log, effects, counters, budget
<1>12. ASSUME NEW t \in Tasks, PortError(t) PROVE TypeInv'
  BY <1>12, BoundAssumption DEF PortError, Return, Idle, PCs, log, effects, counters, budget
<1>13. CASE Append
  BY <1>13 DEF Append, log, effects, counters, budget
<1>14. CASE Crash
  BY <1>14, BoundAssumption DEF Crash, Idle, PCs, Unset, log, effects
<1>15. CASE UNCHANGED vars
  BY <1>15 DEF vars, log, effects, counters, budget
<1> QED
  BY <1>1, <1>2, <1>3, <1>4, <1>5, <1>6, <1>7, <1>8, <1>9, <1>10, <1>11, <1>12,
     <1>13, <1>14, <1>15 DEF Next, Continue

\* The variables keep their types in every behaviour, and a record is given up
\* after at most max_attempts deliveries (deliver_one, retry_if).
THEOREM TypeCorrect == Spec => []TypeOK
<1>1. TypeInv => TypeOK
  BY DEF TypeInv
<1> QED
  BY TypeInit, TypeStep, <1>1, PTL DEF Spec

-----------------------------------------------------------------------------
(* At-least-once: nothing is lost, nothing is skipped                      *)

\* Every offset below x was delivered, dead-lettered or pruned.
Below(x) == \A o \in Nat : o < x => Settled(o)

\* NoLoss speaks of the saved checkpoint and of the cursor; it is inductive
\* together with the same fact about every offset a task carries across an
\* await: the one it loaded and the one it fetches from, the record it has
\* reached in its batch and, once the batch is done, the end it commits.
NothingLost ==
    /\ Below(ckpt)
    /\ Below(cursor)
    /\ \A t \in Tasks :
         /\ task[t].pc \in {"loaded", "statusLoaded", "fetch"} => Below(task[t].from)
         /\ task[t].pc \in {"deliver", "dead"} => Below(task[t].pos)
         /\ task[t].pc \in {"save", "saved"} => Below(task[t].next)

\* Steps that only add to the sink, to the dead-letter queue and to what
\* retention pruned leave every settled offset settled.
LEMMA SettledStays ==
    ASSUME delivered \subseteq delivered', dlq \subseteq dlq',
           logStart \in Nat, logStart' \in Nat, logStart <= logStart'
    PROVE  \A o \in Nat : Settled(o) => Settled(o)'
BY DEF Settled, Handled

\* The fetched batch starts behind settled offsets: fetch clamps forward only
\* over pruned ones.
LEMMA FetchFromSettled ==
    ASSUME TypeOK, NEW t \in Tasks, Below(task[t].from)
    PROVE  Below(FetchFrom(t))
BY DEF TypeOK, Below, Settled, FetchFrom, Max2

\* A step that handles the record at pos and goes on to the next one.
LEMMA RecordHandled ==
    ASSUME TypeOK, NothingLost, Guarantee = AtLeastOnce, NEW t \in Tasks,
           task[t].pc \in {"deliver", "dead"}, NextRecord(t),
           \A o \in Nat : Settled(o) => Settled(o)',
           \A o \in Nat : o = task[t].pos => Settled(o)',
           UNCHANGED <<ckpt, cursor>>
    PROVE  NothingLost'
<1> USE DEF NothingLost, Below
<1>1. \A o \in Nat : o < task[t].pos + 1 => Settled(o)'
  BY DEF TypeOK
<1>2. CASE task[t].pos + 1 < task[t].next
  BY <1>1, <1>2 DEF NextRecord, TypeOK
<1>3. CASE ~(task[t].pos + 1 < task[t].next)
  BY <1>1, <1>3 DEF NextRecord, TypeOK
<1> QED
  BY <1>2, <1>3

\* Every step keeps NothingLost in at-least-once mode.
LEMMA NothingLostStep ==
    ASSUME Guarantee = AtLeastOnce, DurableCheckpoints => DurableDlq
    PROVE  TypeOK /\ NothingLost /\ [Next]_vars /\ TypeOK' => NothingLost'
<1> SUFFICES ASSUME TypeOK, NothingLost, [Next]_vars, TypeOK' PROVE NothingLost'
  OBVIOUS
<1>0. ASSUME UNCHANGED <<log, effects>>
      PROVE  \A o \in Nat : Settled(o)' <=> Settled(o)
  BY <1>0 DEF Settled, Handled, log, effects
<1>1. ASSUME NEW t \in Tasks, RunOnce(t) PROVE NothingLost'
  BY <1>0, <1>1 DEF NothingLost, Below, RunOnce, Goto, TypeOK
<1>2. ASSUME NEW t \in Tasks, Status(t) PROVE NothingLost'
  BY <1>0, <1>2 DEF NothingLost, Below, Status, Goto, TypeOK
<1>3. ASSUME NEW t \in Tasks, LoadCheckpoint(t) PROVE NothingLost'
  BY <1>0, <1>3 DEF NothingLost, Below, LoadCheckpoint, TypeOK
<1>4. ASSUME NEW t \in Tasks, CacheCheckpoint(t) PROVE NothingLost'
  BY <1>0, <1>4 DEF NothingLost, Below, CacheCheckpoint, Goto, Return, Idle, TypeOK
<1>5. ASSUME NEW t \in Tasks, FetchNothing(t) PROVE NothingLost'
  BY <1>0, <1>5 DEF NothingLost, Below, FetchNothing, Return, Idle, TypeOK
<1>6. ASSUME NEW t \in Tasks, FetchBatch(t) PROVE NothingLost'
  <2>1. Below(FetchFrom(t))
    BY <1>6, FetchFromSettled DEF FetchBatch, NothingLost
  <2>2. AfterFetch = "deliver"
    BY DEF AfterFetch, AtLeastOnce, AtMostOnce
  <2> QED
    BY <1>0, <1>6, <2>1, <2>2 DEF NothingLost, Below, FetchBatch, TypeOK
<1>7. ASSUME NEW t \in Tasks, SaveCheckpoint(t) PROVE NothingLost'
  BY <1>0, <1>7 DEF NothingLost, Below, SaveCheckpoint, Goto, TypeOK
<1>8. ASSUME NEW t \in Tasks, AdvanceCursor(t) PROVE NothingLost'
  BY <1>0, <1>8
     DEF NothingLost, Below, AdvanceCursor, Return, Idle, TypeOK, AtLeastOnce, AtMostOnce
<1>9. ASSUME NEW t \in Tasks, Deliver(t) PROVE NothingLost'
  <2>1. \A o \in Nat : Settled(o) => Settled(o)'
    BY <1>9, SettledStays DEF Deliver, TakeEffect, TypeOK, log
  <2>2. \A o \in Nat : o = task[t].pos => Settled(o)'
    BY <1>9 DEF Deliver, TakeEffect, Settled, Handled
  <2> QED
    BY <1>9, <2>1, <2>2, RecordHandled DEF Deliver
<1>10. ASSUME NEW t \in Tasks, DeliverFails(t) PROVE NothingLost'
  <2>1. \A o \in Nat : Settled(o) => Settled(o)'
    BY <1>10, SettledStays DEF DeliverFails, TakeEffect, TypeOK, log
  <2> QED
    BY <1>10, <2>1 DEF NothingLost, Below, DeliverFails, TypeOK
<1>11. ASSUME NEW t \in Tasks, DeadLetter(t) PROVE NothingLost'
  <2>1. \A o \in Nat : Settled(o) => Settled(o)'
    BY <1>11, SettledStays DEF DeadLetter, DeadLetterRecord, TypeOK, log
  <2>2. \A o \in Nat : o = task[t].pos => Settled(o)'
    <3> DEFINE e == [offset |-> task[t].pos, attempts |-> Attempts]
    <3>1. e \in dlq' /\ e.offset = task[t].pos
      BY <1>11 DEF DeadLetter, DeadLetterRecord
    <3>2. task[t].pos \in {d.offset : d \in dlq'}
      BY <3>1
    <3> QED
      BY <3>2 DEF Settled, Handled
  <2> QED
    BY <1>11, <2>1, <2>2, RecordHandled DEF DeadLetter, DeadLetterRecord
<1>12. ASSUME NEW t \in Tasks, PortError(t) PROVE NothingLost'
  BY <1>0, <1>12 DEF NothingLost, Below, PortError, Return, Idle, TypeOK
<1>13. CASE Append
  <2>1. \A o \in Nat : Settled(o) => Settled(o)'
    BY <1>13, SettledStays DEF Append, TypeOK, effects
  <2> QED
    BY <1>13, <2>1 DEF NothingLost, Below, Append, TypeOK
<1>14. CASE Crash
  <2>1. cursor' = Unset /\ task' = [t \in Tasks |-> Idle]
    BY <1>14 DEF Crash
  <2>2. Below(ckpt)'
    <3>1. CASE DurableCheckpoints
      <4>1. ckpt' = ckpt /\ \A o \in Nat : Settled(o)' <=> Settled(o)
        BY <1>14, <3>1 DEF Crash, Settled, Handled, log
      <4> QED
        BY <4>1 DEF NothingLost, Below
    <3>2. CASE ~DurableCheckpoints
      BY <1>14, <3>2 DEF Crash, Below
    <3> QED BY <3>1, <3>2
  <2> QED
    BY <2>1, <2>2 DEF NothingLost, Below, Idle, Unset
<1>15. CASE UNCHANGED vars
  BY <1>0, <1>15 DEF NothingLost, Below, vars
<1> QED
  BY <1>1, <1>2, <1>3, <1>4, <1>5, <1>6, <1>7, <1>8, <1>9, <1>10, <1>11, <1>12,
     <1>13, <1>14, <1>15 DEF Next, Continue

\* At-least-once delivery: with any number of tasks calling run_once and status,
\* any port errors, lost acknowledgements, retention and crashes, no record
\* below the checkpoint or the cursor is lost, provided the dead-letter sink is
\* as durable as the checkpoint store.
THEOREM AtLeastOnceNoLoss ==
    ASSUME Guarantee = AtLeastOnce, DurableCheckpoints => DurableDlq
    PROVE  Spec => []NoLoss
<1>1. Init => NothingLost
  BY DEF Init, NothingLost, Below, Idle, Unset
<1>2. TypeInv /\ NothingLost /\ [Next]_vars => (TypeInv /\ NothingLost)'
  BY TypeStep, NothingLostStep DEF TypeInv
<1>3. TypeInv /\ NothingLost => NoLoss
  BY DEF TypeInv, TypeOK, NothingLost, Below, NoLoss, Max2, Unset
<1> QED
  BY <1>1, <1>2, <1>3, TypeInit, PTL DEF Spec

\* Records are handled in offset order, seen from the records that were handled.
HandledInOrder == \A o \in Handled : Below(o)

\* A record is handled only when its task has reached it in its batch, and
\* NothingLost has settled everything before it by then.
LEMMA HandledInOrderStep ==
    ASSUME Guarantee = AtLeastOnce, DurableDlq
    PROVE  TypeOK /\ NothingLost /\ HandledInOrder /\ [Next]_vars => HandledInOrder'
<1> SUFFICES ASSUME TypeOK, NothingLost, HandledInOrder, [Next]_vars
             PROVE  HandledInOrder'
  OBVIOUS
<1> DEFINE Reached(o) == \E t \in Tasks : /\ task[t].pc \in {"deliver", "dead"}
                                          /\ o = task[t].pos
<1>1. ASSUME \A o \in Nat : Settled(o) => Settled(o)',
             \A o \in Handled' : o \in Handled \/ Reached(o)
      PROVE  HandledInOrder'
  <2> SUFFICES ASSUME NEW o \in Handled' PROVE Below(o)
    BY <1>1 DEF HandledInOrder, Below
  <2>1. CASE o \in Handled
    BY <2>1 DEF HandledInOrder
  <2>2. CASE Reached(o)
    BY <2>2 DEF NothingLost
  <2> QED BY <1>1, <2>1, <2>2
<1>2. ASSUME NEW t \in Tasks, Deliver(t) PROVE HandledInOrder'
  <2>1. \A o \in Nat : Settled(o) => Settled(o)'
    BY <1>2, SettledStays DEF Deliver, TakeEffect, TypeOK, log
  <2>2. \A o \in Handled' : o \in Handled \/ Reached(o)
    BY <1>2 DEF Deliver, TakeEffect, Handled
  <2> QED BY <1>1, <2>1, <2>2
<1>3. ASSUME NEW t \in Tasks, DeliverFails(t) PROVE HandledInOrder'
  <2>1. \A o \in Nat : Settled(o) => Settled(o)'
    BY <1>3, SettledStays DEF DeliverFails, TakeEffect, TypeOK, log
  <2>2. \A o \in Handled' : o \in Handled \/ Reached(o)
    BY <1>3 DEF DeliverFails, TakeEffect, Handled
  <2> QED BY <1>1, <2>1, <2>2
<1>4. ASSUME NEW t \in Tasks, DeadLetter(t) PROVE HandledInOrder'
  <2>1. \A o \in Nat : Settled(o) => Settled(o)'
    BY <1>4, SettledStays DEF DeadLetter, DeadLetterRecord, TypeOK, log
  <2>2. \A o \in Handled' : o \in Handled \/ Reached(o)
    BY <1>4 DEF DeadLetter, DeadLetterRecord, Handled
  <2> QED BY <1>1, <2>1, <2>2
<1>5. CASE Append
  <2>1. \A o \in Nat : Settled(o) => Settled(o)'
    BY <1>5, SettledStays DEF Append, TypeOK, effects
  <2>2. Handled' = Handled
    BY <1>5 DEF Append, Handled, effects
  <2> QED BY <1>1, <2>1, <2>2
<1>6. CASE UNCHANGED <<logStart, delivered, dlq>>
  BY <1>6 DEF HandledInOrder, Below, Settled, Handled
<1>7. Crash => UNCHANGED <<logStart, delivered, dlq>>
  BY DEF Crash, log
<1>8. ASSUME NEW t \in Tasks,
             \/ RunOnce(t) \/ Status(t) \/ LoadCheckpoint(t) \/ CacheCheckpoint(t)
             \/ FetchNothing(t) \/ FetchBatch(t) \/ SaveCheckpoint(t)
             \/ AdvanceCursor(t) \/ PortError(t)
      PROVE  UNCHANGED <<logStart, delivered, dlq>>
  BY <1>8 DEF RunOnce, Status, LoadCheckpoint, CacheCheckpoint, FetchNothing, FetchBatch,
              SaveCheckpoint, AdvanceCursor, PortError, log, effects
<1>9. UNCHANGED vars => UNCHANGED <<logStart, delivered, dlq>>
  BY DEF vars, log, effects
<1> QED
  BY <1>2, <1>3, <1>4, <1>5, <1>6, <1>7, <1>8, <1>9 DEF Next, Continue

\* At-least-once delivery is in order: with a durable dead-letter sink, no
\* record is handled while an earlier retained one is not, however many tasks
\* call run_once and whatever fails.
THEOREM AtLeastOnceInOrder ==
    ASSUME Guarantee = AtLeastOnce, DurableDlq
    PROVE  Spec => []NoGaps
<1>1. Init => NothingLost /\ HandledInOrder
  BY DEF Init, NothingLost, HandledInOrder, Handled, Below, Idle, Unset
<1>2. TypeInv /\ NothingLost /\ HandledInOrder /\ [Next]_vars
        => (TypeInv /\ NothingLost /\ HandledInOrder)'
  BY TypeStep, NothingLostStep, HandledInOrderStep DEF TypeInv
<1>3. TypeInv /\ HandledInOrder => NoGaps
  <2> SUFFICES ASSUME TypeInv, HandledInOrder, NEW o \in Handled, NEW p \in 0 .. o - 1
               PROVE  Settled(p)
    BY DEF NoGaps
  <2>1. o \in Nat
    BY DEF TypeInv, TypeOK, Handled
  <2> QED
    BY <2>1 DEF HandledInOrder, Below
<1> QED
  BY <1>1, <1>2, <1>3, TypeInit, PTL DEF Spec

-----------------------------------------------------------------------------
(* At-most-once: no record takes effect twice                              *)

\* What makes NoDuplicates inductive for a single task: the cursor is the saved
\* checkpoint except between a save and the update of the cursor; a fetch starts
\* at the checkpoint; a batch lies at or beyond it until it is committed and
\* below it from then on; and everything that took effect lies before the record
\* the task has reached.
CommittedFirst ==
    /\ redelivered = {}
    /\ \A o \in delivered : o < ckpt
    /\ \A e \in dlq : e.offset < ckpt
    /\ \A t \in Tasks :
         /\ cursor \in {Unset, ckpt} \/ task[t].pc = "saved"
         /\ task[t].pc \in {"loaded", "statusLoaded", "fetch"} => task[t].from = ckpt
         /\ task[t].pc = "save" => ckpt <= task[t].pos /\ task[t].pos < task[t].next
         /\ task[t].pc \in {"saved", "deliver", "dead"} =>
              /\ task[t].pos < task[t].next
              /\ task[t].next = ckpt
              /\ \A o \in delivered : o < task[t].pos

\* The configuration in which at-most-once holds: one task drives the runtime,
\* checkpoints are durable, and a delivery that reports an error had no effect.
OneReliableTask ==
    /\ Guarantee = AtMostOnce
    /\ \A t, u \in Tasks : t = u
    /\ DurableCheckpoints
    /\ ~LostAcks

\* Every step of a single task keeps CommittedFirst.
LEMMA CommittedFirstStep ==
    ASSUME OneReliableTask
    PROVE  TypeOK /\ CommittedFirst /\ [Next]_vars => CommittedFirst'
<1> SUFFICES ASSUME TypeOK, CommittedFirst, [Next]_vars PROVE CommittedFirst'
  OBVIOUS
<1> USE DEF OneReliableTask, CommittedFirst, TypeOK, log, effects, counters, budget
<1>1. ASSUME NEW t \in Tasks, RunOnce(t) PROVE CommittedFirst'
  BY <1>1 DEF RunOnce, Goto
<1>2. ASSUME NEW t \in Tasks, Status(t) PROVE CommittedFirst'
  BY <1>2 DEF Status, Goto
<1>3. ASSUME NEW t \in Tasks, LoadCheckpoint(t) PROVE CommittedFirst'
  BY <1>3 DEF LoadCheckpoint
<1>4. ASSUME NEW t \in Tasks, CacheCheckpoint(t) PROVE CommittedFirst'
  BY <1>4 DEF CacheCheckpoint, Goto, Return, Idle
<1>5. ASSUME NEW t \in Tasks, FetchNothing(t) PROVE CommittedFirst'
  BY <1>5 DEF FetchNothing, Return, Idle
<1>6. ASSUME NEW t \in Tasks, FetchBatch(t) PROVE CommittedFirst'
  <2>1. AfterFetch = "save"
    BY DEF AfterFetch
  <2>2. /\ FetchFrom(t) \in Nat /\ FetchEnd(t) \in Nat
        /\ ckpt <= FetchFrom(t) /\ FetchFrom(t) < FetchEnd(t)
    BY <1>6, FetchType DEF FetchBatch, FetchFrom, Max2
  <2> QED
    BY <1>6, <2>1, <2>2 DEF FetchBatch
<1>7. ASSUME NEW t \in Tasks, SaveCheckpoint(t) PROVE CommittedFirst'
  BY <1>7 DEF SaveCheckpoint, Goto
<1>8. ASSUME NEW t \in Tasks, AdvanceCursor(t) PROVE CommittedFirst'
  BY <1>8 DEF AdvanceCursor, Goto, AtLeastOnce, AtMostOnce
<1>9. ASSUME NEW t \in Tasks, Deliver(t) PROVE CommittedFirst'
  BY <1>9 DEF Deliver, TakeEffect, NextRecord, Return, Idle, AtLeastOnce, AtMostOnce
<1>10. ASSUME NEW t \in Tasks, DeliverFails(t) PROVE CommittedFirst'
  BY <1>10 DEF DeliverFails
<1>11. ASSUME NEW t \in Tasks, DeadLetter(t) PROVE CommittedFirst'
  BY <1>11 DEF DeadLetter, DeadLetterRecord, NextRecord, Return, Idle, AtLeastOnce, AtMostOnce
<1>12. ASSUME NEW t \in Tasks, PortError(t) PROVE CommittedFirst'
  BY <1>12 DEF PortError, Return, Idle
<1>13. CASE Append
  BY <1>13 DEF Append
<1>14. CASE Crash
  BY <1>14 DEF Crash, Idle
<1>15. CASE UNCHANGED vars
  BY <1>15 DEF vars
<1> QED
  BY <1>1, <1>2, <1>3, <1>4, <1>5, <1>6, <1>7, <1>8, <1>9, <1>10, <1>11, <1>12,
     <1>13, <1>14, <1>15 DEF Next, Continue

\* At-most-once delivery: one task, durable checkpoints and no lost
\* acknowledgement; then no record takes effect twice, across any number of
\* crashes and port errors.
THEOREM AtMostOnceNoDuplicates ==
    ASSUME OneReliableTask
    PROVE  Spec => []NoDuplicates
<1>1. Init => CommittedFirst
  BY DEF Init, CommittedFirst, Idle
<1>2. TypeInv /\ CommittedFirst /\ [Next]_vars => (TypeInv /\ CommittedFirst)'
  BY TypeStep, CommittedFirstStep DEF TypeInv
<1>3. CommittedFirst => NoDuplicates
  BY DEF CommittedFirst, NoDuplicates
<1> QED
  BY <1>1, <1>2, <1>3, TypeInit, PTL DEF Spec

\* The reason for it: in that configuration a record is delivered or
\* dead-lettered only after the checkpoint beyond it is in the store.
THEOREM AtMostOnceCommitFirst ==
    ASSUME OneReliableTask
    PROVE  Spec => []CommitBeforeDelivery
<1>1. Init => CommittedFirst
  BY DEF Init, CommittedFirst, Idle
<1>2. TypeInv /\ CommittedFirst /\ [Next]_vars => (TypeInv /\ CommittedFirst)'
  BY TypeStep, CommittedFirstStep DEF TypeInv
<1>3. CommittedFirst => CommitBeforeDelivery
  BY DEF CommittedFirst, CommitBeforeDelivery, Handled
<1> QED
  BY <1>1, <1>2, <1>3, TypeInit, PTL DEF Spec

-----------------------------------------------------------------------------
(* One task: the cached cursor is never stale, and what a crash redelivers *)
(* is bounded                                                              *)

\* run_once and status are called by one task only, as a pipeline calls them.
OneTask == \A t, u \in Tasks : t = u

\* What makes ResumesAtCheckpoint inductive: the cursor agrees with the store
\* except between a save and the update of the cursor, and an offset that was
\* loaded is still the one in the store.  A second task breaks both: its save
\* falls between the load and the caching of the first.
CursorFresh ==
    \A t \in Tasks :
        /\ cursor \in {Unset, ckpt} \/ task[t].pc = "saved"
        /\ task[t].pc \in {"loaded", "statusLoaded", "fetch"} => task[t].from = ckpt
        /\ task[t].pc = "saved" => task[t].next = ckpt

\* Every step of a single task keeps the cursor fresh, a crash that forgets the
\* checkpoints of a MemoryCheckpointStore too: it forgets the cursor with them.
LEMMA CursorFreshStep ==
    ASSUME OneTask
    PROVE  TypeOK /\ CursorFresh /\ [Next]_vars => CursorFresh'
<1> SUFFICES ASSUME TypeOK, CursorFresh, [Next]_vars PROVE CursorFresh'
  OBVIOUS
<1> USE DEF OneTask, CursorFresh, TypeOK
<1>1. ASSUME NEW t \in Tasks, RunOnce(t) PROVE CursorFresh'
  BY <1>1 DEF RunOnce, Goto
<1>2. ASSUME NEW t \in Tasks, Status(t) PROVE CursorFresh'
  BY <1>2 DEF Status, Goto
<1>3. ASSUME NEW t \in Tasks, LoadCheckpoint(t) PROVE CursorFresh'
  BY <1>3 DEF LoadCheckpoint
<1>4. ASSUME NEW t \in Tasks, CacheCheckpoint(t) PROVE CursorFresh'
  BY <1>4 DEF CacheCheckpoint, Goto, Return, Idle
<1>5. ASSUME NEW t \in Tasks, FetchNothing(t) \/ PortError(t) PROVE CursorFresh'
  BY <1>5 DEF FetchNothing, PortError, Return, Idle
<1>6. ASSUME NEW t \in Tasks, FetchBatch(t) PROVE CursorFresh'
  <2>1. AfterFetch \in {"save", "deliver"}
    BY DEF AfterFetch
  <2> QED
    BY <1>6, <2>1 DEF FetchBatch
<1>7. ASSUME NEW t \in Tasks, SaveCheckpoint(t) PROVE CursorFresh'
  BY <1>7 DEF SaveCheckpoint, Goto
<1>8. ASSUME NEW t \in Tasks, AdvanceCursor(t) PROVE CursorFresh'
  BY <1>8 DEF AdvanceCursor, Goto, Return, Idle
<1>9. ASSUME NEW t \in Tasks, Deliver(t) \/ DeadLetter(t) PROVE CursorFresh'
  BY <1>9 DEF Deliver, DeadLetter, NextRecord, Return, Idle
<1>10. ASSUME NEW t \in Tasks, DeliverFails(t) PROVE CursorFresh'
  BY <1>10 DEF DeliverFails
<1>11. CASE Append
  BY <1>11 DEF Append
<1>12. CASE Crash
  BY <1>12 DEF Crash, Idle
<1>13. CASE UNCHANGED vars
  BY <1>13 DEF vars
<1> QED
  BY <1>1, <1>2, <1>3, <1>4, <1>5, <1>6, <1>7, <1>8, <1>9, <1>10, <1>11, <1>12,
     <1>13 DEF Next, Continue

\* A single task always fetches from the checkpoint in the store: after port
\* errors, status calls and crashes, with either guarantee and either
\* checkpoint store (resolve_checkpoint, commit_checkpoint).
THEOREM OneTaskResumes ==
    ASSUME OneTask
    PROVE  Spec => []ResumesAtCheckpoint
<1>1. Init => CursorFresh
  BY DEF Init, CursorFresh, Idle
<1>2. TypeInv /\ CursorFresh /\ [Next]_vars => (TypeInv /\ CursorFresh)'
  BY TypeStep, CursorFreshStep DEF TypeInv
<1>3. CursorFresh => ResumesAtCheckpoint
  BY DEF CursorFresh, ResumesAtCheckpoint
<1> QED
  BY <1>1, <1>2, <1>3, TypeInit, PTL DEF Spec

\* The offsets a crash can redeliver end here.
RedeliveryEnd == Max2(ckpt, logStart) + BatchSize

\* What makes BoundedRedelivery inductive: a batch in progress starts at or
\* after the checkpoint and ends before RedeliveryEnd, and so does everything
\* that was ever handled.
BatchBounded ==
    /\ \A o \in Handled : o < RedeliveryEnd
    /\ \A t \in Tasks : task[t].pc \in {"deliver", "dead", "save"} =>
         /\ ckpt <= task[t].pos
         /\ task[t].pos < task[t].next
         /\ task[t].next <= RedeliveryEnd

\* Every step of a single task keeps BatchBounded in at-least-once mode.
LEMMA BatchBoundedStep ==
    ASSUME Guarantee = AtLeastOnce, OneTask, DurableCheckpoints
    PROVE  TypeOK /\ CursorFresh /\ BatchBounded /\ [Next]_vars /\ TypeOK'
             => BatchBounded'
<1> SUFFICES ASSUME TypeOK, CursorFresh, BatchBounded, [Next]_vars, TypeOK'
             PROVE  BatchBounded'
  OBVIOUS
<1>a. Handled \subseteq Nat /\ Handled' \subseteq Nat
  BY DEF TypeOK, Handled
<1>b. RedeliveryEnd \in Nat /\ RedeliveryEnd' \in Nat
  <2>1. BatchSize \in Nat /\ {ckpt, logStart, ckpt', logStart'} \subseteq Nat
    BY ConfigAssumption DEF TypeOK
  <2> QED
    BY <2>1 DEF RedeliveryEnd, Max2
<1>0. ASSUME UNCHANGED <<log, ckpt, delivered, dlq>>
      PROVE  RedeliveryEnd' = RedeliveryEnd /\ Handled' = Handled
  BY <1>0 DEF RedeliveryEnd, Handled, log
<1>1. ASSUME NEW t \in Tasks,
             RunOnce(t) \/ Status(t) \/ LoadCheckpoint(t) \/ CacheCheckpoint(t)
      PROVE  BatchBounded'
  <2>1. UNCHANGED <<log, ckpt, delivered, dlq>>
    BY <1>1 DEF RunOnce, Status, LoadCheckpoint, CacheCheckpoint, effects
  <2> QED
    BY <1>0, <1>1, <2>1 DEF BatchBounded, RunOnce, Status, LoadCheckpoint, CacheCheckpoint,
                            Goto, Return, Idle, TypeOK
<1>2. ASSUME NEW t \in Tasks, FetchNothing(t) \/ PortError(t) PROVE BatchBounded'
  <2>1. UNCHANGED <<log, ckpt, delivered, dlq>>
    BY <1>2 DEF FetchNothing, PortError, effects
  <2> QED
    BY <1>0, <1>2, <2>1 DEF BatchBounded, FetchNothing, PortError, Return, Idle, TypeOK
<1>3. ASSUME NEW t \in Tasks, FetchBatch(t) PROVE BatchBounded'
  <2>1. AfterFetch = "deliver"
    BY DEF AfterFetch, AtLeastOnce, AtMostOnce
  <2>2. UNCHANGED <<log, ckpt, delivered, dlq>>
    BY <1>3 DEF FetchBatch, effects
  <2>3. /\ FetchFrom(t) \in Nat /\ FetchEnd(t) \in Nat
        /\ ckpt <= FetchFrom(t) /\ FetchFrom(t) < FetchEnd(t)
        /\ FetchEnd(t) <= RedeliveryEnd
    BY <1>3, ConfigAssumption, FetchType DEF FetchBatch, CursorFresh, FetchFrom, FetchEnd, RedeliveryEnd,
                           Max2, Min2, TypeOK
  <2> QED
    BY <1>0, <1>3, <2>1, <2>2, <2>3 DEF BatchBounded, FetchBatch, TypeOK
<1>4. ASSUME NEW t \in Tasks, SaveCheckpoint(t) PROVE BatchBounded'
  <2>1. Handled' = Handled /\ task'[t].pc = "saved"
    BY <1>4 DEF SaveCheckpoint, Goto, Handled, effects, TypeOK
  <2>2. ckpt <= ckpt'
    BY <1>4 DEF SaveCheckpoint, BatchBounded, TypeOK
  <2>3. RedeliveryEnd <= RedeliveryEnd'
    BY <1>4, <2>2, ConfigAssumption DEF SaveCheckpoint, RedeliveryEnd, Max2, TypeOK, log
  <2>4. \A o \in Handled' : o < RedeliveryEnd'
    BY <1>a, <1>b, <2>1, <2>3 DEF BatchBounded
  <2> QED
    BY <2>1, <2>4 DEF BatchBounded, OneTask
<1>5. ASSUME NEW t \in Tasks, AdvanceCursor(t) PROVE BatchBounded'
  <2>1. UNCHANGED <<log, ckpt, delivered, dlq>>
    BY <1>5 DEF AdvanceCursor, effects
  <2> QED
    BY <1>0, <1>5, <2>1 DEF BatchBounded, AdvanceCursor, Return, Idle, TypeOK,
                            AtLeastOnce, AtMostOnce
<1>6. ASSUME NEW t \in Tasks, task[t].pc \in {"deliver", "dead"},
             \A o \in Handled' : o \in Handled \/ o = task[t].pos,
             UNCHANGED <<log, ckpt>>,
             NextRecord(t) \/ task' = [task EXCEPT ![t].attempt = @ + 1]
               \/ task' = [task EXCEPT ![t].attempt = @ + 1, ![t].pc = "dead"]
      PROVE  BatchBounded'
  <2>1. RedeliveryEnd' = RedeliveryEnd
    BY <1>6 DEF RedeliveryEnd, log
  <2>2. \A o \in Handled' : o < RedeliveryEnd'
    BY <1>a, <1>b, <1>6, <2>1 DEF BatchBounded, TypeOK
  <2>3. \A u \in Tasks : task'[u].pc \in {"deliver", "dead", "save"} =>
           /\ ckpt <= task'[u].pos
           /\ task'[u].pos < task'[u].next
           /\ task'[u].next <= RedeliveryEnd
    BY <1>6 DEF BatchBounded, TypeOK, NextRecord, Return, Idle
  <2> QED
    BY <1>6, <2>1, <2>2, <2>3 DEF BatchBounded
<1>7. ASSUME NEW t \in Tasks, Deliver(t) PROVE BatchBounded'
  BY <1>6, <1>7 DEF Deliver, TakeEffect, Handled
<1>8. ASSUME NEW t \in Tasks, DeliverFails(t) PROVE BatchBounded'
  BY <1>6, <1>8 DEF DeliverFails, TakeEffect, Handled
<1>9. ASSUME NEW t \in Tasks, DeadLetter(t) PROVE BatchBounded'
  <2>1. \A o \in Handled' : o \in Handled \/ o = task[t].pos
    BY <1>9 DEF DeadLetter, DeadLetterRecord, Handled
  <2> QED
    BY <1>6, <1>9, <2>1 DEF DeadLetter
<1>10. CASE Append
  <2>1. Handled' = Handled /\ task' = task /\ ckpt' = ckpt /\ logStart <= logStart'
    BY <1>10 DEF Append, Handled, effects, TypeOK
  <2>2. BatchSize \in Nat /\ {ckpt, logStart, logStart'} \subseteq Nat
    BY ConfigAssumption DEF TypeOK
  <2>3. RedeliveryEnd <= RedeliveryEnd'
    BY <2>1, <2>2 DEF RedeliveryEnd, Max2
  <2> QED
    BY <1>a, <1>b, <2>1, <2>3 DEF BatchBounded, TypeOK
<1>11. CASE Crash
  <2>1. RedeliveryEnd' = RedeliveryEnd /\ Handled' \subseteq Handled
    BY <1>11 DEF Crash, RedeliveryEnd, Handled, log
  <2> QED
    BY <1>11, <2>1 DEF BatchBounded, Crash, Idle
<1>12. CASE UNCHANGED vars
  BY <1>0, <1>12 DEF BatchBounded, vars, effects
<1> QED
  BY <1>1, <1>2, <1>3, <1>4, <1>5, <1>7, <1>8, <1>9, <1>10, <1>11, <1>12
     DEF Next, Continue

\* At-least-once with one task and durable checkpoints: what a crash or a port
\* error can make it handle again lies within a batch of the checkpoint, whatever the
\* batch size, the retry bound and the retention.
THEOREM OneTaskBoundedRedelivery ==
    ASSUME Guarantee = AtLeastOnce, OneTask, DurableCheckpoints
    PROVE  Spec => []BoundedRedelivery
<1>1. Init => CursorFresh /\ BatchBounded
  BY DEF Init, CursorFresh, BatchBounded, Handled, Idle
<1>2. TypeInv /\ CursorFresh /\ BatchBounded /\ [Next]_vars
        => (TypeInv /\ CursorFresh /\ BatchBounded)'
  BY TypeStep, CursorFreshStep, BatchBoundedStep DEF TypeInv
<1>3. BatchBounded => BoundedRedelivery
  BY DEF BatchBounded, BoundedRedelivery, RedeliveryEnd
<1> QED
  BY <1>1, <1>2, <1>3, TypeInit, PTL DEF Spec

-----------------------------------------------------------------------------
(* At-least-once: an empty poll means the sink has caught up               *)

\* Only FetchNothing ends a fetch without a fault or a crash, and what it found
\* empty is the rest of the log behind a settled offset.
LEMMA CaughtUpStep ==
    ASSUME BatchSize > 0
    PROVE  TypeOK /\ NothingLost /\ [Next]_vars /\ (\E t \in Tasks : EmptyPoll(t))
             => \A o \in 0 .. logNext - 1 : Settled(o)
<1> SUFFICES ASSUME TypeOK, NothingLost, [Next]_vars, NEW t \in Tasks, EmptyPoll(t)
             PROVE  \A o \in 0 .. logNext - 1 : Settled(o)
  OBVIOUS
<1> USE DEF EmptyPoll
<1>1. FetchNothing(t)
  <2>1. ASSUME NEW u \in Tasks, RunOnce(u) \/ Status(u) \/ Continue(u)
        PROVE  u = t
    <3>1. \A v \in Tasks : v # u => task'[v] = task[v]
      BY <2>1 DEF RunOnce, Status, Continue, LoadCheckpoint, CacheCheckpoint, FetchNothing,
                  FetchBatch, SaveCheckpoint, AdvanceCursor, Deliver, DeliverFails, DeadLetter,
                  PortError, NextRecord, Goto, Return, TypeOK
    <3> QED
      BY <3>1
  <2>2. ~RunOnce(t) /\ ~Status(t) /\ ~LoadCheckpoint(t) /\ ~CacheCheckpoint(t)
    BY DEF RunOnce, Status, LoadCheckpoint, CacheCheckpoint
  <2>3. ~SaveCheckpoint(t) /\ ~AdvanceCursor(t) /\ ~Deliver(t) /\ ~DeliverFails(t)
          /\ ~DeadLetter(t)
    BY DEF SaveCheckpoint, AdvanceCursor, Deliver, DeliverFails, DeadLetter
  <2>4. ~FetchBatch(t)
    BY DEF FetchBatch, AfterFetch, TypeOK
  <2>5. ~PortError(t) /\ ~Crash
    BY BoundAssumption DEF PortError, Crash, budget, TypeOK
  <2>6. ~Append /\ ~UNCHANGED vars
    BY DEF Append, vars
  <2> QED
    BY <2>1, <2>2, <2>3, <2>4, <2>5, <2>6 DEF Next, Continue
<1>2. Below(FetchFrom(t))
  BY FetchFromSettled DEF NothingLost
<1>3. logNext <= FetchFrom(t)
  BY <1>1, ConfigAssumption, FetchType DEF FetchNothing, FetchEnd, Min2, TypeOK
<1> QED
  BY <1>2, <1>3, FetchType DEF Below, TypeOK

\* At-least-once: a run_once that reports polled = 0 has handled, or seen
\* pruned, every record of the log, with any number of tasks and any faults.
\* A batch size of zero is excluded: every poll is then empty.
THEOREM EmptyPollCaughtUp ==
    ASSUME Guarantee = AtLeastOnce, DurableCheckpoints => DurableDlq, BatchSize > 0
    PROVE  Spec => CaughtUp
<1>1. Init => NothingLost
  BY DEF Init, NothingLost, Below, Idle, Unset
<1>2. TypeInv /\ NothingLost /\ [Next]_vars => (TypeInv /\ NothingLost)'
  BY TypeStep, NothingLostStep DEF TypeInv
<1>3. TypeInv /\ NothingLost /\ [Next]_vars =>
        [ Guarantee = AtLeastOnce /\ (\E t \in Tasks : EmptyPoll(t))
            => \A o \in 0 .. logNext - 1 : Settled(o) ]_vars
  BY CaughtUpStep DEF TypeInv
<1> QED
  BY <1>1, <1>2, <1>3, TypeInit, PTL DEF Spec, CaughtUp

=============================================================================
