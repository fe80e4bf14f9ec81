--------------------------- MODULE MemoryLogStore ----------------------------
(***************************************************************************)
(* One partition of the in-memory log store of connectforge-infra          *)
(* (memstore.rs), the default backend.  The store's mutex is held for a    *)
(* whole append, so fetches see the partition only between calls; the      *)
(* append is split at the iterations of its two loops, the push of one     *)
(* record and the removal of one, as a reader of the code goes through it. *)
(***************************************************************************)
EXTENDS Integers, Sequences, FiniteSets

CONSTANTS
    Values,      \* record contents
    SegmentMax,  \* RetentionPolicy.segment_max_records
    MaxRecords,  \* RetentionPolicy.max_records
    MaxBatch,    \* bound: records per append
    MaxOffset    \* bound: offsets assigned

\* RetentionPolicy::validate rejects a segment size of zero.
ASSUME MemoryPolicyAssumption ==
    /\ SegmentMax \in Nat \ {0}
    /\ MaxRecords \in Nat
    /\ MaxBatch \in Nat
    /\ MaxOffset \in Nat

VARIABLES
    records,       \* Partition.records, oldest first
    start_offset,
    next_offset,
    segments,      \* segments ever begun: retention does not lower the counter
    records_in_active_segment,
    produced_total,
    call           \* the append that holds the lock: its size and what is left of it

vars == <<records, start_offset, next_offset, segments, records_in_active_segment,
          produced_total, call>>

NoCall == [busy |-> FALSE, count |-> 0, todo |-> <<>>]

Init ==
    /\ records = <<>>
    /\ start_offset = 0
    /\ next_offset = 0
    /\ segments = 0
    /\ records_in_active_segment = 0
    /\ produced_total = 0
    /\ call = NoCall

\* MemoryLogStore::append materializes the batch under the lock.
BeginAppend ==
    /\ ~call.busy
    /\ \E n \in 1 .. MaxBatch : \E vals \in [1 .. n -> Values] :
         /\ next_offset + n <= MaxOffset
         /\ call' = [busy |-> TRUE, count |-> n,
                     todo |-> [i \in 1 .. n |-> [offset |-> next_offset + i - 1,
                                                 value |-> vals[i]]]]
    /\ UNCHANGED <<records, start_offset, next_offset, segments,
                   records_in_active_segment, produced_total>>

NeedsRoll == segments = 0 \/ records_in_active_segment >= SegmentMax

\* Deviation: the counter of a fresh segment does not count its first record.
PushRecord_Uncounted ==
    /\ call.busy /\ call.todo # <<>>
    /\ segments' = IF NeedsRoll THEN segments + 1 ELSE segments
    /\ records_in_active_segment' = IF NeedsRoll THEN 0 ELSE records_in_active_segment + 1
    /\ next_offset' = next_offset + 1
    /\ records' = Append(records, Head(call.todo))
    /\ call' = [call EXCEPT !.todo = Tail(@)]
    /\ UNCHANGED <<start_offset, produced_total>>

PushRecord ==
    /\ call.busy /\ call.todo # <<>>
    /\ segments' = IF NeedsRoll THEN segments + 1 ELSE segments
    /\ records_in_active_segment' = IF NeedsRoll THEN 1 ELSE records_in_active_segment + 1
    /\ next_offset' = next_offset + 1
    /\ records' = Append(records, Head(call.todo))
    /\ call' = [call EXCEPT !.todo = Tail(@)]
    /\ UNCHANGED <<start_offset, produced_total>>

\* The condition of the pruning loop.
OverRetention ==
    MaxRecords # 0 /\ next_offset - start_offset > MaxRecords /\ Len(records) > 1

\* Deviation: the loop runs while the bound is met.
RemoveFirst_TooMany ==
    /\ call.busy /\ call.todo = <<>>
    /\ MaxRecords # 0 /\ next_offset - start_offset >= MaxRecords /\ Len(records) > 1
    /\ records' = Tail(records)
    /\ start_offset' = start_offset + 1
    /\ UNCHANGED <<next_offset, segments, records_in_active_segment, produced_total, call>>

RemoveFirst ==
    /\ call.busy /\ call.todo = <<>>
    /\ OverRetention
    /\ records' = Tail(records)
    /\ start_offset' = start_offset + 1
    /\ UNCHANGED <<next_offset, segments, records_in_active_segment, produced_total, call>>

\* Deviation: at most one record is removed, if any.
FinishAppend_Early ==
    /\ call.busy /\ call.todo = <<>>
    /\ produced_total' = produced_total + call.count
    /\ call' = NoCall
    /\ UNCHANGED <<records, start_offset, next_offset, segments, records_in_active_segment>>

FinishAppend ==
    /\ call.busy /\ call.todo = <<>>
    /\ ~OverRetention
    /\ produced_total' = produced_total + call.count
    /\ call' = NoCall
    /\ UNCHANGED <<records, start_offset, next_offset, segments, records_in_active_segment>>

Next == BeginAppend \/ PushRecord \/ RemoveFirst \/ FinishAppend

Spec == Init /\ [][Next]_vars

-----------------------------------------------------------------------------
(* fetch                                                                   *)

EffectiveFrom(from) == IF from >= start_offset THEN from ELSE start_offset

\* iter().filter(..).take(max): of the places the filter keeps, the first max.
NthOf(places, n) == CHOOSE p \in places : Cardinality({q \in places : q <= p}) = n
TakeFirst(places, max) ==
    LET count == Cardinality(places)
    IN  [n \in 1 .. (IF max <= count THEN max ELSE count) |-> records[NthOf(places, n)]]

\* Deviation: the record at the requested offset is left out.
Fetch_After(from, max) ==
    TakeFirst({i \in DOMAIN records : records[i].offset > EffectiveFrom(from)}, max)

Fetch(from, max) ==
    TakeFirst({i \in DOMAIN records : records[i].offset >= EffectiveFrom(from)}, max)

FetchResult(from, max) ==
    LET out == Fetch(from, max)
    IN  [records |-> out,
         next_offset |-> IF out = <<>> THEN EffectiveFrom(from)
                         ELSE out[Len(out)].offset + 1,
         high_watermark |-> next_offset]

-----------------------------------------------------------------------------
(* Properties                                                              *)

Record == [offset : Nat, value : Values]

\* Types of all variables.
TypeOK ==
    /\ records \in Seq(Record)
    /\ start_offset \in Nat
    /\ next_offset \in Nat
    /\ segments \in Nat
    /\ records_in_active_segment \in 0 .. SegmentMax
    /\ produced_total \in Nat
    /\ call \in [busy : BOOLEAN, count : Nat, todo : Seq(Record)]

CL == INSTANCE CommitLog WITH
        head <- start_offset,
        next <- next_offset,
        rec <- [o \in start_offset .. next_offset - 1 |-> records[o - start_offset + 1]]

\* The partition behaves as a CommitLog, like the file store that it stands in
\* for: the loops of append only add at the high watermark and remove at the head.
RefinesCommitLog == CL!Spec

\* Between calls, fetch(from, max) returns exactly the retained records from
\* `from` on, and the offset that follows them, for every from and max.
FetchCorrect ==
    ~call.busy => \A from \in 0 .. MaxOffset + 1, max \in 0 .. MaxBatch + 1 :
                      FetchResult(from, max) = CL!FetchOutcome(from, max)

\* An append leaves at most max_records records in the partition, and never
\* removes more than it must.
RetentionExact ==
    [][ call.busy /\ ~call'.busy /\ MaxRecords > 0 =>
            \/ start_offset = 0 /\ next_offset <= MaxRecords
            \/ next_offset - start_offset = MaxRecords ]_vars

\* Between calls the counters of stats() agree with the offsets ever assigned:
\* each was produced once, and all segments ever begun but the last were filled.
\* That is not the number of segments the field is documented as: a segment
\* whose records retention has removed stays counted, where FileLogStore counts
\* the segments there are.
CountersAgree ==
    ~call.busy =>
        /\ produced_total = next_offset
        /\ next_offset > 0 =>
             (segments - 1) * SegmentMax + records_in_active_segment = next_offset

=============================================================================
