------------------------------ MODULE CommitLog ------------------------------
(***************************************************************************)
(* What a LogStore partition promises (connectforge-core, ports.rs): an    *)
(* append-only log with dense offsets whose head retention may remove.     *)
(* rec maps every retained offset, head .. next-1, to its record.  Records *)
(* never change, offsets are never reused, and nothing is removed while no *)
(* more than MaxRecords records are retained.                              *)
(***************************************************************************)
EXTENDS Integers

CONSTANTS
    Values,      \* record contents
    MaxRecords   \* RetentionPolicy.max_records, 0 for no retention

VARIABLES
    head,        \* earliest retained offset
    next,        \* high watermark
    rec          \* retained records by offset

cvars == <<head, next, rec>>

Init ==
    /\ head = 0
    /\ next = 0
    /\ rec = [o \in 0 .. -1 |-> 0]

AppendRecord(v) ==
    /\ next' = next + 1
    /\ rec' = [o \in head .. next |-> IF o = next THEN [offset |-> next, value |-> v]
                                                  ELSE rec[o]]
    /\ UNCHANGED head

Prune(h) ==
    /\ MaxRecords > 0
    /\ next - head > MaxRecords
    /\ head' = h
    /\ rec' = [o \in h .. next - 1 |-> rec[o]]
    /\ UNCHANGED next

Next ==
    \/ \E v \in Values : AppendRecord(v)
    \/ \E h \in head + 1 .. next - 1 : Prune(h)

Spec == Init /\ [][Next]_cvars

\* What fetch(from, max) returns: `from` is clamped to the head, at most max
\* records follow, in offset order.
FetchStart(from) == IF from >= head THEN from ELSE head
FetchCount(from, max) ==
    LET available == next - FetchStart(from)
    IN  IF available <= 0 THEN 0 ELSE IF available <= max THEN available ELSE max
Slice(from, max) ==
    [i \in 1 .. FetchCount(from, max) |-> rec[FetchStart(from) + i - 1]]

\* With them come the offset to go on from and the high watermark.
FetchOutcome(from, max) ==
    [records |-> Slice(from, max),
     next_offset |-> FetchStart(from) + FetchCount(from, max),
     high_watermark |-> next]

=============================================================================
