------------------------ MODULE MemoryLogStore_proofs ------------------------
(***************************************************************************)
(* MemoryLogStore implements CommitLog, for every set of record contents,  *)
(* segment size, retention bound and batch size.                           *)
(***************************************************************************)
EXTENDS MemoryLogStore, FiniteSetTheorems, TLAPS

\* Offsets are dense: a retained record stands at its offset, and the records
\* still to be pushed continue at the high watermark.
Dense ==
    /\ Len(records) = next_offset - start_offset
    /\ \A i \in 1 .. Len(records) : records[i].offset = start_offset + i - 1
    /\ \A i \in 1 .. Len(call.todo) : call.todo[i].offset = next_offset + i - 1

\* The call in progress accounts for the offsets that are not yet counted.
Accounted ==
    /\ ~call.busy => call.todo = <<>> /\ call.count = 0
    /\ produced_total + call.count = next_offset + Len(call.todo)

\* All segments but the active one are full.
Rolled ==
    /\ segments = 0 => next_offset = 0
    /\ segments > 0 => (segments - 1) * SegmentMax + records_in_active_segment = next_offset

\* Nothing is removed that retention lets stay.
Kept == MaxRecords > 0 => start_offset = 0 \/ next_offset - start_offset >= MaxRecords

Inv == TypeOK /\ Dense /\ Accounted /\ Rolled /\ Kept

\* The empty partition.
LEMMA InvInit == Init => Inv
  BY MemoryPolicyAssumption
  DEF Init, Inv, TypeOK, Dense, Accounted, Rolled, Kept, NoCall, Record

\* A full segment and its successor.
LEMMA NextSegment ==
    ASSUME NEW s \in Nat, NEW m \in Nat PROVE (s - 1) * m + m = s * m
  OBVIOUS

\* Opening a call, and pushing a record, keep the invariant.
LEMMA BeginKeepsInv == Inv /\ BeginAppend => Inv'
  <1> SUFFICES ASSUME Inv, BeginAppend PROVE Inv'
    OBVIOUS
  <1>1. PICK n \in 1 .. MaxBatch : \E vals \in [1 .. n -> Values] :
          call' = [busy |-> TRUE, count |-> n,
                   todo |-> [i \in 1 .. n |-> [offset |-> next_offset + i - 1,
                                               value |-> vals[i]]]]
    BY DEF BeginAppend
  <1>2. PICK vals \in [1 .. n -> Values] :
          call' = [busy |-> TRUE, count |-> n,
                   todo |-> [i \in 1 .. n |-> [offset |-> next_offset + i - 1,
                                               value |-> vals[i]]]]
    BY <1>1
  <1>3. n \in Nat /\ n >= 1
    BY MemoryPolicyAssumption
  <1>4. /\ call'.busy = TRUE /\ call'.count = n
        /\ call'.todo = [i \in 1 .. n |-> [offset |-> next_offset + i - 1, value |-> vals[i]]]
    BY <1>2
  <1>5. call'.todo \in Seq(Record) /\ Len(call'.todo) = n
    BY <1>3, <1>4 DEF Inv, TypeOK, Record
  <1>6. call' \in [busy : BOOLEAN, count : Nat, todo : Seq(Record)]
    BY <1>2, <1>3, <1>4, <1>5
  <1>7. UNCHANGED <<records, start_offset, next_offset, segments,
                    records_in_active_segment, produced_total>>
    BY DEF BeginAppend
  <1>8. TypeOK'
    BY <1>6, <1>7 DEF Inv, TypeOK
  <1>9. Dense'
    BY <1>3, <1>4, <1>5, <1>7 DEF Inv, Dense, TypeOK
  <1>10. Accounted'
    BY <1>3, <1>4, <1>5, <1>7 DEF Inv, Accounted, TypeOK, BeginAppend
  <1>11. Rolled' /\ Kept'
    BY <1>7 DEF Inv, Rolled, Kept
  <1> QED
    BY <1>8, <1>9, <1>10, <1>11 DEF Inv

LEMMA PushKeepsInv == Inv /\ PushRecord => Inv'
  <1> SUFFICES ASSUME Inv, PushRecord PROVE Inv'
    OBVIOUS
  <1> USE MemoryPolicyAssumption
  <1> DEFINE r == Head(call.todo)
  <1>1. /\ call.todo \in Seq(Record) /\ call.todo # <<>>
        /\ records \in Seq(Record) /\ next_offset \in Nat /\ start_offset \in Nat
    BY DEF Inv, TypeOK, PushRecord
  <1>2. r \in Record /\ r.offset = next_offset /\ Len(call.todo) >= 1
    BY <1>1 DEF Inv, Dense
  <1>3. /\ Tail(call.todo) \in Seq(Record)
        /\ Len(Tail(call.todo)) = Len(call.todo) - 1
        /\ \A i \in 1 .. Len(Tail(call.todo)) : Tail(call.todo)[i] = call.todo[i + 1]
    BY <1>1
  <1>4. /\ call'.todo = Tail(call.todo) /\ call'.busy = call.busy /\ call'.count = call.count
        /\ call' \in [busy : BOOLEAN, count : Nat, todo : Seq(Record)]
    BY <1>3 DEF PushRecord, Inv, TypeOK
  <1>5. /\ records' = Append(records, r) /\ records' \in Seq(Record)
        /\ Len(records') = Len(records) + 1
        /\ \A i \in 1 .. Len(records) : records'[i] = records[i]
        /\ records'[Len(records) + 1] = r
    BY <1>1, <1>2 DEF PushRecord
  <1>6. next_offset' = next_offset + 1 /\ UNCHANGED <<start_offset, produced_total>>
    BY DEF PushRecord
  <1>7. TypeOK'
    <2>1. segments' \in Nat /\ records_in_active_segment' \in 0 .. SegmentMax
      <3>1. segments \in Nat /\ records_in_active_segment \in 0 .. SegmentMax
        BY DEF Inv, TypeOK
      <3>2. CASE NeedsRoll
        BY <3>1, <3>2 DEF PushRecord
      <3>3. CASE ~NeedsRoll
        <4>1. records_in_active_segment + 1 \in 0 .. SegmentMax
          BY <3>1, <3>3 DEF NeedsRoll
        <4> QED
          BY <3>1, <3>3, <4>1 DEF PushRecord
      <3> QED
        BY <3>2, <3>3
    <2>2. next_offset' \in Nat /\ start_offset' \in Nat /\ produced_total' \in Nat
      BY <1>6 DEF Inv, TypeOK
    <2> QED
      BY <1>4, <1>5, <2>1, <2>2 DEF TypeOK
  <1>8. Dense'
    <2>1. Len(records') = next_offset' - start_offset'
      BY <1>1, <1>5, <1>6 DEF Inv, Dense
    <2>2. ASSUME NEW i \in 1 .. Len(records') PROVE records'[i].offset = start_offset' + i - 1
      <3>1. CASE i = Len(records) + 1
        BY <3>1, <1>1, <1>2, <1>5, <1>6 DEF Inv, Dense
      <3>2. CASE i \in 1 .. Len(records)
        <4>1. records[i].offset = start_offset + i - 1
          BY <3>2 DEF Inv, Dense
        <4> QED
          BY <3>2, <4>1, <1>5, <1>6
      <3> QED
        BY <3>1, <3>2, <1>1, <1>5
    <2>3. ASSUME NEW i \in 1 .. Len(call'.todo)
          PROVE call'.todo[i].offset = next_offset' + i - 1
      <3>1. i \in 1 .. Len(Tail(call.todo)) /\ i + 1 \in 1 .. Len(call.todo)
        BY <1>1, <1>3, <1>4
      <3>2. call.todo[i + 1].offset = next_offset + (i + 1) - 1
        BY <3>1 DEF Inv, Dense
      <3>3. call'.todo[i] = call.todo[i + 1]
        BY <3>1, <1>3, <1>4
      <3> QED
        BY <3>2, <3>3, <1>1, <1>6
    <2> QED
      BY <2>1, <2>2, <2>3 DEF Dense
  <1>9. Accounted'
    BY <1>1, <1>3, <1>4, <1>6 DEF Inv, Accounted, TypeOK, PushRecord
  <1>10. Rolled'
    <2>1. CASE segments = 0
      BY <2>1, <1>1, <1>6 DEF Inv, Rolled, TypeOK, PushRecord, NeedsRoll
    <2>2. CASE segments # 0 /\ NeedsRoll
      <3>1. segments \in Nat /\ segments > 0 /\ records_in_active_segment = SegmentMax
        BY <2>2 DEF Inv, TypeOK, NeedsRoll
      <3>2. next_offset = segments * SegmentMax
        BY <3>1, NextSegment DEF Inv, Rolled
      <3>3. segments' = segments + 1 /\ records_in_active_segment' = 1
        BY <2>2 DEF PushRecord
      <3>4. (segments' - 1) * SegmentMax = segments * SegmentMax
        BY <3>1, <3>3
      <3> QED
        BY <1>6, <3>1, <3>2, <3>3, <3>4 DEF Rolled
    <2>3. CASE segments # 0 /\ ~NeedsRoll
      <3>1. segments \in Nat /\ segments > 0 /\ records_in_active_segment \in Nat
        BY <2>3 DEF Inv, TypeOK
      <3>2. segments' = segments /\ records_in_active_segment' = records_in_active_segment + 1
        BY <2>3 DEF PushRecord
      <3>3. (segments - 1) * SegmentMax \in Int
        BY <3>1
      <3> QED
        BY <1>6, <3>1, <3>2, <3>3 DEF Rolled, Inv
    <2> QED
      BY <2>1, <2>2, <2>3
  <1>11. Kept'
    BY <1>1, <1>6 DEF Inv, Kept
  <1> QED
    BY <1>7, <1>8, <1>9, <1>10, <1>11 DEF Inv

\* Removing the oldest record, and closing the call, keep the invariant.
LEMMA RemoveKeepsInv == Inv /\ RemoveFirst => Inv'
  <1> SUFFICES ASSUME Inv, RemoveFirst PROVE Inv'
    OBVIOUS
  <1> USE MemoryPolicyAssumption
  <1>1. /\ records \in Seq(Record) /\ Len(records) > 1
        /\ next_offset \in Nat /\ start_offset \in Nat
        /\ next_offset - start_offset > MaxRecords
    BY DEF Inv, TypeOK, RemoveFirst, OverRetention
  <1>2. /\ records' \in Seq(Record)
        /\ Len(records') = Len(records) - 1
        /\ \A i \in 1 .. Len(records') : records'[i] = records[i + 1]
    BY <1>1 DEF RemoveFirst
  <1>3. /\ start_offset' = start_offset + 1
        /\ UNCHANGED <<next_offset, segments, records_in_active_segment, produced_total, call>>
    BY DEF RemoveFirst
  <1>4. TypeOK'
    BY <1>1, <1>2, <1>3 DEF Inv, TypeOK
  <1>5. Dense'
    BY <1>1, <1>2, <1>3 DEF Inv, Dense
  <1>6. Accounted' /\ Rolled'
    BY <1>3 DEF Inv, Accounted, Rolled
  <1>7. Kept'
    BY <1>1, <1>3 DEF Kept
  <1> QED
    BY <1>4, <1>5, <1>6, <1>7 DEF Inv

LEMMA FinishKeepsInv == Inv /\ FinishAppend => Inv'
  <1> SUFFICES ASSUME Inv, FinishAppend PROVE Inv'
    OBVIOUS
  <1>1. call' = NoCall /\ call.todo = <<>> /\ produced_total' = produced_total + call.count
    BY DEF FinishAppend
  <1>2. UNCHANGED <<records, start_offset, next_offset, segments, records_in_active_segment>>
    BY DEF FinishAppend
  <1>3. TypeOK'
    BY <1>1, <1>2 DEF Inv, TypeOK, NoCall
  <1>4. Dense'
    BY <1>1, <1>2 DEF Inv, Dense, NoCall
  <1>5. Accounted'
    BY <1>1, <1>2 DEF Inv, Accounted, NoCall, TypeOK
  <1>6. Rolled' /\ Kept'
    BY <1>2 DEF Inv, Rolled, Kept
  <1> QED
    BY <1>3, <1>4, <1>5, <1>6 DEF Inv

\* The invariant holds in every behaviour.
LEMMA InvHolds == Spec => []Inv
  <1>1. Inv /\ UNCHANGED vars => Inv'
    BY DEF Inv, TypeOK, Dense, Accounted, Rolled, Kept, vars
  <1>2. Inv /\ [Next]_vars => Inv'
    BY <1>1, BeginKeepsInv, PushKeepsInv, RemoveKeepsInv, FinishKeepsInv DEF Next
  <1> QED
    BY <1>2, InvInit, PTL DEF Spec

-----------------------------------------------------------------------------
\* Every variable keeps its type; the active segment never overflows.
THEOREM MemoryTypeCorrect == Spec => []TypeOK
  <1>1. Inv => TypeOK
    BY DEF Inv
  <1> QED
    BY <1>1, InvHolds, PTL

\* Between calls the counters that stats() reports agree with the offsets and
\* with the segments rolled.
THEOREM MemoryCountersAgree == Spec => []CountersAgree
  <1>1. Inv => CountersAgree
    <2> SUFFICES ASSUME Inv, ~call.busy PROVE
          /\ produced_total = next_offset
          /\ next_offset > 0 =>
               (segments - 1) * SegmentMax + records_in_active_segment = next_offset
      BY DEF CountersAgree
    <2>1. produced_total = next_offset
      BY DEF Inv, Accounted, TypeOK
    <2>2. next_offset > 0 => segments > 0
      BY DEF Inv, Rolled, TypeOK
    <2> QED
      BY <2>1, <2>2 DEF Inv, Rolled
  <1> QED
    BY <1>1, InvHolds, PTL

\* After every append retention has removed exactly what it must.
THEOREM MemoryRetentionExact == Spec => RetentionExact
  <1> DEFINE Exact ==
        call.busy /\ ~call'.busy /\ MaxRecords > 0 =>
            \/ start_offset = 0 /\ next_offset <= MaxRecords
            \/ next_offset - start_offset = MaxRecords
  <1>1. Inv /\ [Next]_vars => [Exact]_vars
    <2> SUFFICES ASSUME Inv, Next, call.busy, ~call'.busy, MaxRecords > 0 PROVE
          \/ start_offset = 0 /\ next_offset <= MaxRecords
          \/ next_offset - start_offset = MaxRecords
      OBVIOUS
    <2>1. CASE FinishAppend
      BY <2>1, MemoryPolicyAssumption
      DEF FinishAppend, OverRetention, Inv, Dense, Kept, TypeOK
    <2>2. CASE BeginAppend
      BY <2>2 DEF BeginAppend
    <2>3. CASE PushRecord
      BY <2>3 DEF PushRecord, Inv, TypeOK
    <2>4. CASE RemoveFirst
      BY <2>4 DEF RemoveFirst
    <2> QED
      BY <2>1, <2>2, <2>3, <2>4 DEF Next
  <1> QED
    BY <1>1, InvHolds, PTL DEF Spec, RetentionExact

\* The in-memory partition implements the abstract log: each push is an append at
\* the high watermark, each removal prunes a head that retention may remove, and
\* opening and closing a call changes nothing a reader could see.
THEOREM MemoryImplementsCommitLog == Spec => RefinesCommitLog
  <1> DEFINE Rec == [o \in start_offset .. next_offset - 1 |-> records[o - start_offset + 1]]
  <1>1. Init => CL!Init
    BY DEF Init, CL!Init
  <1>2. Inv /\ [Next]_vars => [CL!Next]_(CL!cvars)
    <2> SUFFICES ASSUME Inv, [Next]_vars PROVE CL!Next \/ UNCHANGED CL!cvars
      OBVIOUS
    <2> USE MemoryPolicyAssumption
    <2>0. /\ records \in Seq(Record) /\ next_offset \in Nat /\ start_offset \in Nat
          /\ Len(records) = next_offset - start_offset
      BY DEF Inv, TypeOK, Dense
    <2>1. CASE PushRecord
      <3> DEFINE r == Head(call.todo)
      <3>1. r \in Record /\ r.offset = next_offset
        <4>1. call.todo \in Seq(Record) /\ call.todo # <<>>
          BY <2>1 DEF PushRecord, Inv, TypeOK
        <4>2. Len(call.todo) >= 1 /\ r = call.todo[1] /\ r \in Record
          BY <4>1
        <4> QED
          BY <2>0, <4>1, <4>2 DEF Inv, Dense
      <3>2. r.value \in Values /\ r = [offset |-> next_offset, value |-> r.value]
        BY <3>1 DEF Record
      <3>3. /\ next_offset' = next_offset + 1 /\ start_offset' = start_offset
            /\ \A i \in 1 .. Len(records) : records'[i] = records[i]
            /\ records'[Len(records) + 1] = r
        BY <2>0, <2>1, <3>1 DEF PushRecord
      <3>4. Rec' = [o \in start_offset .. next_offset |->
                      IF o = next_offset THEN [offset |-> next_offset, value |-> r.value]
                                         ELSE Rec[o]]
        <4>1. start_offset' .. next_offset' - 1 = start_offset .. next_offset
          BY <2>0, <3>3
        <4>2. ASSUME NEW o \in start_offset .. next_offset
              PROVE records'[o - start_offset' + 1] =
                      IF o = next_offset THEN [offset |-> next_offset, value |-> r.value]
                                         ELSE Rec[o]
          <5>1. CASE o = next_offset
            BY <5>1, <2>0, <3>2, <3>3
          <5>2. CASE o # next_offset
            <6>1. o \in start_offset .. next_offset - 1
                  /\ o - start_offset + 1 \in 1 .. Len(records)
              BY <5>2, <2>0
            <6> QED
              BY <6>1, <5>2, <3>3
          <5> QED
            BY <5>1, <5>2
        <4> QED
          BY <4>1, <4>2
      <3>5. \E v \in Values : CL!AppendRecord(v)
        BY <3>2, <3>3, <3>4 DEF CL!AppendRecord
      <3> QED
        BY <3>5 DEF CL!Next
    <2>2. CASE RemoveFirst
      <3>1. /\ MaxRecords > 0 /\ next_offset - start_offset > MaxRecords
            /\ start_offset + 1 \in start_offset + 1 .. next_offset - 1
        BY <2>0, <2>2 DEF RemoveFirst, OverRetention
      <3>2. /\ next_offset' = next_offset /\ start_offset' = start_offset + 1
            /\ \A i \in 1 .. Len(records) - 1 : records'[i] = records[i + 1]
        BY <2>0, <2>2 DEF RemoveFirst, OverRetention
      <3>3. Rec' = [o \in start_offset + 1 .. next_offset - 1 |-> Rec[o]]
        <4>1. ASSUME NEW o \in start_offset + 1 .. next_offset - 1
              PROVE records'[o - start_offset' + 1] = Rec[o]
          <5>1. o - start_offset' + 1 \in 1 .. Len(records) - 1
            BY <2>0, <3>2
          <5>2. o \in start_offset .. next_offset - 1
            BY <2>0
          <5> QED
            BY <2>0, <3>2, <5>1, <5>2
        <4> QED
          BY <3>2, <4>1
      <3>4. \E h \in start_offset + 1 .. next_offset - 1 : CL!Prune(h)
        BY <3>1, <3>2, <3>3 DEF CL!Prune
      <3> QED
        BY <3>4 DEF CL!Next
    <2>3. CASE BeginAppend
      BY <2>3 DEF BeginAppend, CL!cvars
    <2>4. CASE FinishAppend
      BY <2>4 DEF FinishAppend, CL!cvars
    <2>5. CASE UNCHANGED vars
      BY <2>5 DEF vars, CL!cvars
    <2> QED
      BY <2>1, <2>2, <2>3, <2>4, <2>5 DEF Next
  <1> QED
    BY <1>1, <1>2, InvHolds, PTL DEF Spec, RefinesCommitLog, CL!Spec

-----------------------------------------------------------------------------
(* fetch                                                                   *)

\* The n-th place of an interval.
LEMMA NthOfInterval ==
    ASSUME NEW a \in Nat, NEW l \in Nat, NEW n \in 1 .. l - a + 1
    PROVE  NthOf(a .. l, n) = a + n - 1
  <1>1. \A p \in a .. l : Cardinality({q \in a .. l : q <= p}) = p - a + 1
    <2> SUFFICES ASSUME NEW p \in a .. l PROVE Cardinality({q \in a .. l : q <= p}) = p - a + 1
      OBVIOUS
    <2>1. {q \in a .. l : q <= p} = a .. p
      OBVIOUS
    <2>2. Cardinality(a .. p) = p - a + 1
      <3>1. a \in Int /\ p \in Int /\ a <= p
        OBVIOUS
      <3>2. Cardinality(a .. p) = IF a > p THEN 0 ELSE p - a + 1
        BY <3>1, FS_Interval
      <3> QED BY <3>1, <3>2
    <2> QED BY <2>1, <2>2
  <1> DEFINE m == a + n - 1
             UpTo(p) == Cardinality({q \in a .. l : q <= p})
  <1>2. m \in a .. l /\ m - a + 1 = n /\ \A p \in a .. l : p - a + 1 = n => p = m
    OBVIOUS
  <1> HIDE DEF m
  <1>3. UpTo(m) = n /\ \A p \in a .. l : UpTo(p) = n => p = m
    BY <1>1, <1>2
  <1> HIDE DEF UpTo
  <1>4. (CHOOSE p \in a .. l : UpTo(p) = n) = m
    BY <1>2, <1>3
  <1> QED
    BY <1>4 DEF NthOf, UpTo, m

\* For every from and max, not only those a model can enumerate, the filter and
\* the take of fetch return the slice of the abstract log.
LEMMA FetchIsSlice ==
    ASSUME Inv, NEW from \in Nat, NEW max \in Nat
    PROVE  FetchResult(from, max) = CL!FetchOutcome(from, max)
  <1> DEFINE s == start_offset
             e == EffectiveFrom(from)
             l == Len(records)
             a == e - s + 1
             places == {i \in DOMAIN records : records[i].offset >= e}
             k == CL!FetchCount(from, max)
             out == Fetch(from, max)
  <1>1. /\ records \in Seq(Record) /\ s \in Nat /\ next_offset \in Nat /\ l \in Nat
        /\ l = next_offset - s /\ DOMAIN records = 1 .. l
        /\ \A i \in 1 .. l : records[i].offset = s + i - 1
    BY DEF Inv, TypeOK, Dense
  <1>2. e \in Nat /\ s <= e /\ e = CL!FetchStart(from)
    BY <1>1 DEF EffectiveFrom, CL!FetchStart
  <1>3. a \in Nat /\ a >= 1 /\ a = e - s + 1
    BY <1>1, <1>2
  <1>4. k = IF next_offset - e <= 0 THEN 0 ELSE IF next_offset - e <= max THEN next_offset - e ELSE max
    BY <1>2 DEF CL!FetchCount
  <1> HIDE DEF e, l, k, a, s
  <1>5. places = a .. l
    <2>1. \A i \in 1 .. l : records[i].offset >= e <=> i >= a
      BY <1>1, <1>2, <1>3
    <2>2. \A i \in a .. l : i \in 1 .. l
      BY <1>1, <1>3
    <2> QED BY <1>1, <1>2, <2>1, <2>2
  <1>6. Cardinality(places) = IF next_offset - e <= 0 THEN 0 ELSE next_offset - e
    <2>1. a \in Int /\ l \in Int
      BY <1>1, <1>3
    <2>2. Cardinality(a .. l) = IF a > l THEN 0 ELSE l - a + 1
      BY <2>1, FS_Interval
    <2>3. (a > l <=> next_offset - e <= 0) /\ l - a + 1 = next_offset - e
      BY <1>1, <1>2, <1>3
    <2> QED BY <1>5, <2>2, <2>3
  <1>7. k \in Nat /\ k = (IF max <= Cardinality(places) THEN max ELSE Cardinality(places)) /\ k <= max
        /\ (k > 0 => e + k <= next_offset)
    BY <1>1, <1>2, <1>4, <1>6
  <1>s. /\ s \in Nat /\ e \in Nat /\ l \in Nat /\ next_offset \in Nat /\ a \in Nat /\ k \in Nat
        /\ s <= e /\ a = e - s + 1 /\ a >= 1 /\ l = next_offset - s /\ (k > 0 => e + k <= next_offset)
    BY <1>1, <1>2, <1>3, <1>7
  <1>8. out = [n \in 1 .. k |-> records[NthOf(places, n)]]
    BY <1>7 DEF Fetch, TakeFirst, e
  <1> HIDE DEF places
  <1>9. ASSUME NEW n \in 1 .. k
        PROVE  /\ NthOf(places, n) = a + n - 1 /\ a + n - 1 \in 1 .. l
               /\ e + n - 1 \in s .. next_offset - 1 /\ e + n - 1 - s + 1 = a + n - 1
    <2>1. n \in 1 .. l - a + 1
      BY <1>s
    <2>2. NthOf(a .. l, n) = a + n - 1
      BY <1>1, <1>3, <2>1, NthOfInterval
    <2>3. a + n - 1 \in 1 .. l /\ e + n - 1 \in s .. next_offset - 1 /\ e + n - 1 - s + 1 = a + n - 1
      BY <1>s, <2>1
    <2> QED BY <1>5, <2>2, <2>3
  <1> DEFINE Rec == [o \in s .. next_offset - 1 |-> records[o - s + 1]]
  <1>10. CL!Slice(from, max) = [n \in 1 .. k |-> Rec[e + n - 1]]
    BY <1>2 DEF CL!Slice, k, s
  <1>11. \A n \in 1 .. k : Rec[e + n - 1] = records[NthOf(places, n)]
    <2> SUFFICES ASSUME NEW n \in 1 .. k PROVE Rec[e + n - 1] = records[NthOf(places, n)]
      OBVIOUS
    <2> DEFINE o == e + n - 1
    <2>1. /\ e + n - 1 \in s .. next_offset - 1 /\ NthOf(places, n) = a + n - 1
          /\ e + n - 1 - s + 1 = a + n - 1
      BY <1>9
    <2>2. o \in s .. next_offset - 1 /\ o - s + 1 = NthOf(places, n)
      BY <1>s, <2>1
    <2> HIDE DEF o
    <2>3. Rec[o] = records[NthOf(places, n)]
      BY <2>2
    <2> QED BY <2>3 DEF o
  <1>12. out = CL!Slice(from, max)
    BY <1>8, <1>10, <1>11
  <1> HIDE DEF Rec, out
  <1>13. Len(out) = k /\ (out = <<>> <=> k = 0)
    BY <1>7, <1>8
  <1>14. CASE k = 0
    <2>1. FetchResult(from, max).next_offset = e /\ e + k = e
      BY <1>2, <1>13, <1>14 DEF FetchResult, out, e
    <2> QED
      BY <1>2, <1>12, <1>13, <1>14, <2>1 DEF FetchResult, CL!FetchOutcome, out, k, e
  <1>15. CASE k # 0
    <2>1. k \in 1 .. k
      BY <1>7, <1>15
    <2>2. out[k] = records[a + k - 1] /\ records[a + k - 1].offset = s + (a + k - 1) - 1
      BY <1>1, <1>8, <1>9, <2>1
    <2>3. out[k].offset + 1 = e + k
      <3>1. out[k].offset = s + (a + k - 1) - 1
        BY <2>2
      <3>2. s + (a + k - 1) - 1 + 1 = e + k
        BY <1>s
      <3> QED BY <3>1, <3>2
    <2>4. out # <<>> /\ out[Len(out)].offset + 1 = e + k
      BY <1>13, <1>15, <2>3
    <2> QED
      BY <1>2, <1>12, <2>4 DEF FetchResult, CL!FetchOutcome, out, k
  <1> QED
    BY <1>14, <1>15

\* Between calls, fetch returns exactly the retained records from the requested
\* offset on, and where to go on (Partition::fetch).
THEOREM MemoryFetchCorrect == Spec => []FetchCorrect
  <1>1. Inv => FetchCorrect
    <2> SUFFICES ASSUME Inv, NEW from \in 0 .. MaxOffset + 1, NEW max \in 0 .. MaxBatch + 1
                 PROVE  FetchResult(from, max) = CL!FetchOutcome(from, max)
      BY DEF FetchCorrect
    <2>1. from \in Nat /\ max \in Nat
      BY MemoryPolicyAssumption
    <2> QED
      BY <2>1, FetchIsSlice
  <1> QED
    BY <1>1, InvHolds, PTL

=============================================================================
