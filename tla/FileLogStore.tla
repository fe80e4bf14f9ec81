---------------------------- MODULE FileLogStore -----------------------------
(***************************************************************************)
(* One partition of the durable log store of connectforge-infra            *)
(* (filestore.rs over segment.rs): segment files, the segments and offsets *)
(* kept in memory, appends record by record, rolling, head retention,      *)
(* crashes at any step and recovery from the directory.                    *)
(*                                                                         *)
(* The store's mutex is held for a whole append (`blocking`), so fetches   *)
(* see the partition only between calls; crashes and I/O errors fall       *)
(* between any two file operations of a call.  A crash is the end of the   *)
(* process: what reached the operating system stays.  A byte position in a *)
(* file is a number of frames, as if all had the same size, and the index  *)
(* of a segment is its length.  Nothing behind a partial frame is taken to *)
(* decode: the code may decode garbage there, so the properties only speak *)
(* of files without one, or of the frames before it.                       *)
(***************************************************************************)
EXTENDS Integers, Sequences, FiniteSets, FiniteSetsExt, SequencesExt

CONSTANTS
    Values,      \* record contents
    SegmentMax,  \* RetentionPolicy.segment_max_records
    MaxRecords,  \* RetentionPolicy.max_records
    IoFaults,    \* which file operations may fail
    MaxBatch,    \* bound: records per append
    MaxOffset,   \* bound: offsets assigned
    MaxFaults,   \* bound: failed file operations
    MaxCrashes   \* bound: crashes

\* RetentionPolicy::validate rejects a segment size of zero.
ASSUME PolicyAssumption ==
    /\ SegmentMax \in Nat \ {0}
    /\ MaxRecords \in Nat

ASSUME FileBoundAssumption ==
    /\ IoFaults \subseteq {"create", "write", "partial", "remove"}
    /\ MaxBatch \in Nat /\ MaxOffset \in Nat
    /\ MaxFaults \in Nat /\ MaxCrashes \in Nat

VARIABLES
    disk,         \* the partition directory: base offset -> frames of the file
    segs,         \* PartitionState.segments: base offset -> index length
    pending,      \* frames left in the BufWriter of the active segment
    start_offset, \* PartitionState.start_offset
    next_offset,  \* PartitionState.next_offset
    call,         \* the append that holds the lock
    up,           \* is the process running?
    produced_total,
    acked,        \* history: records producers were told are stored, that do not stand
                  \* behind a partial frame and that retention did not remove
    faults,
    crashes

memory == <<segs, pending, start_offset, next_offset, produced_total>>
vars == <<disk, memory, call, up, acked, faults, crashes>>

\* A frame cut short by a crash or a failed write: decode reads it as the end of
\* the file.
Torn == [torn |-> TRUE]

NoCall == [busy |-> FALSE, batch |-> <<>>, todo |-> <<>>]

EmptyDir == [b \in {} |-> <<>>]

Init ==
    /\ disk = EmptyDir
    /\ segs = [b \in {} |-> 0]
    /\ pending = <<>>
    /\ start_offset = 0
    /\ next_offset = 0
    /\ call = NoCall
    /\ up = TRUE
    /\ produced_total = 0
    /\ acked = {}
    /\ faults = 0
    /\ crashes = 0

\* What the scan of Segment::open and of read_from decodes.
Decodable(frames) ==
    LET bad == {i \in 1 .. Len(frames) : frames[i] = Torn}
    IN  IF bad = {} THEN frames ELSE SubSeq(frames, 1, Min(bad) - 1)

\* The segment vector is in the order of the base offsets.
Active == Max(DOMAIN segs)
Oldest == Min(DOMAIN segs)
total_records == IF next_offset >= start_offset THEN next_offset - start_offset ELSE 0

-----------------------------------------------------------------------------
(* append: materialize the batch, append_records, apply_retention          *)

BeginAppend ==
    /\ up /\ ~call.busy
    /\ \E n \in 1 .. MaxBatch : \E vals \in [1 .. n -> Values] :
         /\ next_offset + n <= MaxOffset
         /\ LET materialized == [i \in 1 .. n |-> [offset |-> next_offset + i - 1,
                                                   value |-> vals[i]]]
            IN  call' = [busy |-> TRUE, batch |-> materialized, todo |-> materialized]
    /\ UNCHANGED <<disk, memory, up, acked, faults, crashes>>

Appending == up /\ call.busy /\ call.todo # <<>>
Retaining == up /\ call.busy /\ call.todo = <<>>

\* There is no segment yet, or the active one is full.
NeedsRoll == \A b \in DOMAIN segs : b = Active => segs[b] >= SegmentMax

\* Segment::create opens an existing file for appending.
CreateSegment ==
    /\ Appending /\ NeedsRoll
    /\ disk' = [b \in DOMAIN disk \cup {next_offset} |->
                  IF b \in DOMAIN disk THEN disk[b] ELSE <<>>]
    /\ segs' = [b \in DOMAIN segs \cup {next_offset} |->
                  IF b \in DOMAIN segs THEN segs[b] ELSE 0]
    /\ pending' = <<>>
    /\ UNCHANGED <<start_offset, next_offset, produced_total, call, up, acked, faults, crashes>>

\* Segment::append: the frame goes through the BufWriter, is flushed, and then
\* indexed.
WriteRecord ==
    /\ Appending /\ ~NeedsRoll
    /\ disk' = [disk EXCEPT ![Active] = @ \o pending \o <<call.todo[1]>>]
    /\ pending' = <<>>
    /\ segs' = [segs EXCEPT ![Active] = @ + 1]
    /\ next_offset' = next_offset + 1
    /\ call' = [call EXCEPT !.todo = Tail(@)]
    /\ UNCHANGED <<start_offset, produced_total, up, acked, faults, crashes>>

\* The head segment leaves the vector, its file is deleted, and the start
\* offset moves to the next segment.
OverRetention == MaxRecords # 0 /\ total_records > MaxRecords /\ Cardinality(DOMAIN segs) > 1

\* Deviation: the bound is taken as already exceeded when it is met.
RemoveHead_TooEarly ==
    /\ Retaining
    /\ MaxRecords # 0 /\ total_records >= MaxRecords /\ Cardinality(DOMAIN segs) > 1
    /\ segs' = Restrict(segs, DOMAIN segs \ {Oldest})
    /\ disk' = Restrict(disk, DOMAIN disk \ {Oldest})
    /\ start_offset' = Min(DOMAIN segs \ {Oldest})
    /\ acked' = {r \in acked : r.offset >= start_offset'}
    /\ UNCHANGED <<pending, next_offset, produced_total, call, up, faults, crashes>>

RemoveHead ==
    /\ Retaining /\ OverRetention
    /\ segs' = Restrict(segs, DOMAIN segs \ {Oldest})
    /\ disk' = Restrict(disk, DOMAIN disk \ {Oldest})
    /\ start_offset' = Min(DOMAIN segs \ {Oldest})
    /\ acked' = {r \in acked : r.offset >= start_offset'}
    /\ UNCHANGED <<pending, next_offset, produced_total, call, up, faults, crashes>>

\* The record was written behind a partial frame: no scan gets to it, and the
\* next start cuts it off.
Unreachable(r) == \E b \in DOMAIN disk : \E i, j \in DOMAIN disk[b] :
                      i < j /\ disk[b][i] = Torn /\ disk[b][j] = r

\* What an append that succeeds adds to the history.
Acknowledged(batch) == {r \in ToSet(batch) : r.offset >= start_offset /\ ~Unreachable(r)}

\* Deviation: retention stops after one segment, or before the first.
FinishAppend_Early ==
    /\ Retaining
    /\ call' = NoCall
    /\ produced_total' = produced_total + Len(call.batch)
    /\ acked' = acked \cup Acknowledged(call.batch)
    /\ UNCHANGED <<disk, segs, pending, start_offset, next_offset, up, faults, crashes>>

FinishAppend ==
    /\ Retaining /\ ~OverRetention
    /\ call' = NoCall
    /\ produced_total' = produced_total + Len(call.batch)
    /\ acked' = acked \cup Acknowledged(call.batch)
    /\ UNCHANGED <<disk, segs, pending, start_offset, next_offset, up, faults, crashes>>

-----------------------------------------------------------------------------
(* I/O errors: every one ends the append with an error (`?`), and leaves   *)
(* behind what was done before it.                                         *)

Fails(operation) ==
    /\ operation \in IoFaults
    /\ faults < MaxFaults
    /\ faults' = faults + 1
    /\ call' = NoCall
    /\ UNCHANGED <<next_offset, start_offset, produced_total, up, acked, crashes>>

CreateFails ==
    /\ Appending /\ NeedsRoll
    /\ Fails("create")
    /\ UNCHANGED <<disk, segs, pending>>

\* The flush failed: the frame stays in the BufWriter and is not indexed, unless
\* the buffer had to be flushed before it could take the frame.
WriteFails ==
    /\ Appending /\ ~NeedsRoll
    /\ Fails("write")
    /\ pending' \in {pending, Append(pending, call.todo[1])}
    /\ UNCHANGED <<disk, segs>>

\* A frame that does not fit the buffer of the BufWriter (8 KiB) goes straight to
\* the file, after what the buffer held: a short write and an error leave part
\* of it there, and later frames come behind it.
LargeWriteFails ==
    /\ Appending /\ ~NeedsRoll
    /\ Fails("partial")
    /\ \E part \in {<<>>, <<Torn>>} :
         disk' = [disk EXCEPT ![Active] = @ \o (pending \o part)]
    /\ pending' = <<>>
    /\ UNCHANGED segs

\* The segment has left the vector already, its file stays.
RemoveFails ==
    /\ Retaining /\ OverRetention
    /\ Fails("remove")
    /\ segs' = Restrict(segs, DOMAIN segs \ {Oldest})
    /\ UNCHANGED <<disk, pending>>

-----------------------------------------------------------------------------
(* The end of the process and recovery                                     *)

\* What the active file may hold then: what it held, a frame cut short in the
\* middle of a write (a failed flush may have written part of it), or the
\* BufWriter's content flushed when it is dropped.
Crash ==
    /\ up
    /\ crashes < MaxCrashes
    /\ crashes' = crashes + 1
    /\ \/ UNCHANGED disk
       \/ /\ (Appending /\ ~NeedsRoll) \/ pending # <<>>
          /\ disk' = [disk EXCEPT ![Active] = Append(@, Torn)]
       \/ /\ ~call.busy /\ pending # <<>>
          /\ disk' = [disk EXCEPT ![Active] = @ \o pending]
    /\ up' = FALSE
    /\ segs' = [b \in {} |-> 0]
    /\ pending' = <<>>
    /\ start_offset' = 0
    /\ next_offset' = 0
    /\ produced_total' = 0
    /\ call' = NoCall
    /\ UNCHANGED <<acked, faults>>

\* Deviation: the partial frame is skipped but not cut off the file.
Recover_KeepsTorn ==
    /\ ~up
    /\ up' = TRUE
    /\ segs' = [b \in DOMAIN disk |-> Len(Decodable(disk[b]))]
    /\ start_offset' = IF DOMAIN disk = {} THEN 0 ELSE Min(DOMAIN disk)
    /\ next_offset' = IF DOMAIN disk = {} THEN 0
                      ELSE Max(DOMAIN disk) + Len(Decodable(disk[Max(DOMAIN disk)]))
    /\ UNCHANGED <<disk, pending, produced_total, call, acked, faults, crashes>>

\* Deviation: the last complete frame is cut off with the partial one.
Recover_CutsTooMuch ==
    /\ ~up
    /\ up' = TRUE
    /\ disk' = [b \in DOMAIN disk |-> IF disk[b] # <<>> /\ Last(disk[b]) = Torn
                                     THEN SubSeq(disk[b], 1, Len(disk[b]) - 2)
                                     ELSE disk[b]]
    /\ segs' = [b \in DOMAIN disk |-> Len(disk'[b])]
    /\ start_offset' = IF DOMAIN disk = {} THEN 0 ELSE Min(DOMAIN disk)
    /\ next_offset' = IF DOMAIN disk = {} THEN 0
                      ELSE Max(DOMAIN disk) + Len(disk'[Max(DOMAIN disk)])
    /\ UNCHANGED <<pending, produced_total, call, acked, faults, crashes>>

\* Deviation: the high watermark is the number of records that remain.
Recover_CountsRecords ==
    /\ ~up
    /\ up' = TRUE
    /\ disk' = [b \in DOMAIN disk |-> Decodable(disk[b])]
    /\ segs' = [b \in DOMAIN disk |-> Len(Decodable(disk[b]))]
    /\ start_offset' = IF DOMAIN disk = {} THEN 0 ELSE Min(DOMAIN disk)
    /\ next_offset' = MapThenSumSet(LAMBDA b : Len(Decodable(disk[b])), DOMAIN disk)
    /\ UNCHANGED <<pending, produced_total, call, acked, faults, crashes>>

\* Segment::open keeps what decodes and cuts the rest off the file.
OpenSegment(base) == Decodable(disk[base])

\* recover_partition: open every segment in base order, cutting a partial tail.
\* Interrupted and repeated, it does the same again.
Recover ==
    /\ ~up
    /\ up' = TRUE
    /\ disk' = [b \in DOMAIN disk |-> OpenSegment(b)]
    /\ segs' = [b \in DOMAIN disk |-> Len(OpenSegment(b))]
    /\ start_offset' = IF DOMAIN disk = {} THEN 0 ELSE Min(DOMAIN disk)
    /\ next_offset' = IF DOMAIN disk = {} THEN 0
                      ELSE Max(DOMAIN disk) + Len(OpenSegment(Max(DOMAIN disk)))
    /\ UNCHANGED <<pending, produced_total, call, acked, faults, crashes>>

Next ==
    \/ BeginAppend
    \/ CreateSegment
    \/ WriteRecord
    \/ RemoveHead
    \/ FinishAppend
    \/ CreateFails
    \/ WriteFails
    \/ LargeWriteFails
    \/ RemoveFails
    \/ Crash
    \/ Recover

Spec == Init /\ [][Next]_vars

-----------------------------------------------------------------------------
(* fetch                                                                   *)

\* Deviation: the whole segment is read, without seeking to the index entry.
ReadFrom_NoSeek(b, from, remaining) ==
    LET tail == Decodable(disk[b])
    IN  IF from >= b + segs[b] THEN <<>>
        ELSE SubSeq(tail, 1, IF remaining <= Len(tail) THEN remaining ELSE Len(tail))

\* Segment::read_from seeks to the indexed position and decodes from there to
\* the end of the file.
ReadFrom(b, from, remaining) ==
    LET skip == IF from >= b THEN from - b ELSE 0
        tail == Decodable(SubSeq(disk[b], skip + 1, Len(disk[b])))
    IN  IF from >= b + segs[b] THEN <<>>
        ELSE SubSeq(tail, 1, IF remaining <= Len(tail) THEN remaining ELSE Len(tail))

\* The loop of PartitionState::fetch goes through the segments in order until it
\* has max records: what it has collected when it is through with each of them.
Collected(from, max) ==
    LET upto[b \in DOMAIN segs] ==
          LET before == {c \in DOMAIN segs : c < b}
              out == IF before = {} THEN <<>> ELSE upto[Max(before)]
          IN  out \o ReadFrom(b, from, max - Len(out))
    IN  upto

Fetch(from, max) ==
    LET effective_from == IF from >= start_offset THEN from ELSE start_offset
    IN  IF DOMAIN segs = {} THEN <<>> ELSE Collected(effective_from, max)[Active]

FetchResult(from, max) ==
    LET out == Fetch(from, max)
    IN  [records |-> out,
         next_offset |-> IF out # <<>> THEN Last(out).offset + 1
                         ELSE IF from >= start_offset THEN from ELSE start_offset,
         high_watermark |-> next_offset]

-----------------------------------------------------------------------------
(* Properties                                                              *)

Record == [offset : Nat, value : Values]

Unlocked == up /\ ~call.busy

\* The log the directory stands for.
DiskHead == IF DOMAIN disk = {} THEN 0 ELSE Min(DOMAIN disk)
DiskNext == IF DOMAIN disk = {} THEN 0
            ELSE Max(DOMAIN disk) + Len(Decodable(disk[Max(DOMAIN disk)]))
FileOf(o) == Max({b \in DOMAIN disk : b <= o})
DiskRecords == [o \in DiskHead .. DiskNext - 1 |-> disk[FileOf(o)][o - FileOf(o) + 1]]

CL == INSTANCE CommitLog WITH head <- DiskHead, next <- DiskNext, rec <- DiskRecords

\* The directory behaves as a CommitLog: an append adds one record at the high
\* watermark, retention only removes a head it may remove, and crashes, torn
\* writes and recovery change nothing.
RefinesCommitLog == CL!Spec

\* Between calls, fetch(from, max) returns exactly the retained records from
\* `from` on and the offset that follows them, for every from and max: across
\* segment boundaries, before the head, past the end, after recovery.
FetchCorrect ==
    Unlocked => \A from \in 0 .. MaxOffset + 1, max \in 0 .. MaxBatch + 1 :
                    FetchResult(from, max) = CL!FetchOutcome(from, max)

\* An append that succeeds leaves at most max_records records in the partition,
\* or a last segment, which is never removed, of at most segment_max_records.
AppendSucceeds == call.busy /\ ~call'.busy /\ up' /\ UNCHANGED faults
RetentionBounded ==
    [][ AppendSucceeds /\ MaxRecords > 0 =>
            total_records' <= MaxRecords \/ total_records' <= SegmentMax ]_vars

\* Whatever file operations fail and wherever the process stops, a record a
\* producer was told is stored can be decoded from the directory until
\* retention removes it, unless a write cut short had left a partial frame in
\* front of it: what is acknowledged behind one is lost.
AckedSurvives ==
    \A r \in acked : \E b \in DOMAIN disk : r \in ToSet(Decodable(disk[b]))

\* Whatever file operations fail, the high watermark the process works with, also
\* after a restart over files that could not be removed or that were cut short,
\* is above every such record: its offset is not assigned again.
HighWatermarkSurvives == up => \A r \in acked : r.offset < next_offset

\* No file holds a partial frame or one out of its place, and the BufWriter none
\* that a failed flush left.
Intact ==
    /\ pending = <<>>
    /\ \A b \in DOMAIN disk : \A i \in DOMAIN disk[b] :
         disk[b][i] # Torn /\ disk[b][i].offset = b + i - 1

\* Until a failed write leaves a frame behind, a fetch returns records at or after
\* the requested offset, in ascending offset order and none twice, even when
\* files that could not be removed come back with the next start.
FetchAscending ==
    Unlocked /\ Intact => \A from \in 0 .. MaxOffset + 1, max \in 0 .. MaxBatch + 1 :
        LET out == Fetch(from, max)
        IN  /\ Len(out) <= max
            /\ \A i \in 1 .. Len(out) : out[i].offset >= from
            /\ \A i \in 1 .. Len(out) - 1 : out[i].offset < out[i + 1].offset

=============================================================================
