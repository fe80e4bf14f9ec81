-------------------------- MODULE FileLogStore_proofs --------------------------
(***************************************************************************)
(* Proofs about FileLogStore, for every policy and every number of faults  *)
(* and crashes.  AcknowledgedStay, HighWatermarkKept and FetchInOrder hold *)
(* whatever file operations fail, RetentionKept where removals do not, the *)
(* others when only creations of segments may.                             *)
(***************************************************************************)
EXTENDS FileLogStore, FiniteSetTheorems, SequenceTheorems, WellFoundedInduction, TLAPS

-----------------------------------------------------------------------------
(* The invariant that any fault preserves                                  *)

Frames == Record \cup {Torn}

\* m is the greatest element of S.
IsTop(S, m) == m \in S /\ \A b \in S : b <= m

FileType ==
    /\ disk \in [DOMAIN disk -> Seq(Frames)] /\ DOMAIN disk \subseteq Nat
    /\ IsFiniteSet(DOMAIN disk)
    /\ segs \in [DOMAIN segs -> Nat]
    /\ pending \in Seq(Record)
    /\ start_offset \in Nat /\ next_offset \in Nat
    /\ call \in [busy : BOOLEAN, batch : Seq(Record), todo : Seq(Record)]
    /\ up \in BOOLEAN
    /\ acked \subseteq Record

\* Where no write is cut short, a torn frame ends the newest file, and only until
\* recovery cuts it off.
NoPartial == "partial" \notin IoFaults
TornLast ==
    NoPartial => \A b \in DOMAIN disk : \A i \in 1 .. Len(disk[b]) :
        disk[b][i] = Torn => ~up /\ i = Len(disk[b]) /\ \A c \in DOMAIN disk : c <= b

\* An offset is never above the position of its frame, nor does a file hold
\* offsets of a later one: frames repeated after a failed flush only push the
\* offsets that follow them up.
OffsetsBounded ==
    \A b \in DOMAIN disk : \A i \in 1 .. Len(disk[b]) : disk[b][i] # Torn =>
        /\ disk[b][i].offset <= b + i - 1
        /\ \A c \in DOMAIN disk : b < c => disk[b][i].offset < c

\* The newest segment takes another record.
HasRoom == \E t \in DOMAIN segs : IsTop(DOMAIN disk, t) /\ segs[t] < SegmentMax

\* What memory says of the directory while the process runs.  Only a frame that
\* a failed append left behind can carry the next offset, and then the next
\* record goes to the same file.
MemoryInv ==
    /\ DOMAIN disk # {} => \E m : IsTop(DOMAIN disk, m)
    /\ up \/ pending = <<>>
    /\ up => /\ DOMAIN segs \subseteq DOMAIN disk
             /\ DOMAIN segs = {} => DOMAIN disk = {}
             /\ start_offset <= next_offset /\ \A b \in DOMAIN segs : start_offset <= b
             /\ \A m \in DOMAIN disk : IsTop(DOMAIN disk, m) =>
                  m \in DOMAIN segs /\ next_offset = m + segs[m] /\ segs[m] <= Len(disk[m])
             /\ \A b \in DOMAIN disk : \A i \in 1 .. Len(disk[b]) :
                  disk[b][i] # Torn => \/ disk[b][i].offset < next_offset
                                       \/ disk[b][i].offset = next_offset /\ HasRoom
             /\ \A j \in 1 .. Len(pending) : pending[j].offset = next_offset
             /\ pending # <<>> => DOMAIN disk # {}

OnDisk(files, r) == \E b \in DOMAIN files : \E i \in 1 .. Len(files[b]) : files[b][i] = r

\* A scan of its file gets to the record: no partial frame stands before it.
Reachable(files, r) ==
    \E b \in DOMAIN files : \E i \in 1 .. Len(files[b]) :
        files[b][i] = r /\ \A j \in 1 .. i : files[b][j] # Torn

\* How many records of its batch the call in progress has written.
Written == Len(call.batch) - Len(call.todo)

CallInv ==
    call.busy =>
        /\ up
        /\ Len(call.todo) <= Len(call.batch)
        /\ \A i \in 1 .. Len(call.todo) : /\ call.todo[i] = call.batch[Written + i]
                                          /\ call.todo[i].offset = next_offset + i - 1
        /\ \A i \in 1 .. Written : /\ call.batch[i].offset < next_offset
                                   /\ call.batch[i].offset >= start_offset => OnDisk(disk, call.batch[i])

AckedInv == \A r \in acked : Reachable(disk, r) /\ (up => r.offset < next_offset)

FileInv == FileType /\ TornLast /\ OffsetsBounded /\ MemoryInv /\ CallInv /\ AckedInv

-----------------------------------------------------------------------------
(* The invariant of a store whose flushes and removals do not fail         *)

OnlyCreateFails == IoFaults \subseteq {"create"}

\* Every record stands at its offset and every file begins where the one before
\* it ends.
DenseFiles ==
    /\ \A b \in DOMAIN disk : \A i \in 1 .. Len(disk[b]) : disk[b][i] # Torn =>
         disk[b][i].offset = b + i - 1 /\ i <= SegmentMax
    /\ \A b, c \in DOMAIN disk : b < c =>
         /\ Len(disk[b]) > 0
         /\ b + Len(disk[b]) \in DOMAIN disk
         /\ b + Len(disk[b]) <= c

\* Memory mirrors the directory.
Mirrored ==
    /\ pending = <<>>
    /\ up => /\ DOMAIN segs = DOMAIN disk
             /\ \A b \in DOMAIN disk : segs[b] = Len(disk[b])
             /\ DOMAIN disk = {} => next_offset = 0 /\ start_offset = 0
             /\ DOMAIN disk # {} => start_offset \in DOMAIN disk
             /\ \A b \in DOMAIN disk : start_offset <= b

\* Retention begins after a write to the active segment, which is never removed.
ActiveNotEmpty ==
    call.busy /\ call.todo = <<>> =>
        DOMAIN disk # {} /\ \A m \in DOMAIN disk : IsTop(DOMAIN disk, m) => Len(disk[m]) > 0

DenseInv == NoPartial /\ DenseFiles /\ Mirrored /\ ActiveNotEmpty

-----------------------------------------------------------------------------
(* Facts about the operators of the model                                  *)

\* A torn frame is not a record.
LEMMA TornNotRecord == Torn \notin Record /\ \A f \in Frames : f # Torn => f \in Record
<1>1. Torn \notin Record
  <2> SUFFICES ASSUME Torn \in Record PROVE FALSE
    OBVIOUS
  <2>1. "torn" \in DOMAIN Torn
    BY DEF Torn
  <2>2. DOMAIN Torn = {"offset", "value"}
    BY DEF Record
  <2> QED BY <2>1, <2>2
<1>2. \A f \in Frames : f # Torn => f \in Record
  BY DEF Frames
<1> QED
  BY <1>1, <1>2

\* A set of offsets has a least element.
LEMMA MinProperties ==
    ASSUME NEW S \in SUBSET Nat, S # {}
    PROVE  Min(S) \in S /\ \A x \in S : Min(S) <= x
<1>1. PICK m \in S : \A y \in S : ~(<<y, m>> \in OpToRel(<, Nat))
  BY NatLessThanWellFounded, WFMin
<1>2. \A y \in S : m <= y
  <2> SUFFICES ASSUME NEW y \in S, ~(m <= y) PROVE FALSE
    OBVIOUS
  <2>1. y \in Nat /\ m \in Nat /\ y < m
    OBVIOUS
  <2>2. <<y, m>> \in Nat \X Nat /\ <<y, m>>[1] = y /\ <<y, m>>[2] = m
    BY <2>1
  <2>3. <<y, m>> \in OpToRel(<, Nat)
    BY <2>1, <2>2 DEF OpToRel
  <2> QED BY <1>1, <2>3
<1> QED
  BY <1>2 DEF Min

\* The greatest element, where there is one.
LEMMA MaxProperties ==
    ASSUME NEW S \in SUBSET Nat, NEW m, IsTop(S, m)
    PROVE  Max(S) = m
<1>1. m \in S /\ \A y \in S : m >= y
  BY DEF IsTop
<1>2. Max(S) \in S /\ \A y \in S : Max(S) >= y
  BY <1>1 DEF Max
<1>3. m \in Nat /\ Max(S) \in Nat /\ m >= Max(S) /\ Max(S) >= m
  BY <1>1, <1>2
<1> QED
  BY <1>3

\* A set of offsets with an upper bound has a greatest element.
LEMMA BoundedHasTop ==
    ASSUME NEW S \in SUBSET Nat, S # {}, NEW o \in Nat, \A x \in S : x <= o
    PROVE  \E m : IsTop(S, m)
<1> DEFINE T == {o - x : x \in S}
<1>1. T \in SUBSET Nat /\ T # {}
  <2>1. \A x \in S : o - x \in Nat
    OBVIOUS
  <2> QED BY <2>1
<1>2. Min(T) \in T /\ \A y \in T : Min(T) <= y
  BY <1>1, MinProperties
<1>3. PICK m \in S : Min(T) = o - m
  BY <1>2
<1>4. \A x \in S : o - m <= o - x
  BY <1>2, <1>3
<1>5. \A x \in S : x <= m
  BY <1>4
<1> QED
  BY <1>3, <1>5 DEF IsTop

\* Decoding a file whose last frame may be torn gives the frames before it.
LEMMA DecodeProperties ==
    ASSUME NEW f \in Seq(Frames), \A i \in 1 .. Len(f) : f[i] = Torn => i = Len(f)
    PROVE  /\ Decodable(f) \in Seq(Record)
           /\ (\A i \in 1 .. Len(f) : f[i] # Torn) => Decodable(f) = f
           /\ Len(f) > 0 /\ f[Len(f)] = Torn => Len(Decodable(f)) = Len(f) - 1
           /\ Len(Decodable(f)) <= Len(f)
           /\ \A i \in 1 .. Len(Decodable(f)) : Decodable(f)[i] = f[i] /\ f[i] # Torn
           /\ \A i \in 1 .. Len(f) : f[i] # Torn => i <= Len(Decodable(f))
<1> DEFINE bad == {i \in 1 .. Len(f) : f[i] = Torn}
<1>0. Len(f) \in Nat /\ \A i \in 1 .. Len(f) : f[i] \in Frames
  BY ElementOfSeq
<1>1. CASE bad = {}
  <2>1. Decodable(f) = f
    BY <1>1 DEF Decodable
  <2>2. \A i \in 1 .. Len(f) : f[i] # Torn /\ f[i] \in Record
    BY <1>0, <1>1, TornNotRecord
  <2>3. f \in Seq(Record)
    BY <1>0, <2>2
  <2> QED
    BY <1>0, <2>1, <2>2, <2>3
<1>2. CASE bad # {}
  <2>1. bad = {Len(f)} /\ Len(f) \in 1 .. Len(f)
    BY <1>0, <1>2
  <2>2. Min(bad) = Len(f)
    BY <2>1 DEF Min
  <2>3. Decodable(f) = SubSeq(f, 1, Len(f) - 1)
    BY <1>2, <2>2 DEF Decodable
  <2>4. \A i \in 1 .. Len(f) - 1 : f[i] # Torn /\ f[i] \in Record
    BY <1>0, TornNotRecord
  <2>5. Len(f) - 1 \in Int /\ 1 \in Int
    BY <1>0
  <2>6. /\ SubSeq(f, 1, Len(f) - 1) \in Seq(Record)
        /\ Len(SubSeq(f, 1, Len(f) - 1)) = IF 1 <= Len(f) - 1 THEN Len(f) - 1 - 1 + 1 ELSE 0
        /\ \A i \in 1 .. Len(f) - 1 - 1 + 1 : SubSeq(f, 1, Len(f) - 1)[i] = f[1 + i - 1]
    BY <2>4, <2>5, SubSeqProperties
  <2>7. /\ Len(Decodable(f)) = Len(f) - 1
        /\ \A i \in 1 .. Len(f) - 1 : Decodable(f)[i] = f[i]
    <3> DEFINE n == Len(f)
               d == SubSeq(f, 1, n - 1)
    <3>1. n \in Nat /\ n >= 1
      BY <1>0, <2>1
    <3> HIDE DEF n, d
    <3>2. /\ Len(d) = IF 1 <= n - 1 THEN n - 1 - 1 + 1 ELSE 0
          /\ \A i \in 1 .. n - 1 - 1 + 1 : d[i] = f[1 + i - 1]
      BY <2>6 DEF n, d
    <3>3. Len(d) = n - 1
      BY <3>1, <3>2
    <3>4. \A i \in 1 .. n - 1 : i \in 1 .. n - 1 - 1 + 1 /\ 1 + i - 1 = i
      BY <3>1
    <3>5. \A i \in 1 .. n - 1 : d[i] = f[i]
      BY <3>2, <3>4
    <3> QED
      BY <2>3, <3>3, <3>5 DEF n, d
  <2>8. f[Len(f)] = Torn
    BY <2>1
  <2> QED
    BY <1>0, <2>1, <2>3, <2>4, <2>6, <2>7, <2>8
<1> QED BY <1>1, <1>2

\* Decoding any file gives the frames before the first torn one.
LEMMA DecodePrefix ==
    ASSUME NEW f \in Seq(Frames)
    PROVE  /\ Decodable(f) \in Seq(Record)
           /\ Len(Decodable(f)) <= Len(f)
           /\ \A i \in 1 .. Len(Decodable(f)) : Decodable(f)[i] = f[i] /\ f[i] # Torn
           /\ \A i \in 1 .. Len(f) : (\A j \in 1 .. i : f[j] # Torn) => i <= Len(Decodable(f))
<1> DEFINE bad == {i \in 1 .. Len(f) : f[i] = Torn}
<1>0. Len(f) \in Nat /\ \A i \in 1 .. Len(f) : f[i] \in Frames
  BY ElementOfSeq
<1>1. CASE bad = {}
  <2>1. Decodable(f) = f
    BY <1>1 DEF Decodable
  <2>2. \A i \in 1 .. Len(f) : f[i] # Torn /\ f[i] \in Record
    BY <1>0, <1>1, TornNotRecord
  <2>3. f \in Seq(Record)
    BY <1>0, <2>2
  <2> QED
    BY <1>0, <2>1, <2>2, <2>3
<1>2. CASE bad # {}
  <2>1. bad \in SUBSET Nat
    BY <1>0
  <2> DEFINE k == Min(bad)
             d == SubSeq(f, 1, k - 1)
  <2>2. k \in bad /\ \A x \in bad : k <= x
    BY <1>2, <2>1, MinProperties
  <2>3. Decodable(f) = d
    BY <1>2 DEF Decodable
  <2>4. k \in 1 .. Len(f) /\ f[k] = Torn
    BY <2>2
  <2> HIDE DEF k
  <2>5. \A i \in 1 .. k - 1 : i \in 1 .. Len(f) /\ f[i] # Torn /\ f[i] \in Record
    <3> SUFFICES ASSUME NEW i \in 1 .. k - 1
                 PROVE  i \in 1 .. Len(f) /\ f[i] # Torn /\ f[i] \in Record
      OBVIOUS
    <3>1. i \in 1 .. Len(f) /\ ~(k <= i)
      BY <1>0, <2>4
    <3>2. f[i] # Torn
      BY <2>2, <3>1
    <3> QED
      BY <1>0, <3>1, <3>2, TornNotRecord
  <2>6. k - 1 \in Int /\ 1 \in Int
    BY <1>0, <2>4
  <2>7. /\ d \in Seq(Record)
        /\ Len(d) = IF 1 <= k - 1 THEN k - 1 - 1 + 1 ELSE 0
        /\ \A i \in 1 .. k - 1 - 1 + 1 : d[i] = f[1 + i - 1]
    BY <2>5, <2>6, SubSeqProperties
  <2> HIDE DEF d
  <2>8. Len(d) = k - 1
    BY <1>0, <2>4, <2>7
  <2>9. \A i \in 1 .. k - 1 : d[i] = f[i]
    <3>1. \A i \in 1 .. k - 1 : i \in 1 .. k - 1 - 1 + 1 /\ 1 + i - 1 = i
      BY <1>0, <2>4
    <3> QED BY <2>7, <3>1
  <2>10. ASSUME NEW i \in 1 .. Len(f), \A j \in 1 .. i : f[j] # Torn
         PROVE  i <= k - 1
    <3>1. ~(k \in 1 .. i)
      BY <2>4, <2>10
    <3> QED BY <1>0, <2>4, <3>1
  <2>11. k - 1 <= Len(f)
    BY <1>0, <2>4
  <2> QED
    BY <2>3, <2>5, <2>7, <2>8, <2>9, <2>10, <2>11
<1> QED BY <1>1, <1>2

\* A file that grows at its end keeps what it held.
LEMMA GrowFile ==
    ASSUME FileType, NEW m \in DOMAIN disk, NEW extra \in Seq(Frames),
           disk' = [disk EXCEPT ![m] = @ \o extra]
    PROVE  /\ disk' \in [DOMAIN disk -> Seq(Frames)] /\ DOMAIN disk' = DOMAIN disk
           /\ \A b \in DOMAIN disk : b # m => disk'[b] = disk[b]
           /\ Len(disk'[m]) = Len(disk[m]) + Len(extra)
           /\ \A i \in 1 .. Len(disk'[m]) :
                disk'[m][i] = IF i <= Len(disk[m]) THEN disk[m][i] ELSE extra[i - Len(disk[m])]
           /\ \A i \in 1 .. Len(extra) : disk'[m][Len(disk[m]) + i] = extra[i]
           /\ \A r : OnDisk(disk, r) => OnDisk(disk', r)
           /\ \A r : Reachable(disk, r) => Reachable(disk', r)
<1>1. disk[m] \in Seq(Frames) /\ Len(disk[m]) \in Nat /\ Len(extra) \in Nat
  BY DEF FileType
<1>2. /\ disk[m] \o extra \in Seq(Frames) /\ Len(disk[m] \o extra) = Len(disk[m]) + Len(extra)
      /\ \A i \in 1 .. Len(disk[m]) + Len(extra) :
           (disk[m] \o extra)[i] = IF i <= Len(disk[m]) THEN disk[m][i] ELSE extra[i - Len(disk[m])]
  BY <1>1, ConcatProperties
<1>3. /\ disk' \in [DOMAIN disk -> Seq(Frames)] /\ DOMAIN disk' = DOMAIN disk
      /\ disk'[m] = disk[m] \o extra /\ \A b \in DOMAIN disk : b # m => disk'[b] = disk[b]
  BY <1>2 DEF FileType
<1>4. /\ Len(disk'[m]) = Len(disk[m]) + Len(extra)
      /\ \A i \in 1 .. Len(disk'[m]) :
           disk'[m][i] = IF i <= Len(disk[m]) THEN disk[m][i] ELSE extra[i - Len(disk[m])]
  BY <1>2, <1>3
<1>5. \A i \in 1 .. Len(extra) : disk'[m][Len(disk[m]) + i] = extra[i]
  BY <1>1, <1>4
<1>6. \A r : OnDisk(disk, r) => OnDisk(disk', r)
  <2> SUFFICES ASSUME NEW r, NEW b \in DOMAIN disk, NEW i \in 1 .. Len(disk[b]), disk[b][i] = r
               PROVE  \E i2 \in 1 .. Len(disk'[b]) : disk'[b][i2] = r
    BY <1>3 DEF OnDisk
  <2>1. CASE b # m
    BY <1>3, <2>1
  <2>2. CASE b = m
    <3>1. i \in 1 .. Len(disk'[m]) /\ disk'[m][i] = disk[m][i]
      BY <1>1, <1>4, <2>2
    <3> QED BY <2>2, <3>1
  <2> QED BY <2>1, <2>2
<1>7. \A r : Reachable(disk, r) => Reachable(disk', r)
  <2> SUFFICES ASSUME NEW r, NEW b \in DOMAIN disk, NEW i \in 1 .. Len(disk[b]), disk[b][i] = r,
                      \A j \in 1 .. i : disk[b][j] # Torn
               PROVE  \E i2 \in 1 .. Len(disk'[b]) :
                         disk'[b][i2] = r /\ \A j \in 1 .. i2 : disk'[b][j] # Torn
    BY <1>3 DEF Reachable
  <2>1. CASE b # m
    BY <1>3, <2>1
  <2>2. CASE b = m
    <3>1. i \in 1 .. Len(disk'[m]) /\ \A j \in 1 .. i : j \in 1 .. Len(disk'[m]) /\ j <= Len(disk[m])
      BY <1>1, <1>4, <2>2
    <3>2. disk'[m][i] = disk[m][i] /\ \A j \in 1 .. i : disk'[m][j] = disk[m][j]
      BY <1>1, <1>4, <2>2, <3>1
    <3> QED BY <2>2, <3>1, <3>2
  <2> QED BY <2>1, <2>2
<1> QED
  BY <1>3, <1>4, <1>5, <1>6, <1>7

-----------------------------------------------------------------------------
(* Whatever fails, the invariant stays                                     *)

\* The active segment is the newest file, and memory knows its end.
LEMMA ActiveIsTop ==
    ASSUME FileInv, up, DOMAIN segs # {}
    PROVE  /\ Active \in DOMAIN disk /\ Active \in DOMAIN segs /\ IsTop(DOMAIN disk, Active)
           /\ next_offset = Active + segs[Active] /\ segs[Active] <= Len(disk[Active])
           /\ Active \in Nat /\ segs[Active] \in Nat /\ Len(disk[Active]) \in Nat
<1>1. DOMAIN segs \subseteq DOMAIN disk /\ DOMAIN disk \subseteq Nat
  BY DEF FileInv, MemoryInv, FileType
<1>2. PICK m : IsTop(DOMAIN disk, m)
  BY <1>1 DEF FileInv, MemoryInv
<1>3. m \in DOMAIN disk /\ m \in DOMAIN segs /\ next_offset = m + segs[m] /\ segs[m] <= Len(disk[m])
  BY <1>2 DEF IsTop, FileInv, MemoryInv
<1>4. IsTop(DOMAIN segs, m)
  BY <1>1, <1>2, <1>3 DEF IsTop
<1>5. Active = m
  BY <1>1, <1>4, MaxProperties DEF Active
<1> QED
  BY <1>1, <1>2, <1>3, <1>5 DEF FileInv, FileType

\* Frames that go to the end of the active file carry the next offset, and so
\* never an offset above their position.
LEMMA GrowTop ==
    ASSUME FileInv, up, DOMAIN segs # {}, NEW extra \in Seq(Frames),
           \A j \in 1 .. Len(extra) : extra[j] # Torn => extra[j].offset = next_offset,
           disk' = [disk EXCEPT ![Active] = @ \o extra]
    PROVE  /\ OffsetsBounded'
           /\ \A b \in DOMAIN disk' : \A i \in 1 .. Len(disk'[b]) : disk'[b][i] = Torn =>
                \/ i \in 1 .. Len(disk[b]) /\ disk[b][i] = Torn
                \/ b = Active /\ i > Len(disk[b]) /\ extra[i - Len(disk[b])] = Torn
<1> DEFINE m == Active
<1>1. /\ m \in DOMAIN disk /\ IsTop(DOMAIN disk, m) /\ next_offset = m + segs[m]
      /\ segs[m] <= Len(disk[m]) /\ m \in Nat /\ segs[m] \in Nat /\ Len(disk[m]) \in Nat
  BY ActiveIsTop
<1>2. FileType /\ OffsetsBounded
  BY DEF FileInv
<1>3. disk' = [disk EXCEPT ![m] = @ \o extra]
  OBVIOUS
<1> HIDE DEF m
<1>4. /\ DOMAIN disk' = DOMAIN disk
      /\ \A b \in DOMAIN disk : b # m => disk'[b] = disk[b]
      /\ Len(disk'[m]) = Len(disk[m]) + Len(extra)
      /\ \A i \in 1 .. Len(disk'[m]) :
           disk'[m][i] = IF i <= Len(disk[m]) THEN disk[m][i] ELSE extra[i - Len(disk[m])]
  BY <1>1, <1>2, <1>3, GrowFile
<1>5. ASSUME NEW b \in DOMAIN disk', NEW i \in 1 .. Len(disk'[b])
      PROVE  /\ disk'[b][i] = Torn =>
                  \/ i \in 1 .. Len(disk[b]) /\ disk[b][i] = Torn
                  \/ b = m /\ i > Len(disk[b]) /\ extra[i - Len(disk[b])] = Torn
             /\ disk'[b][i] # Torn => /\ disk'[b][i].offset <= b + i - 1
                                      /\ \A c \in DOMAIN disk' : b < c => disk'[b][i].offset < c
  <2>1. CASE b # m
    <3>1. disk'[b] = disk[b] /\ b \in DOMAIN disk
      BY <1>4, <2>1
    <3> QED
      BY <1>2, <1>4, <3>1 DEF OffsetsBounded
  <2>2. CASE b = m /\ i <= Len(disk[m])
    <3>1. i \in 1 .. Len(disk[m]) /\ disk'[m][i] = disk[m][i]
      BY <1>1, <1>4, <2>2
    <3> QED
      BY <1>1, <1>2, <1>4, <2>2, <3>1 DEF OffsetsBounded
  <2>3. CASE b = m /\ i > Len(disk[m])
    <3>1. disk'[b][i] = extra[i - Len(disk[m])] /\ i - Len(disk[m]) \in 1 .. Len(extra)
      BY <1>1, <1>4, <2>3
    <3>2. next_offset <= m + i - 1
      BY <1>1, <2>3
    <3>3. \A c \in DOMAIN disk' : ~(m < c)
      BY <1>1, <1>2, <1>4 DEF IsTop, FileType
    <3> QED
      BY <2>3, <3>1, <3>2, <3>3
  <2> QED
    BY <1>1, <1>4, <2>1, <2>2, <2>3
<1>6. OffsetsBounded'
  BY <1>5 DEF OffsetsBounded
<1> QED
  BY <1>5, <1>6 DEF m

\* Retention removes the oldest segment of two or more.
LEMMA RemovalProperties ==
    ASSUME FileInv, up, Cardinality(DOMAIN segs) > 1
    PROVE  /\ Oldest \in DOMAIN segs /\ Oldest # Active /\ DOMAIN segs # {}
           /\ Active \in DOMAIN segs \ {Oldest}
           /\ Min(DOMAIN segs \ {Oldest}) \in DOMAIN segs \ {Oldest}
           /\ \A b \in DOMAIN segs \ {Oldest} : Min(DOMAIN segs \ {Oldest}) <= b
           /\ Oldest < Min(DOMAIN segs \ {Oldest})
           /\ \A b \in DOMAIN segs : Oldest <= b
<1>1. DOMAIN segs \subseteq Nat
  BY DEF FileInv, MemoryInv, FileType
<1>2. DOMAIN segs # {} /\ \A x : DOMAIN segs # {x}
  <2>1. \A S : S = {} => Cardinality(S) = 0
    BY FS_EmptySet
  <2>2. \A S, x : S = {x} => Cardinality(S) = 1
    BY FS_Singleton
  <2>3. Cardinality(DOMAIN segs) # 0 /\ Cardinality(DOMAIN segs) # 1
    OBVIOUS
  <2> QED
    BY <2>1, <2>2, <2>3
<1>3. Oldest \in DOMAIN segs /\ \A b \in DOMAIN segs : Oldest <= b
  BY <1>1, <1>2, MinProperties DEF Oldest
<1>4. PICK x \in DOMAIN segs : x # Oldest
  BY <1>2, <1>3
<1>5. Active \in DOMAIN segs /\ \A b \in DOMAIN segs : b <= Active
  BY <1>2, ActiveIsTop DEF IsTop, FileInv, MemoryInv
<1>6. Oldest # Active
  BY <1>1, <1>3, <1>4, <1>5
<1> DEFINE rest == DOMAIN segs \ {Oldest}
<1>7. rest \in SUBSET Nat /\ rest # {}
  BY <1>1, <1>4
<1>8. Min(rest) \in rest /\ \A b \in rest : Min(rest) <= b
  BY <1>7, MinProperties
<1>9. Oldest < Min(rest)
  BY <1>1, <1>3, <1>8
<1> QED
  BY <1>2, <1>3, <1>5, <1>6, <1>8, <1>9

\* append numbers its batch from the high watermark on.
LEMMA BeginStep == FileInv /\ BeginAppend => FileInv'
<1> SUFFICES ASSUME FileInv, BeginAppend PROVE FileInv'
  OBVIOUS
<1>0. FileType /\ TornLast /\ OffsetsBounded /\ MemoryInv /\ AckedInv
  BY DEF FileInv
<1>a. PICK n \in 1 .. MaxBatch : \E vals \in [1 .. n -> Values] :
        call' = [busy |-> TRUE,
                 batch |-> [i \in 1 .. n |-> [offset |-> next_offset + i - 1, value |-> vals[i]]],
                 todo |-> [i \in 1 .. n |-> [offset |-> next_offset + i - 1, value |-> vals[i]]]]
  BY DEF BeginAppend
<1>1. PICK vals \in [1 .. n -> Values] :
        call' = [busy |-> TRUE,
                 batch |-> [i \in 1 .. n |-> [offset |-> next_offset + i - 1, value |-> vals[i]]],
                 todo |-> [i \in 1 .. n |-> [offset |-> next_offset + i - 1, value |-> vals[i]]]]
  BY <1>a
<1> DEFINE s == [i \in 1 .. n |-> [offset |-> next_offset + i - 1, value |-> vals[i]]]
<1>2. n \in Nat /\ next_offset \in Nat
  BY <1>0, FileBoundAssumption DEF FileType
<1>3. \A i \in 1 .. n : next_offset + i - 1 \in Nat
  BY <1>2
<1>4. s \in [1 .. n -> Record]
  BY <1>3 DEF Record
<1>5. s \in Seq(Record) /\ Len(s) = n
  BY <1>2, <1>4, SeqDef
<1>6. \A i \in 1 .. n : s[i].offset = next_offset + i - 1
  OBVIOUS
<1>7. call' = [busy |-> TRUE, batch |-> s, todo |-> s]
  BY <1>1
<1> HIDE DEF s
<1>8. UNCHANGED <<disk, segs, pending, start_offset, next_offset, up, acked>> /\ up
  BY DEF BeginAppend, memory
<1>9. FileType'
  BY <1>0, <1>5, <1>7, <1>8 DEF FileType
<1>10. CallInv'
  <2>1. call'.busy /\ call'.batch = s /\ call'.todo = s
    BY <1>7
  <2>2. Written' = 0
    BY <1>2, <1>5, <2>1 DEF Written
  <2>3. \A i \in 1 .. n : 0 + i = i
    OBVIOUS
  <2>4. 1 .. 0 = {}
    OBVIOUS
  <2> QED
    BY <1>2, <1>5, <1>6, <1>8, <2>1, <2>2, <2>3, <2>4 DEF CallInv
<1>11. TornLast' /\ OffsetsBounded' /\ MemoryInv' /\ AckedInv'
  BY <1>0, <1>8 DEF TornLast, OffsetsBounded, MemoryInv, HasRoom, AckedInv, Reachable
<1> QED
  BY <1>9, <1>10, <1>11 DEF FileInv

\* A new segment begins at the next offset, above every file there is.
LEMMA CreateProperties ==
    ASSUME FileInv, CreateSegment
    PROVE  /\ \A b \in DOMAIN disk : b < next_offset
           /\ DOMAIN disk' = DOMAIN disk \cup {next_offset}
           /\ DOMAIN segs' = DOMAIN segs \cup {next_offset}
           /\ disk'[next_offset] = <<>> /\ segs'[next_offset] = 0
           /\ \A b \in DOMAIN disk : disk'[b] = disk[b]
           /\ \A b \in DOMAIN segs : segs'[b] = segs[b]
<1>1. DOMAIN segs \subseteq DOMAIN disk /\ DOMAIN disk \subseteq Nat /\ up /\ next_offset \in Nat
  BY DEF FileInv, MemoryInv, FileType, CreateSegment, Appending
<1>2. \A b \in DOMAIN disk : b < next_offset
  <2>1. CASE DOMAIN segs = {}
    BY <1>1, <2>1 DEF FileInv, MemoryInv
  <2>2. CASE DOMAIN segs # {}
    <3>1. segs[Active] >= SegmentMax
      BY <1>1, <2>2, ActiveIsTop DEF CreateSegment, NeedsRoll
    <3>2. \A b \in DOMAIN disk : b <= Active /\ b \in Nat
      BY <1>1, <2>2, ActiveIsTop DEF IsTop
    <3>3. Active < next_offset /\ Active \in Nat
      BY <1>1, <2>2, <3>1, ActiveIsTop, PolicyAssumption
    <3> HIDE DEF Active
    <3> QED
      BY <1>1, <3>2, <3>3
  <2> QED BY <2>1, <2>2
<1>3. next_offset \notin DOMAIN disk /\ next_offset \notin DOMAIN segs
  BY <1>1, <1>2
<1> QED
  BY <1>2, <1>3 DEF CreateSegment

\* Segment::create leaves the records alone.
LEMMA CreateStep == FileInv /\ CreateSegment => FileInv'
<1> SUFFICES ASSUME FileInv, CreateSegment PROVE FileInv'
  OBVIOUS
<1> DEFINE n == next_offset
<1>0. FileType /\ TornLast /\ OffsetsBounded /\ MemoryInv /\ CallInv /\ AckedInv
  BY DEF FileInv
<1>1. /\ \A b \in DOMAIN disk : b < n
      /\ DOMAIN disk' = DOMAIN disk \cup {n} /\ DOMAIN segs' = DOMAIN segs \cup {n}
      /\ disk'[n] = <<>> /\ segs'[n] = 0
      /\ \A b \in DOMAIN disk : disk'[b] = disk[b]
      /\ \A b \in DOMAIN segs : segs'[b] = segs[b]
  BY CreateProperties
<1>2. /\ UNCHANGED <<start_offset, next_offset, call, up, acked>> /\ up /\ pending' = <<>>
      /\ next_offset \in Nat /\ DOMAIN disk \subseteq Nat
  BY <1>0 DEF CreateSegment, Appending, FileType
<1>3. FileType'
  <2>1. disk' \in [DOMAIN disk' -> Seq(Frames)]
    <3>0. <<>> \in Seq(Frames)
      OBVIOUS
    <3>1. \A b \in DOMAIN disk' : disk'[b] \in Seq(Frames)
      BY <1>0, <1>1, <3>0 DEF FileType
    <3> QED
      BY <3>1 DEF CreateSegment
  <2>2. segs' \in [DOMAIN segs' -> Nat]
    BY <1>0, <1>1 DEF CreateSegment, FileType
  <2>3. IsFiniteSet(DOMAIN disk') /\ DOMAIN disk' \subseteq Nat
    <3>1. IsFiniteSet(DOMAIN disk)
      BY <1>0 DEF FileType
    <3>2. IsFiniteSet(DOMAIN disk \cup {n})
      BY <3>1, FS_AddElement
    <3> QED
      BY <1>1, <1>2, <3>2
  <2>4. pending' \in Seq(Record)
    BY <1>2
  <2> QED
    BY <1>0, <1>2, <2>1, <2>2, <2>3, <2>4 DEF FileType
<1>4. n \notin DOMAIN disk /\ Len(disk'[n]) = 0
  BY <1>1, <1>2
<1>5. ASSUME NEW b \in DOMAIN disk', NEW i \in 1 .. Len(disk'[b])
      PROVE  b \in DOMAIN disk /\ disk'[b] = disk[b] /\ b < n
  BY <1>1, <1>4, <1>5
<1>6. TornLast'
  BY <1>0, <1>2, <1>5 DEF TornLast
<1>7. \A b \in DOMAIN disk : \A i \in 1 .. Len(disk[b]) : disk[b][i] # Torn => disk[b][i].offset < n
  <2>1. ~HasRoom
    <3> SUFFICES ASSUME NEW t \in DOMAIN segs, IsTop(DOMAIN disk, t), segs[t] < SegmentMax PROVE FALSE
      BY DEF HasRoom
    <3>1. DOMAIN segs # {} /\ Active \in DOMAIN disk /\ IsTop(DOMAIN disk, Active) /\ Active \in DOMAIN segs
      BY <1>2, ActiveIsTop
    <3>2. t = Active
      <4> HIDE DEF Active
      <4> QED BY <1>2, <3>1 DEF IsTop
    <3>3. segs[Active] >= SegmentMax
      BY <3>1 DEF CreateSegment, NeedsRoll
    <3>4. segs[t] \in Nat /\ segs[t] >= SegmentMax
      <4> HIDE DEF Active
      <4> QED BY <1>0, <3>2, <3>3 DEF FileType
    <3> QED
      BY <3>4, PolicyAssumption
  <2> QED
    BY <1>0, <1>2, <2>1 DEF MemoryInv
<1>8. OffsetsBounded'
  <2> SUFFICES ASSUME NEW b \in DOMAIN disk', NEW i \in 1 .. Len(disk'[b]), disk'[b][i] # Torn
               PROVE  /\ disk'[b][i].offset <= b + i - 1
                      /\ \A c \in DOMAIN disk' : b < c => disk'[b][i].offset < c
    BY DEF OffsetsBounded
  <2>1. b \in DOMAIN disk /\ disk'[b] = disk[b] /\ i \in 1 .. Len(disk[b])
    BY <1>5
  <2>2. disk[b][i] # Torn /\ disk[b][i].offset < n
    BY <1>7, <2>1
  <2>3. /\ disk[b][i].offset <= b + i - 1
        /\ \A c \in DOMAIN disk : b < c => disk[b][i].offset < c
    BY <1>0, <2>1, <2>2 DEF OffsetsBounded
  <2> HIDE DEF n
  <2> QED
    BY <1>1, <2>1, <2>2, <2>3
<1>9. MemoryInv'
  <2>1. IsTop(DOMAIN disk', n)
    BY <1>1, <1>2 DEF IsTop
  <2>2. \A m \in DOMAIN disk' : IsTop(DOMAIN disk', m) => m = n
    BY <1>1, <1>2 DEF IsTop
  <2>3. \A m \in DOMAIN disk' : IsTop(DOMAIN disk', m) =>
          m \in DOMAIN segs' /\ next_offset' = m + segs'[m] /\ segs'[m] <= Len(disk'[m])
    <3>1. n \in DOMAIN segs' /\ next_offset' = n + segs'[n] /\ segs'[n] <= Len(disk'[n])
      <4>1. n \in Nat /\ next_offset' = n
        BY <1>2
      <4> HIDE DEF n
      <4> QED
        BY <1>1, <1>4, <4>1
    <3> HIDE DEF n
    <3> QED
      BY <2>2, <3>1
  <2>4. \A b \in DOMAIN disk' : \A i \in 1 .. Len(disk'[b]) :
          disk'[b][i] # Torn => disk'[b][i].offset < next_offset'
    BY <1>2, <1>5, <1>7
  <2>5. start_offset' <= next_offset' /\ \A b \in DOMAIN segs' : start_offset' <= b
    BY <1>0, <1>1, <1>2 DEF MemoryInv
  <2>6. DOMAIN segs' \subseteq DOMAIN disk' /\ DOMAIN segs' # {}
    BY <1>0, <1>1, <1>2 DEF MemoryInv
  <2>7. Len(pending') = 0
    BY <1>2
  <2> QED
    BY <1>2, <2>1, <2>3, <2>4, <2>5, <2>6, <2>7 DEF MemoryInv
<1>10. \A r : OnDisk(disk, r) => OnDisk(disk', r)
  BY <1>1 DEF OnDisk
<1>13. \A r : Reachable(disk, r) => Reachable(disk', r)
  BY <1>1 DEF Reachable
<1>11. CallInv'
  BY <1>0, <1>2, <1>10 DEF CallInv, Written
<1>12. AckedInv'
  BY <1>0, <1>2, <1>13 DEF AckedInv
<1> QED
  BY <1>3, <1>6, <1>8, <1>9, <1>11, <1>12 DEF FileInv

\* What a write puts into the active file: the frames a failed flush left, and
\* the next record of the batch, which all carry the next offset.
LEMMA WriteProperties ==
    ASSUME FileInv, WriteRecord
    PROVE  /\ DOMAIN segs # {} /\ up /\ call.busy /\ call.todo # <<>>
           /\ \E extra \in Seq(Record) :
                /\ Len(extra) = Len(pending) + 1
                /\ \A j \in 1 .. Len(extra) : extra[j].offset = next_offset
                /\ extra[Len(extra)] = call.todo[1]
                /\ disk' = [disk EXCEPT ![Active] = @ \o extra]
<1>0. FileType /\ MemoryInv /\ CallInv
  BY DEF FileInv
<1>1. DOMAIN segs # {} /\ up /\ call.busy /\ call.todo # <<>>
  BY DEF WriteRecord, Appending, NeedsRoll
<1>2. pending \in Seq(Record) /\ Len(pending) \in Nat /\ call.todo \in Seq(Record)
  BY <1>0 DEF FileType
<1>3. Len(call.todo) \in Nat /\ Len(call.todo) >= 1
  BY <1>1, <1>2
<1>4. call.todo[1] \in Record /\ call.todo[1].offset = next_offset
  <2>1. 1 \in 1 .. Len(call.todo)
    BY <1>3
  <2>2. call.todo[1].offset = next_offset + 1 - 1
    BY <1>0, <1>1, <2>1 DEF CallInv
  <2>3. next_offset + 1 - 1 = next_offset
    BY <1>0 DEF FileType
  <2> QED
    BY <1>2, <2>1, <2>2, <2>3, ElementOfSeq
<1> DEFINE x == call.todo[1]
           extra == pending \o <<x>>
<1>5. <<x>> \in Seq(Record) /\ Len(<<x>>) = 1 /\ <<x>>[1] = x
  BY <1>4
<1>6. /\ extra \in Seq(Record) /\ Len(extra) = Len(pending) + 1
      /\ \A i \in 1 .. Len(pending) + 1 :
           extra[i] = IF i <= Len(pending) THEN pending[i] ELSE <<x>>[i - Len(pending)]
  BY <1>2, <1>5, ConcatProperties
<1>7. \A j \in 1 .. Len(extra) : extra[j].offset = next_offset
  <2> SUFFICES ASSUME NEW j \in 1 .. Len(extra) PROVE extra[j].offset = next_offset
    OBVIOUS
  <2> HIDE DEF extra
  <2>1. CASE j <= Len(pending)
    BY <1>0, <1>1, <1>2, <1>6, <2>1 DEF MemoryInv
  <2>2. CASE j > Len(pending)
    <3>1. j = Len(pending) + 1 /\ j - Len(pending) = 1
      BY <1>2, <1>6, <2>2
    <3> QED
      BY <1>2, <1>4, <1>5, <1>6, <2>2, <3>1
  <2> QED BY <1>2, <1>6, <2>1, <2>2
<1>8. extra[Len(extra)] = x
  <2> HIDE DEF extra
  <2>1. Len(pending) + 1 - Len(pending) = 1
    BY <1>2
  <2> QED
    BY <1>2, <1>5, <1>6, <2>1
<1>9. disk' = [disk EXCEPT ![Active] = @ \o extra]
  <2>1. disk[Active] \in Seq(Frames) /\ pending \in Seq(Frames) /\ <<x>> \in Seq(Frames)
    <3>1. disk[Active] \in Seq(Frames)
      BY <1>0, <1>1, ActiveIsTop DEF FileType
    <3>2. pending \in Seq(Frames) /\ <<x>> \in Seq(Frames)
      BY <1>2, <1>4 DEF Frames
    <3> QED BY <3>1, <3>2
  <2>2. (disk[Active] \o pending) \o <<x>> = disk[Active] \o extra
    <3> DEFINE f == disk[Active]
               g == <<x>>
    <3> HIDE DEF f, g
    <3>1. f \in Seq(Frames) /\ pending \in Seq(Frames) /\ g \in Seq(Frames)
      BY <2>1 DEF f, g
    <3>2. (f \o pending) \o g = f \o (pending \o g)
      BY <3>1, ConcatAssociative
    <3> QED
      BY <3>2 DEF f, g
  <2>3. disk' = [disk EXCEPT ![Active] = @ \o pending \o <<x>>]
    BY DEF WriteRecord
  <2>4. disk' = [disk EXCEPT ![Active] = (disk[Active] \o pending) \o <<x>>]
    BY <2>3
  <2> HIDE DEF extra
  <2> QED
    BY <2>2, <2>4
<1> QED
  BY <1>1, <1>6, <1>7, <1>8, <1>9

\* Segment::append puts the next record of the batch into the active file.
LEMMA WriteStep == FileInv /\ WriteRecord => FileInv'
<1> SUFFICES ASSUME FileInv, WriteRecord PROVE FileInv'
  OBVIOUS
<1> DEFINE m == Active
<1>0. FileType /\ TornLast /\ OffsetsBounded /\ MemoryInv /\ CallInv /\ AckedInv
  BY DEF FileInv
<1>1. DOMAIN segs # {} /\ up /\ call.busy /\ call.todo # <<>>
  BY WriteProperties
<1>2. PICK extra \in Seq(Record) :
        /\ Len(extra) = Len(pending) + 1
        /\ \A j \in 1 .. Len(extra) : extra[j].offset = next_offset
        /\ extra[Len(extra)] = call.todo[1]
        /\ disk' = [disk EXCEPT ![Active] = @ \o extra]
  BY WriteProperties
<1>3. /\ m \in DOMAIN disk /\ m \in DOMAIN segs /\ IsTop(DOMAIN disk, m)
      /\ next_offset = m + segs[m] /\ segs[m] <= Len(disk[m])
      /\ m \in Nat /\ segs[m] \in Nat /\ Len(disk[m]) \in Nat
  BY <1>1, ActiveIsTop
<1>4. /\ extra \in Seq(Frames) /\ Len(extra) \in Nat /\ Len(extra) >= 1 /\ Len(pending) \in Nat
      /\ \A j \in 1 .. Len(extra) : extra[j] # Torn
  <2>1. \A j \in 1 .. Len(extra) : extra[j] \in Record /\ extra[j] # Torn
    BY ElementOfSeq, TornNotRecord
  <2>2. Len(pending) \in Nat
    BY <1>0 DEF FileType
  <2>3. extra \in Seq(Frames)
    BY DEF Frames
  <2> QED
    BY <1>2, <2>1, <2>2, <2>3
<1>5. /\ disk' \in [DOMAIN disk -> Seq(Frames)] /\ DOMAIN disk' = DOMAIN disk
      /\ \A b \in DOMAIN disk : b # m => disk'[b] = disk[b]
      /\ Len(disk'[m]) = Len(disk[m]) + Len(extra)
      /\ \A i \in 1 .. Len(disk'[m]) :
           disk'[m][i] = IF i <= Len(disk[m]) THEN disk[m][i] ELSE extra[i - Len(disk[m])]
      /\ \A i \in 1 .. Len(extra) : disk'[m][Len(disk[m]) + i] = extra[i]
      /\ \A r : OnDisk(disk, r) => OnDisk(disk', r)
      /\ \A r : Reachable(disk, r) => Reachable(disk', r)
  BY <1>0, <1>2, <1>3, <1>4, GrowFile
<1>6. OffsetsBounded' /\ \A b \in DOMAIN disk' : \A i \in 1 .. Len(disk'[b]) : disk'[b][i] = Torn =>
        \/ i \in 1 .. Len(disk[b]) /\ disk[b][i] = Torn
        \/ b = m /\ i > Len(disk[b]) /\ extra[i - Len(disk[b])] = Torn
  BY <1>1, <1>2, <1>4, GrowTop
<1>7. /\ segs' = [segs EXCEPT ![m] = @ + 1] /\ next_offset' = next_offset + 1 /\ pending' = <<>>
      /\ call' = [call EXCEPT !.todo = Tail(@)]
      /\ UNCHANGED <<start_offset, up, acked>>
  BY DEF WriteRecord
<1> HIDE DEF m
<1>8. TornLast'
  <2> SUFFICES ASSUME NoPartial, NEW b \in DOMAIN disk', NEW i \in 1 .. Len(disk'[b]),
                      disk'[b][i] = Torn
               PROVE  FALSE
    BY DEF TornLast
  <2>1. b = m /\ i > Len(disk[m]) /\ extra[i - Len(disk[m])] = Torn
    BY <1>0, <1>1, <1>5, <1>6 DEF TornLast
  <2>2. i - Len(disk[m]) \in 1 .. Len(extra)
    BY <1>3, <1>4, <1>5, <2>1
  <2> QED
    BY <1>4, <2>1, <2>2
<1>9. /\ call.todo \in Seq(Record) /\ call.batch \in Seq(Record) /\ Tail(call.todo) \in Seq(Record)
      /\ Len(call.todo) \in Nat /\ Len(call.batch) \in Nat /\ Len(call.todo) >= 1
      /\ Len(Tail(call.todo)) = Len(call.todo) - 1
      /\ \A i \in 1 .. Len(call.todo) - 1 : Tail(call.todo)[i] = call.todo[i + 1]
  <2>1. call.todo \in Seq(Record) /\ call.batch \in Seq(Record)
    BY <1>0 DEF FileType
  <2>2. Len(call.todo) \in Nat /\ Len(call.batch) \in Nat /\ Len(call.todo) >= 1
    BY <1>1, <2>1
  <2>3. /\ Tail(call.todo) \in Seq(Record) /\ Len(Tail(call.todo)) = Len(call.todo) - 1
        /\ \A i \in 1 .. Len(Tail(call.todo)) : Tail(call.todo)[i] = call.todo[i + 1]
    BY <1>1, <2>1, HeadTailProperties
  <2> QED
    BY <2>1, <2>2, <2>3
<1>10. /\ segs' \in [DOMAIN segs -> Nat] /\ DOMAIN segs' = DOMAIN segs /\ segs'[m] = segs[m] + 1
       /\ next_offset \in Nat
  BY <1>0, <1>3, <1>7 DEF FileType
<1>11. call'.busy /\ call'.batch = call.batch /\ call'.todo = Tail(call.todo)
       /\ call' \in [busy : BOOLEAN, batch : Seq(Record), todo : Seq(Record)]
  BY <1>0, <1>1, <1>7, <1>9 DEF FileType
<1>12. FileType'
  <2>1. /\ disk' \in [DOMAIN disk' -> Seq(Frames)] /\ DOMAIN disk' \subseteq Nat
        /\ IsFiniteSet(DOMAIN disk') /\ segs' \in [DOMAIN segs' -> Nat]
    BY <1>0, <1>5, <1>10 DEF FileType
  <2>2. next_offset' \in Nat
    BY <1>7, <1>10
  <2>3. pending' \in Seq(Record)
    BY <1>7
  <2>4. start_offset' \in Nat /\ up' \in BOOLEAN /\ acked' \subseteq Record
    BY <1>0, <1>7 DEF FileType
  <2> QED
    BY <1>11, <2>1, <2>2, <2>3, <2>4 DEF FileType
<1>13. MemoryInv'
  <2>1. IsTop(DOMAIN disk', m)
    BY <1>3, <1>5
  <2>2. \A k \in DOMAIN disk' : IsTop(DOMAIN disk', k) => k = m
    BY <1>0, <1>3, <1>5 DEF IsTop, FileType
  <2>3. m \in DOMAIN segs' /\ next_offset' = m + segs'[m] /\ segs'[m] <= Len(disk'[m])
    <3>1. segs'[m] = segs[m] + 1 /\ next_offset' = next_offset + 1
          /\ Len(disk'[m]) = Len(disk[m]) + Len(extra) /\ m \in DOMAIN segs'
      BY <1>3, <1>5, <1>7, <1>10
    <3>2. m + segs[m] + 1 = m + (segs[m] + 1) /\ segs[m] + 1 <= Len(disk[m]) + Len(extra)
      BY <1>3, <1>4
    <3> QED
      BY <1>3, <3>1, <3>2
  <2>4. \A b \in DOMAIN disk' : \A i \in 1 .. Len(disk'[b]) :
          disk'[b][i] # Torn => disk'[b][i].offset < next_offset'
    <3> SUFFICES ASSUME NEW b \in DOMAIN disk', NEW i \in 1 .. Len(disk'[b]), disk'[b][i] # Torn
                 PROVE  disk'[b][i].offset < next_offset + 1
      BY <1>7
    <3>1. CASE b = m /\ i > Len(disk[m])
      <4>1. disk'[b][i] = extra[i - Len(disk[m])] /\ i - Len(disk[m]) \in 1 .. Len(extra)
        BY <1>3, <1>4, <1>5, <3>1
      <4>2. disk'[b][i].offset = next_offset
        BY <1>2, <4>1
      <4> QED BY <1>10, <4>2
    <3>2. CASE ~(b = m /\ i > Len(disk[m]))
      <4>1. i \in 1 .. Len(disk[b]) /\ disk'[b][i] = disk[b][i] /\ b \in DOMAIN disk
        <5>1. CASE b # m
          BY <1>5, <5>1
        <5>2. CASE b = m
          <6>1. i \in 1 .. Len(disk'[m]) /\ i <= Len(disk[m])
            BY <1>3, <3>2, <5>2
          <6>2. disk'[m][i] = disk[m][i]
            BY <1>5, <6>1
          <6>3. i \in 1 .. Len(disk[m])
            BY <1>3, <6>1
          <6> QED
            BY <1>3, <5>2, <6>2, <6>3
        <5> QED BY <5>1, <5>2
      <4>2. disk[b][i].offset < next_offset \/ disk[b][i].offset = next_offset
        BY <1>0, <1>1, <4>1 DEF MemoryInv
      <4>3. disk[b][i] \in Record
        BY <1>0, <1>1, <4>1, ElementOfSeq, TornNotRecord DEF FileType
      <4>4. disk[b][i].offset \in Nat
        BY <4>3 DEF Record
      <4> QED BY <1>10, <4>1, <4>2, <4>4
    <3> QED BY <3>1, <3>2
  <2>5. start_offset' <= next_offset' /\ \A b \in DOMAIN segs' : start_offset' <= b
    <3>1. start_offset <= next_offset /\ \A b \in DOMAIN segs : start_offset <= b
      BY <1>0, <1>1 DEF MemoryInv
    <3>2. start_offset \in Nat
      BY <1>0 DEF FileType
    <3> QED
      BY <1>7, <1>10, <3>1, <3>2
  <2>6. DOMAIN segs' \subseteq DOMAIN disk' /\ DOMAIN segs' # {}
    BY <1>0, <1>1, <1>5, <1>10 DEF MemoryInv
  <2>7. Len(pending') = 0
    BY <1>7
  <2> QED
    BY <1>7, <2>1, <2>2, <2>3, <2>4, <2>5, <2>6, <2>7 DEF MemoryInv
<1>14. OnDisk(disk', call.todo[1])
  <2>1. /\ Len(disk[m]) + Len(extra) \in 1 .. Len(disk'[m])
        /\ disk'[m][Len(disk[m]) + Len(extra)] = extra[Len(extra)]
    <3>1. Len(extra) \in 1 .. Len(extra)
          /\ Len(disk[m]) + Len(extra) \in 1 .. Len(disk[m]) + Len(extra)
      BY <1>3, <1>4
    <3> QED
      BY <1>5, <3>1
  <2>2. m \in DOMAIN disk'
    BY <1>3, <1>5
  <2>3. disk'[m][Len(disk[m]) + Len(extra)] = call.todo[1]
    BY <1>2, <2>1
  <2> QED
    BY <2>1, <2>2, <2>3 DEF OnDisk
<1>15. CallInv'
  <2> DEFINE w == Written
  <2>1. /\ w \in Nat /\ Len(call.todo) <= Len(call.batch) /\ w = Len(call.batch) - Len(call.todo)
        /\ \A i \in 1 .. Len(call.todo) : /\ call.todo[i] = call.batch[w + i]
                                          /\ call.todo[i].offset = next_offset + i - 1
        /\ \A i \in 1 .. w : /\ call.batch[i].offset < next_offset
                             /\ call.batch[i].offset >= start_offset => OnDisk(disk, call.batch[i])
    <3>1. Len(call.todo) <= Len(call.batch) /\ w = Len(call.batch) - Len(call.todo)
      BY <1>0, <1>1 DEF CallInv, Written
    <3>2. w \in Nat
      BY <1>9, <3>1
    <3> QED
      BY <1>0, <1>1, <3>1, <3>2 DEF CallInv
  <2>2. Written' = w + 1 /\ Len(call'.todo) = Len(call.todo) - 1
    <3>1. Written' = Len(call.batch) - (Len(call.todo) - 1) /\ Len(call'.todo) = Len(call.todo) - 1
      BY <1>9, <1>11 DEF Written
    <3>2. Len(call.batch) - (Len(call.todo) - 1) = Len(call.batch) - Len(call.todo) + 1
      BY <1>9
    <3> QED
      BY <2>1, <3>1, <3>2
  <2> HIDE DEF w
  <2>3. Len(call'.todo) <= Len(call'.batch)
    BY <1>9, <1>11, <2>1, <2>2
  <2>4. ASSUME NEW i \in 1 .. Len(call'.todo)
        PROVE  call'.todo[i] = call'.batch[Written' + i] /\ call'.todo[i].offset = next_offset' + i - 1
    <3>1. i + 1 \in 1 .. Len(call.todo) /\ i \in 1 .. Len(call.todo) - 1
      BY <1>9, <2>2
    <3>2. call'.todo[i] = call.todo[i + 1]
      BY <1>9, <1>11, <3>1
    <3>3. w + (i + 1) = Written' + i /\ next_offset + (i + 1) - 1 = next_offset' + i - 1
      <4>1. w \in Nat /\ next_offset \in Nat /\ i \in Nat
        BY <1>10, <2>1
      <4>2. w + (i + 1) = (w + 1) + i /\ next_offset + (i + 1) - 1 = (next_offset + 1) + i - 1
        BY <4>1
      <4> QED
        BY <1>7, <2>2, <4>2
    <3> QED
      BY <1>11, <2>1, <3>1, <3>2, <3>3
  <2>5. ASSUME NEW i \in 1 .. Written', call'.batch[i].offset >= start_offset'
        PROVE  OnDisk(disk', call.batch[i])
    <3>1. CASE i \in 1 .. w
      <4>1. OnDisk(disk, call.batch[i])
        BY <1>7, <1>11, <2>1, <2>5, <3>1
      <4>2. \E b \in DOMAIN disk' : \E k \in 1 .. Len(disk'[b]) : disk'[b][k] = call.batch[i]
        BY <1>5, <4>1 DEF OnDisk
      <4> QED
        BY <1>11, <4>2 DEF OnDisk
    <3>2. CASE i = w + 1
      <4>0. 1 \in 1 .. Len(call.todo)
        BY <1>9
      <4>1. call.todo[1] = call.batch[w + 1]
        BY <2>1, <4>0
      <4> QED
        BY <1>14, <3>2, <4>1
    <3>3. i \in 1 .. w \/ i = w + 1
      <4>1. w \in Nat /\ i \in 1 .. w + 1
        BY <2>1, <2>2
      <4> QED BY <4>1
    <3> QED BY <3>1, <3>2, <3>3
  <2>6. ASSUME NEW i \in 1 .. Written' PROVE call'.batch[i].offset < next_offset'
    <3>0. w \in Nat /\ i \in 1 .. w + 1 /\ w + 1 <= Len(call.batch) /\ next_offset \in Nat
      BY <1>9, <1>10, <2>1, <2>2
    <3>1. call.batch[i].offset \in Nat
      <4>1. i \in 1 .. Len(call.batch)
        BY <1>9, <3>0
      <4>2. call.batch[i] \in Record
        BY <1>9, <4>1, ElementOfSeq
      <4> QED BY <4>2 DEF Record
    <3>2. CASE i \in 1 .. w
      BY <1>7, <1>11, <2>1, <3>0, <3>1, <3>2
    <3>3. CASE i = w + 1
      <4>1. 1 \in 1 .. Len(call.todo)
        BY <1>9
      <4>2. call.batch[i].offset = next_offset + 1 - 1
        BY <2>1, <3>3, <4>1
      <4> QED BY <1>7, <1>11, <3>0, <4>2
    <3> QED BY <3>0, <3>2, <3>3
  <2> QED
    BY <1>1, <1>7, <1>11, <2>3, <2>4, <2>5, <2>6 DEF CallInv
<1>16. AckedInv'
  <2> SUFFICES ASSUME NEW r \in acked PROVE Reachable(disk', r) /\ r.offset < next_offset + 1
    BY <1>7 DEF AckedInv
  <2>1. r.offset \in Nat
    BY <1>0 DEF FileType, Record
  <2> QED
    BY <1>0, <1>1, <1>5, <1>10, <2>1 DEF AckedInv
<1> QED
  BY <1>6, <1>8, <1>12, <1>13, <1>15, <1>16 DEF FileInv

\* Removing the oldest segment's file removes no record at or above the new
\* start offset.
LEMMA RemoveStep == FileInv /\ RemoveHead => FileInv'
<1> SUFFICES ASSUME FileInv, RemoveHead PROVE FileInv'
  OBVIOUS
<1> DEFINE h == Oldest
           s == Min(DOMAIN segs \ {Oldest})
           m == Active
<1>0. FileType /\ TornLast /\ OffsetsBounded /\ MemoryInv /\ CallInv /\ AckedInv
  BY DEF FileInv
<1>1. up /\ call.busy /\ call.todo = <<>> /\ Cardinality(DOMAIN segs) > 1
  BY DEF RemoveHead, Retaining, OverRetention
<1>2. /\ h \in DOMAIN segs /\ h # m /\ DOMAIN segs # {} /\ m \in DOMAIN segs \ {h}
      /\ s \in DOMAIN segs \ {h} /\ \A b \in DOMAIN segs \ {h} : s <= b
      /\ h < s /\ \A b \in DOMAIN segs : h <= b
  BY <1>1, RemovalProperties
<1>3. /\ m \in DOMAIN disk /\ IsTop(DOMAIN disk, m) /\ next_offset = m + segs[m]
      /\ segs[m] <= Len(disk[m]) /\ m \in Nat /\ segs[m] \in Nat
  BY <1>1, <1>2, ActiveIsTop
<1>4. /\ segs' = [b \in DOMAIN segs \ {h} |-> segs[b]] /\ disk' = [b \in DOMAIN disk \ {h} |-> disk[b]]
      /\ start_offset' = s /\ acked' = {r \in acked : r.offset >= s}
      /\ UNCHANGED <<pending, next_offset, call, up>>
  BY DEF RemoveHead, Restrict
<1>5. DOMAIN segs \subseteq DOMAIN disk /\ DOMAIN disk \subseteq Nat /\ start_offset \in Nat /\ start_offset <= h
  BY <1>0, <1>1, <1>2 DEF MemoryInv, FileType
<1>6. s \in Nat /\ h \in Nat /\ start_offset <= s
  BY <1>2, <1>5
<1> HIDE DEF h, s, m
<1>7. FileType'
  <2>1. IsFiniteSet(DOMAIN disk')
    <3>1. IsFiniteSet(DOMAIN disk)
      BY <1>0 DEF FileType
    <3>2. IsFiniteSet(DOMAIN disk \ {h})
      BY <3>1, FS_RemoveElement
    <3> QED
      BY <1>4, <3>2
  <2>2. disk' \in [DOMAIN disk' -> Seq(Frames)] /\ DOMAIN disk' \subseteq Nat /\ segs' \in [DOMAIN segs' -> Nat]
    BY <1>0, <1>4 DEF FileType
  <2>3. acked' \subseteq Record
    BY <1>0, <1>4 DEF FileType
  <2> QED
    BY <1>0, <1>4, <1>6, <2>1, <2>2, <2>3 DEF FileType
<1>8. TornLast'
  BY <1>0, <1>1, <1>4 DEF TornLast
<1>9. OffsetsBounded'
  BY <1>0, <1>4 DEF OffsetsBounded
<1>10. MemoryInv'
  <2>1. IsTop(DOMAIN disk', m) /\ m \in DOMAIN disk'
    BY <1>2, <1>3, <1>4 DEF IsTop
  <2>2. \A k \in DOMAIN disk' : IsTop(DOMAIN disk', k) => k = m
    BY <1>4, <1>5, <2>1 DEF IsTop
  <2>3. m \in DOMAIN segs' /\ next_offset' = m + segs'[m] /\ segs'[m] <= Len(disk'[m])
    BY <1>2, <1>3, <1>4
  <2>8. HasRoom => HasRoom'
    <3> SUFFICES ASSUME NEW t \in DOMAIN segs, IsTop(DOMAIN disk, t), segs[t] < SegmentMax PROVE HasRoom'
      BY DEF HasRoom
    <3>1. t = m
      BY <1>3, <1>5 DEF IsTop
    <3> QED
      BY <1>2, <1>4, <2>1, <3>1 DEF HasRoom
  <2>4. \A b \in DOMAIN disk' : \A i \in 1 .. Len(disk'[b]) : disk'[b][i] # Torn =>
          disk'[b][i].offset < next_offset' \/ (disk'[b][i].offset = next_offset' /\ HasRoom')
    BY <1>0, <1>1, <1>4, <2>8 DEF MemoryInv
  <2>5. start_offset' <= next_offset' /\ \A b \in DOMAIN segs' : start_offset' <= b
    <3>1. s <= m
      BY <1>2
    <3>2. s <= m + segs[m]
      BY <1>3, <1>6, <3>1
    <3> QED
      BY <1>2, <1>3, <1>4, <3>2
  <2>6. DOMAIN segs' \subseteq DOMAIN disk' /\ DOMAIN segs' # {}
    BY <1>2, <1>4, <1>5
  <2>7. \A j \in 1 .. Len(pending') : pending'[j].offset = next_offset'
    BY <1>0, <1>1, <1>4 DEF MemoryInv
  <2> QED
    BY <1>1, <1>4, <2>1, <2>2, <2>3, <2>4, <2>5, <2>6, <2>7 DEF MemoryInv
<1>11. ASSUME NEW r \in Record, r.offset >= s, OnDisk(disk, r) PROVE OnDisk(disk', r)
  <2>0. PICK b \in DOMAIN disk : \E i \in 1 .. Len(disk[b]) : disk[b][i] = r
    BY <1>11 DEF OnDisk
  <2>1. PICK i \in 1 .. Len(disk[b]) : disk[b][i] = r
    BY <2>0
  <2>2. b # h
    <3> SUFFICES ASSUME b = h PROVE FALSE
      OBVIOUS
    <3>1. disk[b][i] # Torn
      BY <2>1, TornNotRecord
    <3>2. s \in DOMAIN disk /\ h < s
      BY <1>2, <1>5
    <3>3. disk[b][i].offset < s
      BY <1>0, <3>1, <3>2 DEF OffsetsBounded
    <3>4. r.offset \in Nat
      BY DEF Record
    <3> QED
      BY <1>6, <1>11, <2>1, <3>3, <3>4
  <2>3. b \in DOMAIN disk' /\ disk'[b] = disk[b]
    BY <1>4, <2>2
  <2> QED
    BY <2>1, <2>3 DEF OnDisk
<1>14. ASSUME NEW r \in Record, r.offset >= s, Reachable(disk, r) PROVE Reachable(disk', r)
  <2>0. PICK b \in DOMAIN disk : \E i \in 1 .. Len(disk[b]) :
          disk[b][i] = r /\ \A j \in 1 .. i : disk[b][j] # Torn
    BY <1>14 DEF Reachable
  <2>1. PICK i \in 1 .. Len(disk[b]) : disk[b][i] = r /\ \A j \in 1 .. i : disk[b][j] # Torn
    BY <2>0
  <2>2. b # h
    <3> SUFFICES ASSUME b = h PROVE FALSE
      OBVIOUS
    <3>1. disk[b][i] # Torn
      BY <2>1, TornNotRecord
    <3>2. s \in DOMAIN disk /\ h < s
      BY <1>2, <1>5
    <3>3. disk[b][i].offset < s
      BY <1>0, <3>1, <3>2 DEF OffsetsBounded
    <3>4. r.offset \in Nat
      BY DEF Record
    <3> QED
      BY <1>6, <1>14, <2>1, <3>3, <3>4
  <2>3. b \in DOMAIN disk' /\ disk'[b] = disk[b]
    BY <1>4, <2>2
  <2> QED
    BY <2>1, <2>3 DEF Reachable
<1>12. CallInv'
  <2>1. \A i \in 1 .. Written : call.batch[i] \in Record
    <3>1. call.batch \in Seq(Record) /\ Len(call.batch) \in Nat
      BY <1>0 DEF FileType
    <3>2. Written = Len(call.batch)
      BY <1>1, <3>1 DEF Written
    <3> QED
      BY <3>1, <3>2, ElementOfSeq
  <2>2. ASSUME NEW i \in 1 .. Written, call.batch[i].offset >= s PROVE OnDisk(disk', call.batch[i])
    <3>0. call.batch[i] \in Record /\ call.batch[i].offset \in Nat
      BY <2>1 DEF Record
    <3>1. call.batch[i].offset >= start_offset
      BY <1>5, <1>6, <2>2, <3>0
    <3>2. OnDisk(disk, call.batch[i])
      BY <1>0, <1>1, <3>1 DEF CallInv
    <3> QED
      BY <1>11, <2>2, <3>0, <3>2
  <2>3. Written' = Written
    BY <1>4 DEF Written
  <2> QED
    BY <1>0, <1>4, <2>2, <2>3 DEF CallInv
<1>13. AckedInv'
  BY <1>0, <1>4, <1>14 DEF AckedInv, FileType
<1> QED
  BY <1>7, <1>8, <1>9, <1>10, <1>12, <1>13 DEF FileInv

\* The whole batch is on disk when the append returns.
LEMMA FinishStep == FileInv /\ FinishAppend => FileInv'
<1> SUFFICES ASSUME FileInv, FinishAppend PROVE FileInv'
  OBVIOUS
<1>0. FileType /\ TornLast /\ OffsetsBounded /\ MemoryInv /\ CallInv /\ AckedInv
  BY DEF FileInv
<1>1. /\ up /\ call.busy /\ call.todo = <<>> /\ call' = NoCall
      /\ acked' = acked \cup {r \in ToSet(call.batch) : r.offset >= start_offset /\ ~Unreachable(r)}
      /\ UNCHANGED <<disk, segs, pending, start_offset, next_offset, up>>
  BY DEF FinishAppend, Retaining, Acknowledged
<1>2. call.batch \in Seq(Record) /\ Len(call.batch) \in Nat
  BY <1>0 DEF FileType
<1>3. Written = Len(call.batch)
  BY <1>1, <1>2 DEF Written
<1>4. \A r \in ToSet(call.batch) :
        r \in Record /\ r.offset < next_offset /\ (r.offset >= start_offset => OnDisk(disk, r))
  <2> SUFFICES ASSUME NEW r \in ToSet(call.batch)
               PROVE  /\ r \in Record /\ r.offset < next_offset
                      /\ r.offset >= start_offset => OnDisk(disk, r)
    OBVIOUS
  <2>1. PICK i \in 1 .. Len(call.batch) : r = call.batch[i]
    BY <1>2 DEF ToSet
  <2> QED
    BY <1>0, <1>1, <1>2, <1>3, <2>1, ElementOfSeq DEF CallInv
<1>5. NoCall \in [busy : BOOLEAN, batch : Seq(Record), todo : Seq(Record)] /\ NoCall.busy = FALSE
  BY DEF NoCall
<1>6. FileType'
  BY <1>0, <1>1, <1>4, <1>5 DEF FileType
<1>10. ASSUME NEW r \in Record, OnDisk(disk, r), ~Unreachable(r) PROVE Reachable(disk, r)
  <2>1. PICK b \in DOMAIN disk : \E i \in 1 .. Len(disk[b]) : disk[b][i] = r
    BY <1>10 DEF OnDisk
  <2>2. PICK i \in 1 .. Len(disk[b]) : disk[b][i] = r
    BY <2>1
  <2>3. DOMAIN disk[b] = 1 .. Len(disk[b]) /\ Len(disk[b]) \in Nat
    BY <1>0 DEF FileType
  <2>4. ASSUME NEW j \in 1 .. i, disk[b][j] = Torn PROVE FALSE
    <3>1. i # j
      BY <2>2, <2>4, TornNotRecord
    <3>2. j \in DOMAIN disk[b] /\ i \in DOMAIN disk[b] /\ j < i
      BY <2>3, <3>1
    <3> QED
      BY <1>10, <2>2, <2>4, <3>2 DEF Unreachable
  <2> QED
    BY <2>2, <2>4 DEF Reachable
<1>7. AckedInv'
  <2> SUFFICES ASSUME NEW r \in acked' PROVE Reachable(disk, r) /\ r.offset < next_offset
    BY <1>1 DEF AckedInv, Reachable
  <2>1. CASE r \in acked
    BY <1>0, <1>1, <2>1 DEF AckedInv
  <2>2. CASE r \in ToSet(call.batch) /\ r.offset >= start_offset /\ ~Unreachable(r)
    BY <1>4, <1>10, <2>2
  <2> QED
    BY <1>1, <2>1, <2>2
<1>8. CallInv'
  BY <1>1, <1>5 DEF CallInv
<1>9. TornLast' /\ OffsetsBounded' /\ MemoryInv'
  BY <1>0, <1>1 DEF TornLast, OffsetsBounded, MemoryInv, HasRoom
<1> QED
  BY <1>6, <1>7, <1>8, <1>9 DEF FileInv

\* A failed operation ends the call, and acknowledges nothing.
LEMMA FailedCall ==
    ASSUME FileInv, NEW operation, Fails(operation), up, UNCHANGED disk
    PROVE  /\ UNCHANGED <<start_offset, next_offset, up, acked>>
           /\ call' \in [busy : BOOLEAN, batch : Seq(Record), todo : Seq(Record)]
           /\ TornLast' /\ OffsetsBounded' /\ CallInv' /\ AckedInv'
<1>1. UNCHANGED <<start_offset, next_offset, up, acked>> /\ call' = NoCall
  BY DEF Fails
<1>2. NoCall \in [busy : BOOLEAN, batch : Seq(Record), todo : Seq(Record)] /\ NoCall.busy = FALSE
  BY DEF NoCall
<1>3. CallInv'
  BY <1>1, <1>2 DEF CallInv
<1>4. TornLast' /\ OffsetsBounded' /\ AckedInv'
  BY <1>1 DEF FileInv, TornLast, OffsetsBounded, AckedInv, Reachable
<1> QED
  BY <1>1, <1>2, <1>3, <1>4

\* A segment that cannot be created changes nothing.
LEMMA CreateFailsStep == FileInv /\ CreateFails => FileInv'
<1> SUFFICES ASSUME FileInv, CreateFails PROVE FileInv'
  OBVIOUS
<1>1. up /\ UNCHANGED <<disk, segs, pending>> /\ Fails("create")
  BY DEF CreateFails, Appending
<1>2. /\ UNCHANGED <<start_offset, next_offset, up, acked>>
      /\ call' \in [busy : BOOLEAN, batch : Seq(Record), todo : Seq(Record)]
      /\ TornLast' /\ OffsetsBounded' /\ CallInv' /\ AckedInv'
  BY <1>1, FailedCall
<1>3. FileType'
  BY <1>1, <1>2 DEF FileInv, FileType
<1>4. MemoryInv'
  BY <1>1, <1>2 DEF FileInv, MemoryInv, HasRoom
<1> QED
  BY <1>2, <1>3, <1>4 DEF FileInv

\* A failed flush leaves one more frame of the next offset in the BufWriter.
LEMMA WriteFailsStep == FileInv /\ WriteFails => FileInv'
<1> SUFFICES ASSUME FileInv, WriteFails PROVE FileInv'
  OBVIOUS
<1>0. FileType /\ MemoryInv /\ CallInv
  BY DEF FileInv
<1>1. /\ up /\ call.busy /\ call.todo # <<>> /\ DOMAIN segs # {}
      /\ UNCHANGED <<disk, segs>> /\ Fails("write")
      /\ pending' = pending \/ pending' = Append(pending, call.todo[1])
  BY DEF WriteFails, Appending, NeedsRoll
<1>2. /\ UNCHANGED <<start_offset, next_offset, up, acked>>
      /\ call' \in [busy : BOOLEAN, batch : Seq(Record), todo : Seq(Record)]
      /\ TornLast' /\ OffsetsBounded' /\ CallInv' /\ AckedInv'
  BY <1>1, FailedCall
<1>3. call.todo[1] \in Record /\ call.todo[1].offset = next_offset
  <2>1. call.todo \in Seq(Record) /\ next_offset \in Nat
    BY <1>0 DEF FileType
  <2>2. 1 \in 1 .. Len(call.todo)
    BY <1>1, <2>1
  <2>3. call.todo[1].offset = next_offset + 1 - 1
    BY <1>0, <1>1, <2>2 DEF CallInv
  <2> QED
    BY <2>1, <2>2, <2>3, ElementOfSeq
<1>4. pending' \in Seq(Record) /\ \A j \in 1 .. Len(pending') : pending'[j].offset = next_offset'
  <2>1. pending \in Seq(Record) /\ \A j \in 1 .. Len(pending) : pending[j].offset = next_offset
    BY <1>0, <1>1 DEF FileType, MemoryInv
  <2>2. CASE pending' = pending
    BY <1>2, <2>1, <2>2
  <2>3. CASE pending' = Append(pending, call.todo[1])
    <3>1. /\ pending' \in Seq(Record) /\ Len(pending') = Len(pending) + 1 /\ Len(pending) \in Nat
          /\ pending'[Len(pending) + 1] = call.todo[1]
          /\ \A j \in 1 .. Len(pending) : pending'[j] = pending[j]
      BY <1>3, <2>1, <2>3, AppendProperties
    <3>2. \A j \in 1 .. Len(pending') : j \in 1 .. Len(pending) \/ j = Len(pending) + 1
      BY <3>1
    <3> QED
      BY <1>2, <1>3, <2>1, <3>1, <3>2
  <2> QED
    BY <1>1, <2>2, <2>3
<1>6. DOMAIN disk' # {}
  BY <1>0, <1>1 DEF MemoryInv
<1>7. FileType'
  BY <1>0, <1>1, <1>2, <1>4 DEF FileType
<1>8. MemoryInv'
  BY <1>0, <1>1, <1>2, <1>4, <1>6 DEF MemoryInv, HasRoom
<1> QED
  BY <1>2, <1>7, <1>8 DEF FileInv

\* A write cut short puts what the buffer held, and perhaps a partial frame, at
\* the end of the active file.
LEMMA LargeWriteProperties ==
    ASSUME FileInv, LargeWriteFails
    PROVE  /\ DOMAIN segs # {} /\ up
           /\ \E extra \in Seq(Frames) :
                /\ \A j \in 1 .. Len(extra) : extra[j] # Torn => extra[j].offset = next_offset
                /\ disk' = [disk EXCEPT ![Active] = @ \o extra]
<1>0. FileType /\ MemoryInv
  BY DEF FileInv
<1>1. DOMAIN segs # {} /\ up
  BY DEF LargeWriteFails, Appending, NeedsRoll
<1>2. PICK part \in {<<>>, <<Torn>>} : disk' = [disk EXCEPT ![Active] = @ \o (pending \o part)]
  BY DEF LargeWriteFails
<1>3. /\ pending \in Seq(Frames) /\ Len(pending) \in Nat
      /\ \A j \in 1 .. Len(pending) : pending[j].offset = next_offset
  BY <1>0, <1>1 DEF FileType, MemoryInv, Frames
<1>4. part \in Seq(Frames) /\ Len(part) \in Nat /\ \A j \in 1 .. Len(part) : part[j] = Torn
  <2>1. Torn \in Frames
    BY DEF Frames
  <2>2. CASE part = <<>>
    BY <2>2
  <2>3. CASE part = <<Torn>>
    BY <2>1, <2>3
  <2> QED BY <2>2, <2>3
<1> DEFINE extra == pending \o part
<1>5. /\ extra \in Seq(Frames) /\ Len(extra) = Len(pending) + Len(part)
      /\ \A i \in 1 .. Len(pending) + Len(part) :
           extra[i] = IF i <= Len(pending) THEN pending[i] ELSE part[i - Len(pending)]
  BY <1>3, <1>4, ConcatProperties
<1>6. disk' = [disk EXCEPT ![Active] = @ \o extra]
  BY <1>2
<1> HIDE DEF extra
<1>7. ASSUME NEW j \in 1 .. Len(extra), extra[j] # Torn PROVE extra[j].offset = next_offset
  <2>1. CASE j <= Len(pending)
    BY <1>3, <1>5, <2>1
  <2>2. CASE j > Len(pending)
    <3>1. j - Len(pending) \in 1 .. Len(part)
      BY <1>3, <1>4, <1>5, <2>2
    <3> QED
      BY <1>3, <1>4, <1>5, <1>7, <2>2, <3>1
  <2> QED BY <1>3, <1>5, <2>1, <2>2
<1> QED
  BY <1>1, <1>5, <1>6, <1>7

\* A write cut short leaves what stood before it.
LEMMA LargeWriteFailsStep == FileInv /\ LargeWriteFails => FileInv'
<1> SUFFICES ASSUME FileInv, LargeWriteFails PROVE FileInv'
  OBVIOUS
<1> DEFINE m == Active
<1>0. FileType /\ OffsetsBounded /\ MemoryInv /\ AckedInv
  BY DEF FileInv
<1>1. DOMAIN segs # {} /\ up
  BY LargeWriteProperties
<1>2. PICK extra \in Seq(Frames) :
        /\ \A j \in 1 .. Len(extra) : extra[j] # Torn => extra[j].offset = next_offset
        /\ disk' = [disk EXCEPT ![Active] = @ \o extra]
  BY LargeWriteProperties
<1>3. /\ UNCHANGED <<segs, start_offset, next_offset, up, acked>> /\ call' = NoCall
      /\ pending' = <<>> /\ "partial" \in IoFaults
  BY DEF LargeWriteFails, Fails
<1>4. NoCall \in [busy : BOOLEAN, batch : Seq(Record), todo : Seq(Record)] /\ NoCall.busy = FALSE
  BY DEF NoCall
<1>5. /\ m \in DOMAIN disk /\ m \in DOMAIN segs /\ IsTop(DOMAIN disk, m)
      /\ segs[m] <= Len(disk[m]) /\ segs[m] \in Nat /\ Len(disk[m]) \in Nat
  BY <1>1, ActiveIsTop
<1>6. OffsetsBounded'
  BY <1>1, <1>2, GrowTop
<1>7. /\ disk' \in [DOMAIN disk -> Seq(Frames)] /\ DOMAIN disk' = DOMAIN disk
      /\ \A b \in DOMAIN disk : b # m => disk'[b] = disk[b]
      /\ Len(disk'[m]) = Len(disk[m]) + Len(extra) /\ Len(extra) \in Nat
      /\ \A i \in 1 .. Len(disk'[m]) :
           disk'[m][i] = IF i <= Len(disk[m]) THEN disk[m][i] ELSE extra[i - Len(disk[m])]
      /\ \A r : Reachable(disk, r) => Reachable(disk', r)
  <2>1. disk' = [disk EXCEPT ![m] = @ \o extra] /\ Len(extra) \in Nat
    BY <1>2
  <2> HIDE DEF m
  <2> QED
    BY <1>0, <1>2, <1>5, <2>1, GrowFile
<1> HIDE DEF m
<1>8. FileType'
  BY <1>0, <1>3, <1>4, <1>7 DEF FileType
<1>9. ASSUME NEW b \in DOMAIN disk', NEW i \in 1 .. Len(disk'[b]), disk'[b][i] # Torn
      PROVE  disk'[b][i].offset < next_offset \/ disk'[b][i].offset = next_offset
  <2>1. CASE b = m /\ i > Len(disk[m])
    <3>1. disk'[b][i] = extra[i - Len(disk[m])] /\ i - Len(disk[m]) \in 1 .. Len(extra)
      BY <1>5, <1>7, <2>1
    <3> QED BY <1>2, <1>9, <3>1
  <2>2. CASE ~(b = m /\ i > Len(disk[m]))
    <3>1. i \in 1 .. Len(disk[b]) /\ disk'[b][i] = disk[b][i] /\ b \in DOMAIN disk
      <4>1. CASE b # m
        BY <1>7, <4>1
      <4>2. CASE b = m
        BY <1>5, <1>7, <2>2, <4>2
      <4> QED BY <4>1, <4>2
    <3> QED BY <1>0, <1>1, <1>9, <3>1 DEF MemoryInv
  <2> QED BY <2>1, <2>2
<1>10. HasRoom'
  <2>1. segs[Active] < SegmentMax
    <3>1. ~NeedsRoll
      BY DEF LargeWriteFails
    <3>2. segs[m] \in Nat /\ ~(segs[m] >= SegmentMax)
      BY <1>5, <3>1 DEF NeedsRoll, m
    <3>3. segs[m] < SegmentMax
      BY <3>2, PolicyAssumption
    <3> QED BY <3>3 DEF m
  <2> QED
    BY <1>3, <1>5, <1>7, <2>1 DEF HasRoom, m
<1>11. MemoryInv'
  <2>1. \A k \in DOMAIN disk' : IsTop(DOMAIN disk', k) =>
          k \in DOMAIN segs' /\ next_offset' = k + segs'[k] /\ segs'[k] <= Len(disk'[k])
    <3> SUFFICES ASSUME NEW k \in DOMAIN disk', IsTop(DOMAIN disk', k)
                 PROVE  k \in DOMAIN segs /\ next_offset = k + segs[k] /\ segs[k] <= Len(disk'[k])
      BY <1>3
    <3>1. k \in DOMAIN segs /\ next_offset = k + segs[k] /\ segs[k] <= Len(disk[k])
      BY <1>0, <1>1, <1>7 DEF MemoryInv
    <3>2. Len(disk[k]) <= Len(disk'[k]) /\ Len(disk[k]) \in Nat /\ Len(disk'[k]) \in Nat /\ segs[k] \in Nat
      <4>1. Len(disk[k]) \in Nat /\ segs[k] \in Nat
        BY <1>0, <1>7, <3>1 DEF FileType
      <4>2. CASE k = m
        BY <1>5, <1>7, <4>1, <4>2
      <4>3. CASE k # m
        BY <1>7, <4>1, <4>3
      <4> QED BY <4>2, <4>3
    <3> QED BY <3>1, <3>2
  <2>2. \A b \in DOMAIN disk' : \A i \in 1 .. Len(disk'[b]) : disk'[b][i] # Torn =>
          disk'[b][i].offset < next_offset' \/ (disk'[b][i].offset = next_offset' /\ HasRoom')
    BY <1>3, <1>9, <1>10
  <2>3. Len(pending') = 0
    BY <1>3
  <2> QED
    BY <1>0, <1>1, <1>3, <1>7, <2>1, <2>2, <2>3 DEF MemoryInv
<1>12. TornLast' /\ CallInv'
  BY <1>3, <1>4 DEF TornLast, NoPartial, CallInv
<1>13. AckedInv'
  BY <1>0, <1>3, <1>7 DEF AckedInv
<1> QED
  BY <1>6, <1>8, <1>11, <1>12, <1>13 DEF FileInv

\* A file that cannot be removed stays, though memory forgets it.
LEMMA RemoveFailsStep == FileInv /\ RemoveFails => FileInv'
<1> SUFFICES ASSUME FileInv, RemoveFails PROVE FileInv'
  OBVIOUS
<1>0. FileType /\ MemoryInv
  BY DEF FileInv
<1>1. /\ up /\ Cardinality(DOMAIN segs) > 1 /\ UNCHANGED <<disk, pending>> /\ Fails("remove")
      /\ segs' = [b \in DOMAIN segs \ {Oldest} |-> segs[b]]
  BY DEF RemoveFails, Retaining, OverRetention, Restrict
<1>2. /\ UNCHANGED <<start_offset, next_offset, up, acked>>
      /\ call' \in [busy : BOOLEAN, batch : Seq(Record), todo : Seq(Record)]
      /\ TornLast' /\ OffsetsBounded' /\ CallInv' /\ AckedInv'
  BY <1>1, FailedCall
<1>3. Active \in DOMAIN segs \ {Oldest} /\ DOMAIN segs # {}
  BY <1>1, RemovalProperties
<1>4. Active \in DOMAIN disk /\ IsTop(DOMAIN disk, Active) /\ DOMAIN disk \subseteq Nat
  BY <1>0, <1>1, <1>3, ActiveIsTop DEF FileType
<1>5. \A k \in DOMAIN disk : IsTop(DOMAIN disk, k) => k = Active
  BY <1>4 DEF IsTop
<1>6. FileType'
  BY <1>0, <1>1, <1>2 DEF FileType
<1>7. DOMAIN segs' # {} /\ DOMAIN segs' \subseteq DOMAIN segs /\ \A b \in DOMAIN segs' : segs'[b] = segs[b]
      /\ \A k \in DOMAIN disk : IsTop(DOMAIN disk, k) => k \in DOMAIN segs'
  <2> HIDE DEF Active, Oldest
  <2> QED BY <1>1, <1>3, <1>5
<1>9. HasRoom => HasRoom'
  BY <1>0, <1>1, <1>7 DEF HasRoom, MemoryInv
<1>8. MemoryInv'
  BY <1>0, <1>1, <1>2, <1>7, <1>9 DEF MemoryInv
<1> QED
  BY <1>2, <1>6, <1>8 DEF FileInv

\* Wherever the process stops, the files keep what they held, and at most the
\* newest one gains a torn frame or the frames of the BufWriter.
LEMMA CrashStep == FileInv /\ Crash => FileInv'
<1> SUFFICES ASSUME FileInv, Crash PROVE FileInv'
  OBVIOUS
<1>0. FileType /\ TornLast /\ OffsetsBounded /\ MemoryInv /\ AckedInv
  BY DEF FileInv
<1>1. /\ up /\ up' = FALSE /\ segs' = [b \in {} |-> 0] /\ pending' = <<>>
      /\ start_offset' = 0 /\ next_offset' = 0 /\ call' = NoCall /\ UNCHANGED acked
  BY DEF Crash
<1>2. NoCall \in [busy : BOOLEAN, batch : Seq(Record), todo : Seq(Record)] /\ NoCall.busy = FALSE
  BY DEF NoCall
<1>3. CallInv'
  BY <1>1, <1>2 DEF CallInv
<1>4. ASSUME disk' \in [DOMAIN disk -> Seq(Frames)], DOMAIN disk' = DOMAIN disk,
             \A r : Reachable(disk, r) => Reachable(disk', r), OffsetsBounded', TornLast'
      PROVE  FileInv'
  <2>1. segs' \in [DOMAIN segs' -> Nat] /\ pending' \in Seq(Record)
    BY <1>1
  <2>2. FileType'
    BY <1>0, <1>1, <1>2, <1>4, <2>1 DEF FileType
  <2>3. MemoryInv'
    BY <1>0, <1>1, <1>4 DEF MemoryInv
  <2>4. AckedInv'
    BY <1>0, <1>1, <1>4 DEF AckedInv
  <2> QED
    BY <1>3, <1>4, <2>2, <2>3, <2>4 DEF FileInv
<1>5. CASE UNCHANGED disk
  <2>1. OffsetsBounded' /\ TornLast'
    BY <1>0, <1>1, <1>5 DEF OffsetsBounded, TornLast
  <2>2. disk' \in [DOMAIN disk -> Seq(Frames)] /\ DOMAIN disk' = DOMAIN disk
    BY <1>0, <1>5 DEF FileType
  <2>3. \A r : Reachable(disk, r) => Reachable(disk', r)
    BY <1>5 DEF Reachable
  <2> QED
    BY <1>4, <2>1, <2>2, <2>3
<1>6. ASSUME NEW extra \in Seq(Frames), DOMAIN segs # {},
             \A j \in 1 .. Len(extra) : extra[j] # Torn => extra[j].offset = next_offset,
             \A j \in 1 .. Len(extra) : extra[j] = Torn => j = Len(extra),
             disk' = [disk EXCEPT ![Active] = @ \o extra]
      PROVE  FileInv'
  <2> DEFINE m == Active
  <2>1. m \in DOMAIN disk /\ IsTop(DOMAIN disk, m) /\ Len(disk[m]) \in Nat
    BY <1>1, <1>6, ActiveIsTop
  <2>2. /\ OffsetsBounded'
        /\ \A b \in DOMAIN disk' : \A i \in 1 .. Len(disk'[b]) : disk'[b][i] = Torn =>
             \/ i \in 1 .. Len(disk[b]) /\ disk[b][i] = Torn
             \/ b = m /\ i > Len(disk[b]) /\ extra[i - Len(disk[b])] = Torn
    BY <1>1, <1>6, GrowTop
  <2>3. /\ disk' \in [DOMAIN disk -> Seq(Frames)] /\ DOMAIN disk' = DOMAIN disk
        /\ Len(disk'[m]) = Len(disk[m]) + Len(extra)
        /\ \A r : Reachable(disk, r) => Reachable(disk', r)
    BY <1>0, <1>6, <2>1, GrowFile
  <2> HIDE DEF m
  <2>4. TornLast'
    <3> SUFFICES ASSUME NoPartial, NEW b \in DOMAIN disk', NEW i \in 1 .. Len(disk'[b]),
                        disk'[b][i] = Torn
                 PROVE  i = Len(disk'[b]) /\ \A c \in DOMAIN disk' : c <= b
      BY <1>1 DEF TornLast
    <3>1. b = m /\ i > Len(disk[m]) /\ extra[i - Len(disk[m])] = Torn
      BY <1>0, <1>1, <2>2, <2>3 DEF TornLast
    <3>2. Len(extra) \in Nat /\ i - Len(disk[m]) \in 1 .. Len(extra)
      BY <2>1, <2>3, <3>1
    <3>3. i - Len(disk[m]) = Len(extra)
      BY <1>6, <3>1, <3>2
    <3>4. i = Len(disk[m]) + Len(extra)
      BY <2>1, <3>2, <3>3
    <3> QED
      BY <2>1, <2>3, <3>1, <3>4 DEF IsTop
  <2> QED
    BY <1>4, <2>2, <2>3, <2>4
<1>7. (Appending /\ ~NeedsRoll) \/ pending # <<>> => DOMAIN segs # {}
  BY <1>0, <1>1 DEF NeedsRoll, MemoryInv
<1>8. CASE /\ (Appending /\ ~NeedsRoll) \/ pending # <<>>
           /\ disk' = [disk EXCEPT ![Active] = Append(@, Torn)]
  <2>1. DOMAIN segs # {}
    BY <1>7, <1>8
  <2>2. disk[Active] \in Seq(Frames)
    BY <1>0, <1>1, <2>1, ActiveIsTop DEF FileType
  <2>3. Torn \in Frames
    BY DEF Frames
  <2>4. Append(disk[Active], Torn) = disk[Active] \o <<Torn>>
    BY <2>2, <2>3, AppendIsConcat
  <2>5. disk' = [disk EXCEPT ![Active] = @ \o <<Torn>>]
    BY <1>8, <2>4
  <2>6. <<Torn>> \in Seq(Frames) /\ Len(<<Torn>>) = 1 /\ <<Torn>>[1] = Torn
    BY <2>3
  <2> DEFINE extra == <<Torn>>
  <2>7. \A j \in 1 .. Len(extra) : extra[j] = Torn /\ j = Len(extra)
    BY <2>6
  <2>8. extra \in Seq(Frames) /\ disk' = [disk EXCEPT ![Active] = @ \o extra]
    BY <2>5, <2>6
  <2> HIDE DEF extra
  <2> QED
    BY <1>6, <2>1, <2>7, <2>8
<1>9. CASE pending # <<>> /\ disk' = [disk EXCEPT ![Active] = @ \o pending]
  <2>1. DOMAIN segs # {}
    BY <1>7, <1>9
  <2>2. pending \in Seq(Record) /\ pending \in Seq(Frames)
    BY <1>0 DEF FileType, Frames
  <2>3. \A j \in 1 .. Len(pending) : pending[j] # Torn /\ pending[j].offset = next_offset
    BY <1>0, <1>1, <2>2, ElementOfSeq, TornNotRecord DEF MemoryInv
  <2> QED
    BY <1>6, <1>9, <2>1, <2>2, <2>3
<1> QED
  BY <1>5, <1>8, <1>9 DEF Crash

\* Recovery cuts off torn frames only, and finds the high watermark above every
\* offset on disk.
LEMMA RecoverStep == FileInv /\ Recover => FileInv'
<1> SUFFICES ASSUME FileInv, Recover PROVE FileInv'
  OBVIOUS
<1>0. FileType /\ TornLast /\ OffsetsBounded /\ MemoryInv /\ CallInv /\ AckedInv
  BY DEF FileInv
<1>1. /\ ~up /\ up' = TRUE /\ UNCHANGED <<pending, call, acked>> /\ pending = <<>> /\ ~call.busy
      /\ disk' = [b \in DOMAIN disk |-> Decodable(disk[b])]
      /\ segs' = [b \in DOMAIN disk |-> Len(Decodable(disk[b]))]
  BY <1>0 DEF Recover, OpenSegment, MemoryInv, CallInv
<1>2. \A b \in DOMAIN disk : disk[b] \in Seq(Frames) /\ b \in Nat /\ Len(disk[b]) \in Nat
  BY <1>0 DEF FileType
<1>3. \A b \in DOMAIN disk :
        /\ disk'[b] \in Seq(Record) /\ Len(disk'[b]) \in Nat /\ Len(disk'[b]) <= Len(disk[b])
        /\ segs'[b] = Len(disk'[b])
        /\ \A i \in 1 .. Len(disk'[b]) : /\ disk'[b][i] = disk[b][i] /\ disk[b][i] # Torn
                                         /\ disk'[b][i] \in Record /\ i \in 1 .. Len(disk[b])
        /\ \A i \in 1 .. Len(disk[b]) : (\A j \in 1 .. i : disk[b][j] # Torn) => i \in 1 .. Len(disk'[b])
  <2> SUFFICES ASSUME NEW b \in DOMAIN disk
               PROVE  /\ disk'[b] \in Seq(Record) /\ Len(disk'[b]) \in Nat /\ Len(disk'[b]) <= Len(disk[b])
                      /\ segs'[b] = Len(disk'[b])
                      /\ \A i \in 1 .. Len(disk'[b]) :
                           /\ disk'[b][i] = disk[b][i] /\ disk[b][i] # Torn
                           /\ disk'[b][i] \in Record /\ i \in 1 .. Len(disk[b])
                      /\ \A i \in 1 .. Len(disk[b]) :
                           (\A j \in 1 .. i : disk[b][j] # Torn) => i \in 1 .. Len(disk'[b])
    OBVIOUS
  <2> DEFINE f == disk[b]
             d == Decodable(f)
  <2>1. f \in Seq(Frames)
    BY <1>2
  <2> HIDE DEF f
  <2>2. /\ d \in Seq(Record) /\ Len(d) <= Len(f)
        /\ \A i \in 1 .. Len(d) : d[i] = f[i] /\ f[i] # Torn
        /\ \A i \in 1 .. Len(f) : (\A j \in 1 .. i : f[j] # Torn) => i <= Len(d)
    BY <2>1, DecodePrefix
  <2>3. disk'[b] = d /\ segs'[b] = Len(d) /\ f = disk[b]
    BY <1>1 DEF f
  <2> HIDE DEF d
  <2>4. Len(d) \in Nat /\ Len(f) \in Nat /\ \A i \in 1 .. Len(d) : d[i] \in Record
    BY <2>1, <2>2, ElementOfSeq
  <2> QED
    BY <2>2, <2>3, <2>4
<1>4. DOMAIN disk' = DOMAIN disk /\ DOMAIN segs' = DOMAIN disk
  BY <1>1
<1>5. /\ DOMAIN disk = {} => start_offset' = 0 /\ next_offset' = 0
      /\ DOMAIN disk # {} => start_offset' \in DOMAIN disk /\ \A b \in DOMAIN disk : start_offset' <= b
      /\ \A m : IsTop(DOMAIN disk, m) => next_offset' = m + Len(disk'[m])
  <2>1. DOMAIN disk # {} => start_offset' = Min(DOMAIN disk)
    BY DEF Recover
  <2>2. DOMAIN disk # {} => Min(DOMAIN disk) \in DOMAIN disk /\ \A b \in DOMAIN disk : Min(DOMAIN disk) <= b
    BY <1>2, MinProperties
  <2>3. ASSUME NEW m, IsTop(DOMAIN disk, m) PROVE next_offset' = m + Len(disk'[m])
    <3>1. Max(DOMAIN disk) = m /\ m \in DOMAIN disk
      BY <1>2, <2>3, MaxProperties DEF IsTop
    <3>2. next_offset' = Max(DOMAIN disk) + Len(Decodable(disk[Max(DOMAIN disk)]))
      BY <3>1 DEF Recover, OpenSegment
    <3> QED
      BY <1>1, <3>1, <3>2
  <2> QED
    BY <2>1, <2>2, <2>3 DEF Recover
<1>6. start_offset' \in Nat /\ next_offset' \in Nat /\ start_offset' <= next_offset'
  <2>1. CASE DOMAIN disk = {}
    BY <1>5, <2>1
  <2>2. CASE DOMAIN disk # {}
    <3>1. PICK m : IsTop(DOMAIN disk, m)
      BY <1>0, <2>2 DEF MemoryInv
    <3>2. m \in DOMAIN disk /\ m \in Nat /\ next_offset' = m + Len(disk'[m]) /\ Len(disk'[m]) \in Nat
      BY <1>2, <1>3, <1>5, <3>1 DEF IsTop
    <3>3. start_offset' \in Nat /\ start_offset' <= m
      BY <1>2, <1>5, <2>2, <3>2
    <3> QED
      BY <3>2, <3>3
  <2> QED BY <2>1, <2>2
<1>7. FileType'
  <2>1. \A b \in DOMAIN disk : disk'[b] \in Seq(Frames)
    BY <1>3 DEF Frames
  <2>2. disk' \in [DOMAIN disk' -> Seq(Frames)]
    BY <1>1, <2>1
  <2>3. segs' \in [DOMAIN segs' -> Nat]
    BY <1>1, <1>3
  <2>4. DOMAIN disk' \subseteq Nat /\ IsFiniteSet(DOMAIN disk')
    BY <1>0, <1>4 DEF FileType
  <2> QED
    BY <1>0, <1>1, <1>6, <2>2, <2>3, <2>4 DEF FileType
<1>8. TornLast'
  BY <1>3, <1>4 DEF TornLast
<1>9. OffsetsBounded'
  BY <1>0, <1>3, <1>4 DEF OffsetsBounded
<1>13. ASSUME NEW b \in DOMAIN disk', NEW i \in 1 .. Len(disk'[b])
      PROVE  disk'[b][i].offset < next_offset'
  <2>1. PICK m : IsTop(DOMAIN disk, m)
    BY <1>0, <1>4 DEF MemoryInv
  <2>2. m \in DOMAIN disk /\ m \in Nat /\ next_offset' = m + Len(disk'[m]) /\ Len(disk'[m]) \in Nat /\ b <= m
    BY <1>2, <1>3, <1>4, <1>5, <2>1 DEF IsTop
  <2>3. /\ b \in DOMAIN disk /\ b \in Nat /\ Len(disk'[b]) \in Nat
        /\ disk'[b][i].offset <= b + i - 1 /\ \A c \in DOMAIN disk : b < c => disk'[b][i].offset < c
    BY <1>0, <1>2, <1>3, <1>4 DEF OffsetsBounded
  <2>4. disk'[b][i].offset \in Nat
    BY <1>3, <1>4 DEF Record
  <2> DEFINE x == disk'[b][i].offset
             l == Len(disk'[m])
  <2>5. CASE b = m
    <3>1. x <= m + i - 1 /\ i \in 1 .. l
      BY <2>3, <2>5
    <3>2. x \in Nat /\ l \in Nat /\ m \in Nat
      BY <2>2, <2>4
    <3> HIDE DEF x, l
    <3>3. x < m + l
      BY <3>1, <3>2
    <3> QED
      BY <2>2, <3>3 DEF x, l
  <2>6. CASE b < m
    <3>1. x < m /\ x \in Nat /\ l \in Nat /\ m \in Nat
      BY <2>2, <2>3, <2>4, <2>6
    <3> HIDE DEF x, l
    <3>3. x < m + l
      BY <3>1
    <3> QED
      BY <2>2, <3>3 DEF x, l
  <2> QED
    BY <2>2, <2>3, <2>5, <2>6
<1>10. MemoryInv'
  <2>1. DOMAIN disk' # {} => \E m : IsTop(DOMAIN disk', m)
    BY <1>0, <1>4 DEF MemoryInv
  <2>2. \A m \in DOMAIN disk' : IsTop(DOMAIN disk', m) =>
          m \in DOMAIN segs' /\ next_offset' = m + segs'[m] /\ segs'[m] <= Len(disk'[m])
    BY <1>3, <1>4, <1>5
  <2>4. \A b \in DOMAIN segs' : start_offset' <= b
    BY <1>4, <1>5
  <2>5. Len(pending') = 0 /\ pending' = <<>>
    BY <1>1
  <2> QED
    BY <1>1, <1>4, <1>6, <1>13, <2>1, <2>2, <2>4, <2>5 DEF MemoryInv
<1>11. CallInv'
  BY <1>1 DEF CallInv
<1>12. AckedInv'
  <2> SUFFICES ASSUME NEW r \in acked PROVE Reachable(disk', r) /\ r.offset < next_offset'
    BY <1>1 DEF AckedInv
  <2>1. r \in Record /\ Reachable(disk, r)
    BY <1>0 DEF FileType, AckedInv
  <2>2. PICK b \in DOMAIN disk : \E i \in 1 .. Len(disk[b]) :
          disk[b][i] = r /\ \A j \in 1 .. i : disk[b][j] # Torn
    BY <2>1 DEF Reachable
  <2>3. PICK i \in 1 .. Len(disk[b]) : disk[b][i] = r /\ \A j \in 1 .. i : disk[b][j] # Torn
    BY <2>2
  <2>4. i \in 1 .. Len(disk'[b]) /\ disk'[b][i] = r
    BY <1>3, <2>3
  <2>5. \A j \in 1 .. i : disk'[b][j] # Torn
    <3>1. \A j \in 1 .. i : j \in 1 .. Len(disk'[b])
      BY <1>3, <2>4
    <3> QED BY <1>3, <2>3, <3>1
  <2>6. r.offset < next_offset'
    BY <1>4, <1>13, <2>4
  <2> QED
    BY <1>4, <2>4, <2>5, <2>6 DEF Reachable
<1> QED
  BY <1>7, <1>8, <1>9, <1>10, <1>11, <1>12 DEF FileInv

\* The invariant holds of the empty directory.
LEMMA FileInit == Init => FileInv
<1> SUFFICES ASSUME Init PROVE FileInv
  OBVIOUS
<1>1. /\ disk = [b \in {} |-> <<>>] /\ segs = [b \in {} |-> 0] /\ pending = <<>> /\ up = TRUE
      /\ start_offset = 0 /\ next_offset = 0 /\ call = NoCall /\ acked = {}
  BY DEF Init, EmptyDir
<1>2. DOMAIN disk = {} /\ DOMAIN segs = {}
  BY <1>1
<1>3. FileType
  <2>1. IsFiniteSet(DOMAIN disk)
    BY <1>2, FS_EmptySet
  <2>2. disk \in [DOMAIN disk -> Seq(Frames)] /\ segs \in [DOMAIN segs -> Nat]
    BY <1>1
  <2>3. NoCall \in [busy : BOOLEAN, batch : Seq(Record), todo : Seq(Record)]
    BY DEF NoCall
  <2> QED
    BY <1>1, <1>2, <2>1, <2>2, <2>3 DEF FileType
<1>4. TornLast /\ OffsetsBounded /\ AckedInv
  BY <1>1, <1>2 DEF TornLast, OffsetsBounded, AckedInv
<1>5. MemoryInv /\ CallInv
  <2>1. Len(pending) = 0 /\ ~call.busy
    BY <1>1 DEF NoCall
  <2> QED
    BY <1>1, <1>2, <2>1 DEF MemoryInv, CallInv
<1> QED
  BY <1>3, <1>4, <1>5 DEF FileInv

\* No step breaks it, whatever fails.
LEMMA FileStep == FileInv /\ [Next]_vars => FileInv'
<1>1. FileInv /\ UNCHANGED vars => FileInv'
  <2> SUFFICES ASSUME FileInv, UNCHANGED vars PROVE FileInv'
    OBVIOUS
  <2>1. UNCHANGED <<disk, segs, pending, start_offset, next_offset, call, up, acked>>
    BY DEF vars, memory
  <2>2. FileType'
    BY <2>1 DEF FileInv, FileType
  <2>3. TornLast' /\ OffsetsBounded' /\ AckedInv'
    BY <2>1 DEF FileInv, TornLast, OffsetsBounded, AckedInv, Reachable
  <2>4. MemoryInv'
    BY <2>1 DEF FileInv, MemoryInv, HasRoom
  <2>5. CallInv'
    BY <2>1 DEF FileInv, CallInv, Written
  <2> QED
    BY <2>2, <2>3, <2>4, <2>5 DEF FileInv
<1> QED
  BY <1>1, BeginStep, CreateStep, WriteStep, RemoveStep, FinishStep, CreateFailsStep, WriteFailsStep,
     LargeWriteFailsStep, RemoveFailsStep, CrashStep, RecoverStep DEF Next

\* Whatever file operations fail and wherever the process stops, an acknowledged
\* record with no partial frame before it can be decoded from the directory
\* until retention removes it.
THEOREM AcknowledgedStay == Spec => []AckedSurvives
<1>1. FileInv => AckedSurvives
  <2> SUFFICES ASSUME FileInv, NEW r \in acked
               PROVE  \E b \in DOMAIN disk : r \in ToSet(Decodable(disk[b]))
    BY DEF AckedSurvives
  <2>1. PICK b \in DOMAIN disk : \E i \in 1 .. Len(disk[b]) :
          disk[b][i] = r /\ \A j \in 1 .. i : disk[b][j] # Torn
    BY DEF FileInv, AckedInv, Reachable
  <2>2. PICK i \in 1 .. Len(disk[b]) : disk[b][i] = r /\ \A j \in 1 .. i : disk[b][j] # Torn
    BY <2>1
  <2> DEFINE f == disk[b]
             d == Decodable(f)
  <2>3. f \in Seq(Frames)
    BY DEF FileInv, FileType
  <2>4. d \in Seq(Record) /\ Len(d) \in Nat /\ i <= Len(d) /\ \A k \in 1 .. Len(d) : d[k] = f[k]
    BY <2>2, <2>3, DecodePrefix
  <2> HIDE DEF d
  <2>5. i \in 1 .. Len(d) /\ d[i] = r
    BY <2>2, <2>4
  <2>6. r \in ToSet(d)
    BY <2>4, <2>5 DEF ToSet
  <2> QED
    BY <2>6 DEF d
<1> QED
  BY <1>1, FileInit, FileStep, PTL DEF Spec

\* Whatever file operations fail, no restart lets the offset of such a record be
\* assigned again.
THEOREM HighWatermarkKept == Spec => []HighWatermarkSurvives
<1>1. FileInv => HighWatermarkSurvives
  BY DEF FileInv, AckedInv, HighWatermarkSurvives
<1> QED
  BY <1>1, FileInit, FileStep, PTL DEF Spec

-----------------------------------------------------------------------------
(* A store whose flushes and removals do not fail                          *)

\* Where no write is cut short, a running process has no torn frame in its files.
LEMMA RunningFilesWhole ==
    ASSUME FileInv, up, NoPartial
    PROVE  \A b \in DOMAIN disk :
             /\ disk[b] \in Seq(Record) /\ Len(disk[b]) \in Nat /\ Decodable(disk[b]) = disk[b]
             /\ \A i \in 1 .. Len(disk[b]) : disk[b][i] # Torn
<1> SUFFICES ASSUME NEW b \in DOMAIN disk
             PROVE  /\ disk[b] \in Seq(Record) /\ Len(disk[b]) \in Nat /\ Decodable(disk[b]) = disk[b]
                    /\ \A i \in 1 .. Len(disk[b]) : disk[b][i] # Torn
  OBVIOUS
<1>1. disk[b] \in Seq(Frames) /\ Len(disk[b]) \in Nat
  BY DEF FileInv, FileType
<1>2. \A i \in 1 .. Len(disk[b]) : disk[b][i] # Torn
  BY DEF FileInv, TornLast
<1>3. Decodable(disk[b]) = disk[b] /\ Decodable(disk[b]) \in Seq(Record)
  BY <1>1, <1>2, DecodeProperties
<1> QED
  BY <1>1, <1>2, <1>3

\* A new segment begins where the last one ends.
LEMMA CreateDense == FileInv /\ DenseInv /\ CreateSegment => DenseInv'
<1> SUFFICES ASSUME FileInv, DenseInv, CreateSegment PROVE DenseInv'
  OBVIOUS
<1> DEFINE n == next_offset
<1>0. FileType /\ MemoryInv /\ DenseFiles /\ Mirrored
  BY DEF FileInv, DenseInv
<1>1. /\ \A b \in DOMAIN disk : b < n
      /\ DOMAIN disk' = DOMAIN disk \cup {n} /\ DOMAIN segs' = DOMAIN segs \cup {n}
      /\ disk'[n] = <<>> /\ segs'[n] = 0
      /\ \A b \in DOMAIN disk : disk'[b] = disk[b]
      /\ \A b \in DOMAIN segs : segs'[b] = segs[b]
  BY CreateProperties
<1>2. /\ UNCHANGED <<start_offset, next_offset, call, up>> /\ up /\ pending' = <<>> /\ call.todo # <<>>
      /\ n \in Nat /\ DOMAIN disk \subseteq Nat /\ start_offset \in Nat
  BY <1>0 DEF CreateSegment, Appending, FileType
<1>3. Len(disk'[n]) = 0 /\ n \in DOMAIN disk'
  BY <1>1
<1>4. \A b \in DOMAIN disk : Len(disk[b]) \in Nat /\ segs[b] = Len(disk[b])
  BY <1>0, <1>2, RunningFilesWhole DEF Mirrored
<1>5. ASSUME NEW b \in DOMAIN disk
      PROVE  Len(disk[b]) > 0 /\ b + Len(disk[b]) \in DOMAIN disk' /\ b + Len(disk[b]) <= n
  <2>1. DOMAIN segs # {}
    BY <1>0, <1>2 DEF Mirrored
  <2>2. /\ Active \in DOMAIN disk /\ Active \in DOMAIN segs /\ IsTop(DOMAIN disk, Active)
        /\ n = Active + segs[Active] /\ Active \in Nat
    BY <1>2, <2>1, ActiveIsTop
  <2>3. segs[Active] >= SegmentMax
    BY <2>2 DEF CreateSegment, NeedsRoll
  <2> HIDE DEF n, Active
  <2>4. CASE b = Active
    <3>1. n = b + Len(disk[b]) /\ Len(disk[b]) >= SegmentMax
      BY <1>4, <2>2, <2>3, <2>4
    <3> QED
      BY <1>2, <1>3, <1>4, <3>1, PolicyAssumption
  <2>5. CASE b # Active
    <3>1. b < Active
      BY <1>2, <2>2, <2>5 DEF IsTop
    <3>2. Len(disk[b]) > 0 /\ b + Len(disk[b]) \in DOMAIN disk
      BY <1>0, <2>2, <3>1 DEF DenseFiles
    <3>3. b + Len(disk[b]) < n /\ b + Len(disk[b]) \in Nat
      BY <1>1, <1>2, <3>2
    <3> QED
      BY <1>1, <1>2, <3>2, <3>3
  <2> QED BY <2>4, <2>5
<1> HIDE DEF n
<1>6. DenseFiles'
  <2>1. ASSUME NEW b \in DOMAIN disk', NEW i \in 1 .. Len(disk'[b]), disk'[b][i] # Torn
        PROVE  disk'[b][i].offset = b + i - 1 /\ i <= SegmentMax
    <3>1. b # n
      BY <1>3, <2>1
    <3>2. b \in DOMAIN disk /\ disk'[b] = disk[b]
      BY <1>1, <3>1
    <3> QED
      BY <1>0, <2>1, <3>2 DEF DenseFiles
  <2>2. ASSUME NEW b \in DOMAIN disk', NEW c \in DOMAIN disk', b < c
        PROVE  Len(disk'[b]) > 0 /\ b + Len(disk'[b]) \in DOMAIN disk' /\ b + Len(disk'[b]) <= c
    <3>1. CASE b = n
      BY <1>1, <1>2, <2>2, <3>1
    <3>2. CASE b # n
      <4>1. b \in DOMAIN disk /\ disk'[b] = disk[b]
        BY <1>1, <3>2
      <4>2. Len(disk[b]) > 0 /\ b + Len(disk[b]) \in DOMAIN disk' /\ b + Len(disk[b]) <= n
        BY <1>5, <4>1
      <4>3. c # n => b + Len(disk[b]) <= c
        BY <1>0, <1>1, <2>2, <4>1 DEF DenseFiles
      <4> QED BY <4>1, <4>2, <4>3
    <3> QED BY <3>1, <3>2
  <2> QED
    BY <2>1, <2>2 DEF DenseFiles
<1>7. Mirrored'
  <2>1. DOMAIN segs' = DOMAIN disk' /\ DOMAIN disk' # {}
    BY <1>0, <1>1, <1>2 DEF Mirrored
  <2>2. \A b \in DOMAIN disk' : segs'[b] = Len(disk'[b])
    BY <1>0, <1>1, <1>2, <1>3, <1>4 DEF Mirrored
  <2>3. start_offset' \in DOMAIN disk'
    <3>1. CASE DOMAIN disk = {}
      <4>1. start_offset = n
        BY <1>0, <1>2, <3>1 DEF Mirrored, n
      <4> QED BY <1>2, <1>3, <4>1
    <3>2. CASE DOMAIN disk # {}
      BY <1>0, <1>1, <1>2, <3>2 DEF Mirrored
    <3> QED BY <3>1, <3>2
  <2>4. \A b \in DOMAIN disk' : start_offset' <= b
    <3>1. start_offset <= n
      BY <1>0, <1>2 DEF MemoryInv, n
    <3> QED
      BY <1>0, <1>1, <1>2, <3>1 DEF Mirrored
  <2> QED
    BY <1>2, <2>1, <2>2, <2>3, <2>4 DEF Mirrored
<1>8. ActiveNotEmpty'
  BY <1>2 DEF ActiveNotEmpty
<1> QED
  BY <1>6, <1>7, <1>8 DEF DenseInv

\* What a write adds: one frame, the next record of the batch, at its offset.
LEMMA WriteDenseProperties ==
    ASSUME FileInv, DenseInv, WriteRecord
    PROVE  /\ Active \in DOMAIN disk /\ IsTop(DOMAIN disk, Active) /\ DOMAIN disk' = DOMAIN disk
           /\ \A b \in DOMAIN disk : b # Active => disk'[b] = disk[b]
           /\ Len(disk'[Active]) = Len(disk[Active]) + 1
           /\ \A i \in 1 .. Len(disk[Active]) : disk'[Active][i] = disk[Active][i]
           /\ disk'[Active][Len(disk[Active]) + 1] = call.todo[1]
           /\ call.todo[1] \in Record /\ call.todo[1].offset = next_offset
           /\ next_offset = Active + Len(disk[Active]) /\ Len(disk[Active]) < SegmentMax
           /\ segs[Active] = Len(disk[Active]) /\ Len(disk[Active]) \in Nat /\ Active \in Nat
           /\ Active \in DOMAIN segs /\ up /\ UNCHANGED up
<1> DEFINE m == Active
<1>0. FileType /\ DenseFiles /\ Mirrored
  BY DEF FileInv, DenseInv
<1>1. DOMAIN segs # {} /\ up /\ call.busy /\ call.todo # <<>> /\ UNCHANGED up
  BY WriteProperties DEF WriteRecord
<1>2. PICK extra \in Seq(Record) :
        /\ Len(extra) = Len(pending) + 1
        /\ \A j \in 1 .. Len(extra) : extra[j].offset = next_offset
        /\ extra[Len(extra)] = call.todo[1]
        /\ disk' = [disk EXCEPT ![Active] = @ \o extra]
  BY WriteProperties
<1>3. /\ m \in DOMAIN disk /\ m \in DOMAIN segs /\ IsTop(DOMAIN disk, m)
      /\ next_offset = m + segs[m] /\ m \in Nat /\ Len(disk[m]) \in Nat
  BY <1>1, ActiveIsTop
<1>4. Len(pending) = 0 /\ segs[m] = Len(disk[m])
  BY <1>0, <1>1, <1>3 DEF Mirrored
<1>5. Len(extra) = 1 /\ extra[1] = call.todo[1] /\ 1 \in 1 .. Len(extra)
  BY <1>2, <1>4
<1>6. call.todo[1] \in Record /\ call.todo[1].offset = next_offset
  BY <1>2, <1>5, ElementOfSeq
<1>7. segs[m] < SegmentMax
  <2>1. ~(segs[m] >= SegmentMax)
    BY <1>3 DEF WriteRecord, NeedsRoll
  <2> HIDE DEF m
  <2> QED
    BY <1>3, <1>4, <2>1, PolicyAssumption
<1>8. extra \in Seq(Frames)
  BY DEF Frames
<1>9. disk' = [disk EXCEPT ![m] = @ \o extra]
  BY <1>2
<1> HIDE DEF m
<1>10. /\ DOMAIN disk' = DOMAIN disk /\ \A b \in DOMAIN disk : b # m => disk'[b] = disk[b]
       /\ Len(disk'[m]) = Len(disk[m]) + Len(extra)
       /\ \A i \in 1 .. Len(disk'[m]) :
            disk'[m][i] = IF i <= Len(disk[m]) THEN disk[m][i] ELSE extra[i - Len(disk[m])]
       /\ \A i \in 1 .. Len(extra) : disk'[m][Len(disk[m]) + i] = extra[i]
  BY <1>0, <1>3, <1>8, <1>9, GrowFile
<1>11. \A i \in 1 .. Len(disk[m]) : disk'[m][i] = disk[m][i]
  BY <1>3, <1>5, <1>10
<1>12. disk'[m][Len(disk[m]) + 1] = call.todo[1]
  BY <1>5, <1>10
<1> QED
  BY <1>1, <1>3, <1>4, <1>5, <1>6, <1>7, <1>10, <1>11, <1>12 DEF m

\* A write to the active segment keeps the files dense.
LEMMA WriteDense == FileInv /\ DenseInv /\ WriteRecord => DenseInv'
<1> SUFFICES ASSUME FileInv, DenseInv, WriteRecord PROVE DenseInv'
  OBVIOUS
<1> DEFINE m == Active
           l == Len(disk[Active])
<1>0. FileType /\ DenseFiles /\ Mirrored
  BY DEF FileInv, DenseInv
<1>1. /\ m \in DOMAIN disk /\ IsTop(DOMAIN disk, m) /\ DOMAIN disk' = DOMAIN disk
      /\ \A b \in DOMAIN disk : b # m => disk'[b] = disk[b]
      /\ Len(disk'[m]) = l + 1 /\ \A i \in 1 .. l : disk'[m][i] = disk[m][i]
      /\ disk'[m][l + 1] = call.todo[1] /\ call.todo[1].offset = next_offset
      /\ next_offset = m + l /\ l < SegmentMax /\ segs[m] = l /\ l \in Nat /\ m \in Nat
      /\ m \in DOMAIN segs /\ up /\ UNCHANGED up
  BY WriteDenseProperties
<1>2. segs' = [segs EXCEPT ![m] = @ + 1] /\ pending' = <<>> /\ UNCHANGED start_offset
  BY DEF WriteRecord
<1>3. l = Len(disk[m])
  OBVIOUS
<1> HIDE DEF m, l
<1>4. DenseFiles'
  <2>1. ASSUME NEW b \in DOMAIN disk', NEW i \in 1 .. Len(disk'[b]), disk'[b][i] # Torn
        PROVE  disk'[b][i].offset = b + i - 1 /\ i <= SegmentMax
    <3>1. CASE b = m /\ i = l + 1
      <4>1. disk'[b][i].offset = m + l
        BY <1>1, <3>1
      <4>2. m + l = m + (l + 1) - 1 /\ l + 1 <= SegmentMax
        BY <1>1, PolicyAssumption
      <4> QED BY <3>1, <4>1, <4>2
    <3>2. CASE ~(b = m /\ i = l + 1)
      <4>1. i \in 1 .. Len(disk[b]) /\ disk'[b][i] = disk[b][i] /\ b \in DOMAIN disk
        BY <1>1, <1>3, <3>2
      <4> QED
        BY <1>0, <2>1, <4>1 DEF DenseFiles
    <3> QED BY <3>1, <3>2
  <2>2. ASSUME NEW b \in DOMAIN disk', NEW c \in DOMAIN disk', b < c
        PROVE  b # m
    BY <1>0, <1>1, <2>2 DEF IsTop, FileType
  <2> QED
    BY <1>0, <1>1, <2>1, <2>2 DEF DenseFiles
<1>5. Mirrored'
  <2>1. DOMAIN segs' = DOMAIN disk' /\ \A b \in DOMAIN disk' : segs'[b] = Len(disk'[b])
    BY <1>0, <1>1, <1>2 DEF Mirrored
  <2> QED
    BY <1>0, <1>1, <1>2, <2>1 DEF Mirrored
<1>6. ActiveNotEmpty'
  <2>1. \A k \in DOMAIN disk' : IsTop(DOMAIN disk', k) => k = m
    BY <1>0, <1>1 DEF IsTop, FileType
  <2>2. Len(disk'[m]) > 0
    BY <1>1
  <2> QED
    BY <1>1, <2>1, <2>2 DEF ActiveNotEmpty
<1> QED
  BY <1>4, <1>5, <1>6 DEF DenseInv

\* What retention does to a store whose memory mirrors the directory.
LEMMA RemoveDenseProperties ==
    ASSUME FileInv, DenseInv, RemoveHead
    PROVE  \E h, s \in DOMAIN disk :
             /\ h = start_offset /\ s = start_offset' /\ h < s
             /\ DOMAIN disk' = DOMAIN disk \ {h}
             /\ \A b \in DOMAIN disk' : disk'[b] = disk[b] /\ s <= b
             /\ DOMAIN segs' = DOMAIN disk' /\ \A b \in DOMAIN disk' : segs'[b] = segs[b]
             /\ \A b \in DOMAIN disk : h <= b
             /\ s \in DOMAIN disk' /\ up /\ UNCHANGED <<pending, call, up, next_offset>>
<1> DEFINE h == Oldest
           s == Min(DOMAIN segs \ {Oldest})
<1>0. FileType /\ Mirrored
  BY DEF FileInv, DenseInv
<1>1. up /\ Cardinality(DOMAIN segs) > 1
  BY DEF RemoveHead, Retaining, OverRetention
<1>2. /\ h \in DOMAIN segs /\ s \in DOMAIN segs \ {h} /\ \A b \in DOMAIN segs \ {h} : s <= b
      /\ h < s /\ \A b \in DOMAIN segs : h <= b
  BY <1>1, RemovalProperties
<1>3. DOMAIN segs = DOMAIN disk /\ DOMAIN disk \subseteq Nat
  BY <1>0, <1>1 DEF Mirrored, FileType
<1>4. /\ segs' = [b \in DOMAIN segs \ {h} |-> segs[b]] /\ disk' = [b \in DOMAIN disk \ {h} |-> disk[b]]
      /\ start_offset' = s /\ UNCHANGED <<pending, call, up, next_offset>>
  BY DEF RemoveHead, Restrict
<1> HIDE DEF h, s
<1>5. h = start_offset
  <2>1. start_offset \in DOMAIN disk /\ start_offset <= h
    BY <1>0, <1>1, <1>2, <1>3 DEF Mirrored
  <2>2. h <= start_offset /\ h \in Nat /\ start_offset \in Nat
    BY <1>2, <1>3, <2>1
  <2> QED BY <2>1, <2>2
<1>6. h \in DOMAIN disk /\ s \in DOMAIN disk
  BY <1>2, <1>3
<1> QED
  BY <1>1, <1>2, <1>3, <1>4, <1>5, <1>6

\* Removing the oldest file leaves the files after it as they were.
LEMMA RemoveDense == FileInv /\ DenseInv /\ RemoveHead => DenseInv'
<1> SUFFICES ASSUME FileInv, DenseInv, RemoveHead PROVE DenseInv'
  OBVIOUS
<1>0. FileType /\ DenseFiles /\ Mirrored /\ ActiveNotEmpty
  BY DEF FileInv, DenseInv
<1>1. PICK h, s \in DOMAIN disk :
        /\ h = start_offset /\ s = start_offset' /\ h < s
        /\ DOMAIN disk' = DOMAIN disk \ {h}
        /\ \A b \in DOMAIN disk' : disk'[b] = disk[b] /\ s <= b
        /\ DOMAIN segs' = DOMAIN disk' /\ \A b \in DOMAIN disk' : segs'[b] = segs[b]
        /\ \A b \in DOMAIN disk : h <= b
        /\ s \in DOMAIN disk' /\ up /\ UNCHANGED <<pending, call, up, next_offset>>
  BY RemoveDenseProperties
<1>2. \A b \in DOMAIN disk : b \in Nat /\ Len(disk[b]) \in Nat
  BY <1>0 DEF FileType
<1>3. DenseFiles'
  <2>1. ASSUME NEW b \in DOMAIN disk', NEW c \in DOMAIN disk', b < c
        PROVE  Len(disk'[b]) > 0 /\ b + Len(disk'[b]) \in DOMAIN disk' /\ b + Len(disk'[b]) <= c
    <3>1. b \in DOMAIN disk /\ c \in DOMAIN disk /\ disk'[b] = disk[b] /\ h <= b
      BY <1>1
    <3>2. Len(disk[b]) > 0 /\ b + Len(disk[b]) \in DOMAIN disk /\ b + Len(disk[b]) <= c
      BY <1>0, <2>1, <3>1 DEF DenseFiles
    <3>3. b + Len(disk[b]) # h
      BY <1>2, <3>1, <3>2
    <3> QED
      BY <1>1, <3>1, <3>2, <3>3
  <2> QED
    BY <1>0, <1>1, <2>1 DEF DenseFiles
<1>4. Mirrored'
  BY <1>0, <1>1 DEF Mirrored
<1>5. ActiveNotEmpty'
  <2>1. ASSUME NEW k \in DOMAIN disk', IsTop(DOMAIN disk', k) PROVE IsTop(DOMAIN disk, k)
    <3>1. h <= k /\ k \in DOMAIN disk
      BY <1>1, <2>1
    <3> QED
      BY <1>1, <2>1, <3>1 DEF IsTop
  <2> QED
    BY <1>0, <1>1, <2>1 DEF ActiveNotEmpty
<1> QED
  BY <1>3, <1>4, <1>5 DEF DenseInv

\* A crash changes no frame; at most a torn one ends the newest file.
LEMMA CrashProperties ==
    ASSUME FileInv, DenseInv, Crash
    PROVE  /\ DOMAIN disk' = DOMAIN disk
           /\ \A b \in DOMAIN disk :
                /\ Len(disk'[b]) \in Nat /\ Len(disk[b]) \in Nat /\ Len(disk[b]) <= Len(disk'[b])
                /\ \A i \in 1 .. Len(disk[b]) : disk'[b][i] = disk[b][i]
                /\ \A i \in 1 .. Len(disk'[b]) : i > Len(disk[b]) => disk'[b][i] = Torn
                /\ ~IsTop(DOMAIN disk, b) => disk'[b] = disk[b]
<1>0. FileType /\ MemoryInv /\ pending = <<>> /\ up
  BY DEF FileInv, DenseInv, Mirrored, Crash
<1>1. \A b \in DOMAIN disk : Len(disk[b]) \in Nat /\ disk[b] \in Seq(Frames)
  BY <1>0 DEF FileType
<1>2. CASE UNCHANGED disk
  BY <1>1, <1>2
<1>3. CASE Appending /\ ~NeedsRoll /\ disk' = [disk EXCEPT ![Active] = Append(@, Torn)]
  <2> DEFINE m == Active
  <2>1. DOMAIN segs # {}
    BY <1>3 DEF NeedsRoll
  <2>2. m \in DOMAIN disk /\ IsTop(DOMAIN disk, m)
    BY <1>0, <2>1, ActiveIsTop
  <2>3. disk' = [disk EXCEPT ![m] = Append(@, Torn)]
    BY <1>3
  <2> HIDE DEF m
  <2>4. disk[m] \in Seq(Frames) /\ Torn \in Frames /\ Len(disk[m]) \in Nat
    BY <1>1, <2>2 DEF Frames
  <2>5. /\ Len(Append(disk[m], Torn)) = Len(disk[m]) + 1
        /\ Append(disk[m], Torn)[Len(disk[m]) + 1] = Torn
        /\ \A i \in 1 .. Len(disk[m]) : Append(disk[m], Torn)[i] = disk[m][i]
    BY <2>4, AppendProperties
  <2>6. /\ DOMAIN disk' = DOMAIN disk /\ disk'[m] = Append(disk[m], Torn)
        /\ \A b \in DOMAIN disk : b # m => disk'[b] = disk[b]
    BY <2>2, <2>3
  <2>7. /\ Len(disk'[m]) = Len(disk[m]) + 1 /\ disk'[m][Len(disk[m]) + 1] = Torn
        /\ \A i \in 1 .. Len(disk[m]) : disk'[m][i] = disk[m][i]
    BY <2>5, <2>6
  <2>8. \A i \in 1 .. Len(disk'[m]) : i > Len(disk[m]) => disk'[m][i] = Torn
    <3> SUFFICES ASSUME NEW i \in 1 .. Len(disk'[m]), i > Len(disk[m]) PROVE disk'[m][i] = Torn
      OBVIOUS
    <3>1. i = Len(disk[m]) + 1
      BY <2>4, <2>7
    <3> QED BY <2>7, <3>1
  <2>9. Len(disk'[m]) \in Nat /\ Len(disk[m]) <= Len(disk'[m])
    BY <2>4, <2>7
  <2> QED
    BY <1>1, <2>2, <2>4, <2>6, <2>7, <2>8, <2>9
<1> QED
  BY <1>0, <1>2, <1>3 DEF Crash

\* A torn frame is the only one that does not stand at its offset.
LEMMA CrashDense == FileInv /\ DenseInv /\ Crash => DenseInv'
<1> SUFFICES ASSUME FileInv, DenseInv, Crash PROVE DenseInv'
  OBVIOUS
<1>0. FileType /\ DenseFiles
  BY DEF FileInv, DenseInv
<1>1. /\ DOMAIN disk' = DOMAIN disk
      /\ \A b \in DOMAIN disk :
           /\ Len(disk'[b]) \in Nat /\ Len(disk[b]) \in Nat /\ Len(disk[b]) <= Len(disk'[b])
           /\ \A i \in 1 .. Len(disk[b]) : disk'[b][i] = disk[b][i]
           /\ \A i \in 1 .. Len(disk'[b]) : i > Len(disk[b]) => disk'[b][i] = Torn
           /\ ~IsTop(DOMAIN disk, b) => disk'[b] = disk[b]
  BY CrashProperties
<1>2. pending' = <<>> /\ up' = FALSE /\ call' = NoCall /\ NoCall.busy = FALSE
  BY DEF Crash, NoCall
<1>3. DenseFiles'
  <2>1. ASSUME NEW b \in DOMAIN disk', NEW i \in 1 .. Len(disk'[b]), disk'[b][i] # Torn
        PROVE  disk'[b][i].offset = b + i - 1 /\ i <= SegmentMax
    <3>1. b \in DOMAIN disk /\ i \in 1 .. Len(disk[b]) /\ disk'[b][i] = disk[b][i]
      BY <1>1, <2>1
    <3> QED
      BY <1>0, <2>1, <3>1 DEF DenseFiles
  <2>2. ASSUME NEW b \in DOMAIN disk', NEW c \in DOMAIN disk', b < c
        PROVE  disk'[b] = disk[b]
    BY <1>0, <1>1, <2>2 DEF IsTop, FileType
  <2> QED
    BY <1>0, <1>1, <2>1, <2>2 DEF DenseFiles
<1> QED
  BY <1>2, <1>3 DEF DenseInv, Mirrored, ActiveNotEmpty

\* Recovery keeps every frame that is not torn.
LEMMA RecoverProperties ==
    ASSUME FileInv, NoPartial, Recover
    PROVE  /\ DOMAIN disk' = DOMAIN disk /\ DOMAIN segs' = DOMAIN disk /\ ~up /\ up'
           /\ \A b \in DOMAIN disk :
                /\ disk'[b] = Decodable(disk[b]) /\ segs'[b] = Len(disk'[b])
                /\ disk'[b] \in Seq(Record) /\ Len(disk'[b]) \in Nat /\ Len(disk'[b]) <= Len(disk[b])
                /\ \A i \in 1 .. Len(disk'[b]) : disk'[b][i] = disk[b][i] /\ i \in 1 .. Len(disk[b])
                                                  /\ disk[b][i] # Torn
                /\ (\A i \in 1 .. Len(disk[b]) : disk[b][i] # Torn) => disk'[b] = disk[b]
                /\ b \in Nat
<1>0. FileType /\ TornLast
  BY DEF FileInv
<1>1. /\ disk' = [b \in DOMAIN disk |-> Decodable(disk[b])]
      /\ segs' = [b \in DOMAIN disk |-> Len(Decodable(disk[b]))] /\ ~up /\ up'
  BY DEF Recover, OpenSegment
<1>2. ASSUME NEW b \in DOMAIN disk
      PROVE  /\ disk'[b] = Decodable(disk[b]) /\ segs'[b] = Len(disk'[b])
             /\ disk'[b] \in Seq(Record) /\ Len(disk'[b]) \in Nat /\ Len(disk'[b]) <= Len(disk[b])
             /\ \A i \in 1 .. Len(disk'[b]) : disk'[b][i] = disk[b][i] /\ i \in 1 .. Len(disk[b])
                                               /\ disk[b][i] # Torn
             /\ (\A i \in 1 .. Len(disk[b]) : disk[b][i] # Torn) => disk'[b] = disk[b]
             /\ b \in Nat
  <2> DEFINE f == disk[b]
             d == Decodable(f)
  <2>1. f \in Seq(Frames) /\ b \in Nat /\ \A i \in 1 .. Len(f) : f[i] = Torn => i = Len(f)
    BY <1>0 DEF TornLast, FileType
  <2> HIDE DEF f
  <2>2. /\ d \in Seq(Record) /\ Len(d) <= Len(f)
        /\ \A i \in 1 .. Len(d) : d[i] = f[i] /\ f[i] # Torn
        /\ (\A i \in 1 .. Len(f) : f[i] # Torn) => d = f
    BY <2>1, DecodeProperties
  <2>3. disk'[b] = d /\ segs'[b] = Len(d) /\ f = disk[b] /\ disk'[b] = Decodable(disk[b])
    BY <1>1 DEF f
  <2> HIDE DEF d
  <2>4. Len(d) \in Nat /\ Len(f) \in Nat
    BY <2>1, <2>2
  <2> QED
    BY <2>1, <2>2, <2>3, <2>4
<1>3. DOMAIN disk' = DOMAIN disk /\ DOMAIN segs' = DOMAIN disk
  BY <1>1
<1> QED
  BY <1>1, <1>2, <1>3

\* Recovery brings memory back in line with the directory.
LEMMA RecoverDense == FileInv /\ DenseInv /\ Recover => DenseInv'
<1> SUFFICES ASSUME FileInv, DenseInv, Recover PROVE DenseInv'
  OBVIOUS
<1>0. FileType /\ TornLast /\ CallInv /\ DenseFiles /\ Mirrored
  BY DEF FileInv, DenseInv
<1>1. /\ DOMAIN disk' = DOMAIN disk /\ DOMAIN segs' = DOMAIN disk /\ ~up /\ up'
      /\ \A b \in DOMAIN disk :
           /\ segs'[b] = Len(disk'[b])
           /\ \A i \in 1 .. Len(disk'[b]) : disk'[b][i] = disk[b][i] /\ i \in 1 .. Len(disk[b])
                                             /\ disk[b][i] # Torn
           /\ (\A i \in 1 .. Len(disk[b]) : disk[b][i] # Torn) => disk'[b] = disk[b]
           /\ b \in Nat
  BY RecoverProperties DEF DenseInv
<1>2. ~call.busy /\ UNCHANGED <<call, pending>>
  BY <1>0, <1>1 DEF CallInv, Recover
<1>3. DenseFiles'
  <2>1. ASSUME NEW b \in DOMAIN disk', NEW c \in DOMAIN disk', b < c
        PROVE  disk'[b] = disk[b]
    <3>1. ~(c <= b) /\ b \in DOMAIN disk /\ c \in DOMAIN disk
      BY <1>1, <2>1
    <3>2. \A i \in 1 .. Len(disk[b]) : disk[b][i] # Torn
      BY <1>0, <3>1 DEF TornLast, DenseInv
    <3> QED BY <1>1, <3>1, <3>2
  <2>2. ASSUME NEW b \in DOMAIN disk', NEW i \in 1 .. Len(disk'[b])
        PROVE  disk'[b][i].offset = b + i - 1 /\ i <= SegmentMax
    BY <1>0, <1>1 DEF DenseFiles
  <2> QED
    BY <1>0, <1>1, <2>1, <2>2 DEF DenseFiles
<1>4. Mirrored'
  <2>1. CASE DOMAIN disk = {}
    <3>1. start_offset' = 0 /\ next_offset' = 0
      BY <2>1 DEF Recover
    <3> QED
      BY <1>0, <1>1, <1>2, <2>1, <3>1 DEF Mirrored
  <2>2. CASE DOMAIN disk # {}
    <3>1. start_offset' = Min(DOMAIN disk)
      BY <2>2 DEF Recover
    <3>2. Min(DOMAIN disk) \in DOMAIN disk /\ \A b \in DOMAIN disk : Min(DOMAIN disk) <= b
      BY <1>1, <2>2, MinProperties
    <3> QED
      BY <1>0, <1>1, <1>2, <2>2, <3>1, <3>2 DEF Mirrored
  <2> QED BY <2>1, <2>2
<1> QED
  BY <1>2, <1>3, <1>4 DEF DenseInv, ActiveNotEmpty

\* The empty directory is dense.
LEMMA DenseInit ==
    ASSUME OnlyCreateFails
    PROVE  Init => DenseInv
<1> SUFFICES ASSUME Init PROVE DenseInv
  OBVIOUS
<1>1. /\ disk = [b \in {} |-> <<>>] /\ segs = [b \in {} |-> 0] /\ pending = <<>>
      /\ start_offset = 0 /\ next_offset = 0 /\ call = NoCall
  BY DEF Init, EmptyDir
<1>2. DOMAIN disk = {} /\ DOMAIN segs = {} /\ ~call.busy
  BY <1>1 DEF NoCall
<1> QED
  BY <1>1, <1>2 DEF DenseInv, DenseFiles, Mirrored, ActiveNotEmpty, OnlyCreateFails, NoPartial

\* A batch is never empty.
LEMMA BeginHasWork == BeginAppend => call'.todo # <<>>
<1> SUFFICES ASSUME BeginAppend PROVE call'.todo # <<>>
  OBVIOUS
<1>1. PICK n \in 1 .. MaxBatch : \E vals \in [1 .. n -> Values] :
        call'.todo = [i \in 1 .. n |-> [offset |-> next_offset + i - 1, value |-> vals[i]]]
  BY DEF BeginAppend
<1>2. PICK vals \in [1 .. n -> Values] :
        call'.todo = [i \in 1 .. n |-> [offset |-> next_offset + i - 1, value |-> vals[i]]]
  BY <1>1
<1>3. 1 \in DOMAIN call'.todo
  <2>1. 1 \in 1 .. n
    BY FileBoundAssumption
  <2> QED BY <1>2, <2>1
<1>4. DOMAIN <<>> = {}
  OBVIOUS
<1> QED
  BY <1>3, <1>4

\* Where flushes and removals do not fail, the files stay dense and memory
\* mirrors them.
LEMMA DenseStep ==
    ASSUME OnlyCreateFails
    PROVE  FileInv /\ DenseInv /\ [Next]_vars => DenseInv'
<1> SUFFICES ASSUME FileInv, DenseInv, [Next]_vars PROVE DenseInv'
  OBVIOUS
<1>1. ASSUME UNCHANGED <<disk, segs, pending, start_offset, next_offset, up>>,
             ~call'.busy \/ call'.todo # <<>> \/ UNCHANGED call
      PROVE  DenseInv'
  <2>1. DenseFiles' /\ Mirrored'
    BY <1>1 DEF DenseInv, DenseFiles, Mirrored
  <2>2. ActiveNotEmpty'
    BY <1>1 DEF DenseInv, ActiveNotEmpty
  <2> QED BY <2>1, <2>2 DEF DenseInv
<1>2. CASE BeginAppend
  BY <1>1, <1>2, BeginHasWork DEF BeginAppend, memory
<1>3. NoCall.busy = FALSE
  BY DEF NoCall
<1>4. CASE FinishAppend
  BY <1>1, <1>3, <1>4 DEF FinishAppend
<1>5. CASE CreateFails
  BY <1>1, <1>3, <1>5 DEF CreateFails, Fails
<1>6. ~WriteFails /\ ~LargeWriteFails /\ ~RemoveFails
  BY DEF OnlyCreateFails, WriteFails, LargeWriteFails, RemoveFails, Fails
<1>7. CASE UNCHANGED vars
  BY <1>1, <1>7 DEF vars, memory
<1> QED
  BY <1>2, <1>4, <1>5, <1>6, <1>7, CreateDense, WriteDense, RemoveDense, CrashDense, RecoverDense DEF Next

MemoryAgrees == next_offset = DiskNext /\ start_offset = DiskHead

\* While the process runs, the high watermark and the head that memory holds are
\* those of the directory.
LEMMA MemoryAgreesWithDisk == FileInv /\ DenseInv /\ up => MemoryAgrees
<1> SUFFICES ASSUME FileInv, DenseInv, up PROVE next_offset = DiskNext /\ start_offset = DiskHead
  BY DEF MemoryAgrees
<1>0. DOMAIN disk \in SUBSET Nat /\ MemoryInv /\ Mirrored
  BY DEF FileInv, FileType, DenseInv
<1>1. CASE DOMAIN disk = {}
  BY <1>0, <1>1 DEF Mirrored, DiskNext, DiskHead
<1>2. CASE DOMAIN disk # {}
  <2>1. PICK m : IsTop(DOMAIN disk, m)
    BY <1>0, <1>2 DEF MemoryInv
  <2>2. m \in DOMAIN disk /\ Max(DOMAIN disk) = m
    BY <1>0, <2>1, MaxProperties DEF IsTop
  <2>3. next_offset = m + Len(disk[m])
    BY <1>0, <2>1, <2>2 DEF MemoryInv, Mirrored
  <2>4. Decodable(disk[m]) = disk[m]
    BY <2>2, RunningFilesWhole DEF DenseInv
  <2>5. DiskNext = m + Len(disk[m])
    BY <1>2, <2>2, <2>4 DEF DiskNext
  <2>6. Min(DOMAIN disk) \in DOMAIN disk /\ \A b \in DOMAIN disk : Min(DOMAIN disk) <= b
    BY <1>0, <1>2, MinProperties
  <2>7. start_offset \in DOMAIN disk /\ \A b \in DOMAIN disk : start_offset <= b
    BY <1>0, <1>2 DEF Mirrored
  <2>8. start_offset = Min(DOMAIN disk)
    BY <1>0, <2>6, <2>7
  <2> QED
    BY <1>2, <2>3, <2>5, <2>8 DEF DiskHead
<1> QED BY <1>1, <1>2

-----------------------------------------------------------------------------
(* Retention, where removals do not fail                                   *)

\* The start offset is that of a segment of the vector, and retention begins
\* after a write to a segment that was not full.
HeadInv ==
    /\ up => /\ DOMAIN segs = {} => start_offset = 0 /\ next_offset = 0
             /\ DOMAIN segs # {} => start_offset \in DOMAIN segs
    /\ call.busy /\ call.todo = <<>> =>
         /\ DOMAIN segs # {}
         /\ \A m \in DOMAIN disk : IsTop(DOMAIN disk, m) => segs[m] <= SegmentMax

\* A write leaves the active segment at most full.
LEMMA WriteHead == FileInv /\ HeadInv /\ WriteRecord => HeadInv'
<1> SUFFICES ASSUME FileInv, HeadInv, WriteRecord PROVE HeadInv'
  OBVIOUS
<1> DEFINE m == Active
<1>1. DOMAIN segs # {} /\ up /\ FileType
  BY WriteProperties DEF FileInv
<1>2. m \in DOMAIN disk /\ m \in DOMAIN segs /\ IsTop(DOMAIN disk, m) /\ segs[m] \in Nat
  BY <1>1, ActiveIsTop
<1>3. ~(segs[m] >= SegmentMax)
  BY <1>2 DEF WriteRecord, NeedsRoll
<1>4. segs' = [segs EXCEPT ![m] = @ + 1] /\ UNCHANGED <<start_offset, up>> /\ DOMAIN disk' = DOMAIN disk
  BY DEF WriteRecord
<1> HIDE DEF m
<1>5. DOMAIN segs' = DOMAIN segs /\ segs'[m] = segs[m] + 1
  BY <1>1, <1>2, <1>4 DEF FileType
<1>6. segs'[m] <= SegmentMax
  BY <1>2, <1>3, <1>5, PolicyAssumption
<1>7. \A k \in DOMAIN disk : IsTop(DOMAIN disk, k) => k = m
  BY <1>1, <1>2 DEF IsTop, FileType
<1> QED
  BY <1>1, <1>4, <1>5, <1>6, <1>7 DEF HeadInv

\* When a file is removed, the start offset moves to the next segment.
LEMMA RemoveHeadInv == FileInv /\ HeadInv /\ RemoveHead => HeadInv'
<1> SUFFICES ASSUME FileInv, HeadInv, RemoveHead PROVE HeadInv'
  OBVIOUS
<1> DEFINE h == Oldest
           m == Active
           s == Min(DOMAIN segs \ {Oldest})
<1>1. /\ up /\ Cardinality(DOMAIN segs) > 1 /\ UNCHANGED <<up, call>> /\ start_offset' = s
      /\ segs' = [b \in DOMAIN segs \ {h} |-> segs[b]]
      /\ disk' = [b \in DOMAIN disk \ {h} |-> disk[b]]
      /\ call.busy /\ call.todo = <<>>
  BY DEF RemoveHead, Retaining, OverRetention, Restrict
<1>2. m \in DOMAIN segs \ {h} /\ s \in DOMAIN segs \ {h} /\ DOMAIN segs # {}
  BY <1>1, RemovalProperties
<1>3. m \in DOMAIN disk /\ IsTop(DOMAIN disk, m) /\ DOMAIN disk \subseteq Nat
  BY <1>1, <1>2, ActiveIsTop DEF FileInv, FileType
<1> HIDE DEF h, m, s
<1>4. segs'[m] = segs[m] /\ m \in DOMAIN disk' /\ DOMAIN disk' \subseteq DOMAIN disk
  BY <1>1, <1>2, <1>3
<1>5. segs[m] <= SegmentMax
  BY <1>1, <1>3 DEF HeadInv
<1>6. \A k \in DOMAIN disk' : IsTop(DOMAIN disk', k) => k = m
  BY <1>3, <1>4 DEF IsTop
<1>7. DOMAIN segs' = DOMAIN segs \ {h} /\ start_offset' \in DOMAIN segs' /\ DOMAIN segs' # {}
  BY <1>1, <1>2
<1> QED
  BY <1>4, <1>5, <1>6, <1>7 DEF HeadInv

\* Recovery takes the start offset from the oldest file.
LEMMA RecoverHead == FileInv /\ HeadInv /\ Recover => HeadInv'
<1> SUFFICES ASSUME FileInv, HeadInv, Recover PROVE HeadInv'
  OBVIOUS
<1>1. ~up /\ UNCHANGED call /\ DOMAIN segs' = DOMAIN disk /\ DOMAIN disk \in SUBSET Nat
  BY DEF Recover, FileInv, FileType
<1>2. ~call'.busy
  BY <1>1 DEF FileInv, CallInv
<1>3. DOMAIN disk = {} => start_offset' = 0 /\ next_offset' = 0
  BY DEF Recover
<1>4. DOMAIN disk # {} => start_offset' = Min(DOMAIN disk)
  BY DEF Recover
<1>5. DOMAIN disk # {} => Min(DOMAIN disk) \in DOMAIN disk
  BY <1>1, MinProperties
<1> QED
  BY <1>1, <1>2, <1>3, <1>4, <1>5 DEF HeadInv

\* Where removals do not fail, memory has the head right.
LEMMA HeadStep ==
    ASSUME "remove" \notin IoFaults
    PROVE  FileInv /\ HeadInv /\ [Next]_vars => HeadInv'
<1> SUFFICES ASSUME FileInv, HeadInv, [Next]_vars PROVE HeadInv'
  OBVIOUS
<1>0. NoCall.busy = FALSE
  BY DEF NoCall
<1>1. ASSUME UNCHANGED <<disk, segs, start_offset, next_offset, up>>,
             ~call'.busy \/ call'.todo # <<>> \/ UNCHANGED call
      PROVE  HeadInv'
  BY <1>1 DEF HeadInv
<1>2. CASE BeginAppend
  BY <1>1, <1>2, BeginHasWork DEF BeginAppend, memory
<1>3. CASE FinishAppend
  BY <1>0, <1>1, <1>3 DEF FinishAppend
<1>4. CASE CreateFails \/ WriteFails
  BY <1>0, <1>1, <1>4 DEF CreateFails, WriteFails, Fails
<1>5. CASE UNCHANGED vars
  BY <1>1, <1>5 DEF vars, memory
<1>6. ~RemoveFails
  BY DEF RemoveFails, Fails
<1>7. CASE Crash
  BY <1>0, <1>7 DEF Crash, HeadInv
<1>9. CASE LargeWriteFails
  BY <1>0, <1>9 DEF LargeWriteFails, Fails, HeadInv
<1>8. CASE CreateSegment
  <2>1. DOMAIN segs' = DOMAIN segs \cup {next_offset}
    BY <1>8, CreateProperties
  <2>2. UNCHANGED <<start_offset, up, call>> /\ call.todo # <<>> /\ up
    BY <1>8 DEF CreateSegment, Appending
  <2> QED
    BY <2>1, <2>2 DEF HeadInv
<1> QED
  BY <1>2, <1>3, <1>4, <1>5, <1>6, <1>7, <1>8, <1>9, WriteHead, RemoveHeadInv, RecoverHead DEF Next

\* When the append returns, either the partition is within the policy or its
\* only segment is left, which holds no more than segment_max_records.
LEMMA FinishBounded ==
    ASSUME FileInv, HeadInv, FinishAppend, MaxRecords > 0
    PROVE  total_records' <= MaxRecords \/ total_records' <= SegmentMax
<1>0. FileType /\ MemoryInv
  BY DEF FileInv
<1>1. up /\ call.busy /\ call.todo = <<>> /\ ~OverRetention /\ UNCHANGED <<next_offset, start_offset>>
  BY DEF FinishAppend, Retaining
<1>2. total_records' = total_records
  BY <1>1 DEF total_records
<1>3. start_offset \in Nat /\ next_offset \in Nat /\ start_offset <= next_offset
  BY <1>0, <1>1 DEF FileType, MemoryInv
<1>4. total_records = next_offset - start_offset
  BY <1>3 DEF total_records
<1>5. CASE ~(total_records > MaxRecords)
  <2>1. total_records \in Nat
    BY <1>3, <1>4
  <2> QED
    BY <1>2, <1>5, <2>1, PolicyAssumption
<1>6. CASE ~(Cardinality(DOMAIN segs) > 1)
  <2> DEFINE S == DOMAIN segs
             m == Active
  <2>1. S # {} /\ start_offset \in S
    BY <1>1 DEF HeadInv
  <2>2. IsFiniteSet(S)
    BY <1>0, <1>1, FS_Subset DEF FileType, MemoryInv
  <2>3. /\ m \in S /\ next_offset = m + segs[m] /\ segs[m] \in Nat /\ m \in Nat
        /\ m \in DOMAIN disk /\ IsTop(DOMAIN disk, m)
    BY <1>1, <2>1, ActiveIsTop
  <2>4. segs[m] <= SegmentMax
    BY <1>1, <2>3 DEF HeadInv
  <2>5. ~(Cardinality(S) > 1)
    BY <1>6
  <2> HIDE DEF S, m
  <2>6. m = start_offset
    <3> SUFFICES ASSUME m # start_offset PROVE FALSE
      OBVIOUS
    <3>1. /\ IsFiniteSet(S \ {m}) /\ Cardinality(S) \in Nat
          /\ Cardinality(S \ {m}) = IF m \in S THEN Cardinality(S) - 1 ELSE Cardinality(S)
      BY <2>2, FS_RemoveElement, FS_CardinalityType
    <3>2. Cardinality(S \ {m}) \in Nat /\ Cardinality(S \ {m}) # 0
      <4>1. S \ {m} # {}
        BY <2>1
      <4> QED
        BY <3>1, <4>1, FS_EmptySet, FS_CardinalityType
    <3> QED
      BY <2>3, <2>5, <3>1, <3>2
  <2>7. total_records = segs[m]
    BY <1>4, <2>3, <2>6
  <2> QED
    BY <1>2, <2>3, <2>4, <2>7, PolicyAssumption
<1> QED
  BY <1>1, <1>5, <1>6, PolicyAssumption DEF OverRetention

CountInv == faults \in Nat

\* The count of failed operations is a number.
LEMMA FaultsCounted == Spec => []CountInv
<1>1. Init => CountInv
  BY DEF Init, CountInv
<1>2. CountInv /\ [Next]_vars => CountInv'
  <2>1. CreateFails \/ WriteFails \/ LargeWriteFails \/ RemoveFails => faults' = faults + 1
    BY DEF CreateFails, WriteFails, LargeWriteFails, RemoveFails, Fails
  <2>2. BeginAppend \/ CreateSegment \/ WriteRecord \/ RemoveHead \/ FinishAppend \/ UNCHANGED vars
          => UNCHANGED faults
    BY DEF BeginAppend, CreateSegment, WriteRecord, RemoveHead, FinishAppend, vars
  <2>3. Crash \/ Recover => UNCHANGED faults
    BY DEF Crash, Recover
  <2> QED
    BY <2>1, <2>2, <2>3 DEF CountInv, Next
<1> QED
  BY <1>1, <1>2, PTL DEF Spec

\* Where removals do not fail, a successful append leaves at most max_records
\* records, or the last segment with at most segment_max_records.
THEOREM RetentionKept ==
    ASSUME "remove" \notin IoFaults
    PROVE  Spec => RetentionBounded
<1>1. FileInv /\ HeadInv /\ CountInv /\ [Next]_vars =>
        [AppendSucceeds /\ MaxRecords > 0 =>
            total_records' <= MaxRecords \/ total_records' <= SegmentMax]_vars
  <2> SUFFICES ASSUME FileInv, HeadInv, CountInv, Next, AppendSucceeds, MaxRecords > 0
               PROVE  total_records' <= MaxRecords \/ total_records' <= SegmentMax
    OBVIOUS
  <2>1. call.busy /\ ~call'.busy /\ up' /\ UNCHANGED faults
    BY DEF AppendSucceeds
  <2>2. CASE FinishAppend
    BY <2>2, FinishBounded
  <2>3. ~BeginAppend /\ ~CreateSegment /\ ~RemoveHead /\ ~Crash
    BY <2>1 DEF BeginAppend, CreateSegment, RemoveHead, Crash
  <2>4. ~WriteRecord
    <3>1. call \in [busy : BOOLEAN, batch : Seq(Record), todo : Seq(Record)]
      BY DEF FileInv, FileType
    <3>2. WriteRecord => call'.busy
      BY <2>1, <3>1 DEF WriteRecord
    <3> QED BY <2>1, <3>2
  <2>5. ~CreateFails /\ ~WriteFails /\ ~LargeWriteFails /\ ~RemoveFails
    <3>1. faults + 1 # faults
      BY DEF CountInv
    <3> QED
      BY <2>1, <3>1 DEF CreateFails, WriteFails, LargeWriteFails, RemoveFails, Fails
  <2>6. ~Recover
    BY <2>1 DEF Recover, FileInv, CallInv
  <2> QED
    BY <2>2, <2>3, <2>4, <2>5, <2>6 DEF Next
<1>2. FileInv /\ HeadInv /\ [Next]_vars => HeadInv'
  BY HeadStep
<1>3. Init => HeadInv
  BY DEF Init, HeadInv, NoCall
<1> QED
  BY <1>1, <1>2, <1>3, FileInit, FileStep, FaultsCounted, PTL DEF Spec, RetentionBounded

-----------------------------------------------------------------------------
(* The directory implements CommitLog                                      *)

\* The last file that begins at or below an offset of the log.
LEMMA FileOfIs ==
    ASSUME NEW o \in Nat, NEW b, IsTop({c \in DOMAIN disk : c <= o}, b), DOMAIN disk \subseteq Nat
    PROVE  FileOf(o) = b
<1>1. {c \in DOMAIN disk : c <= o} \in SUBSET Nat
  OBVIOUS
<1> QED
  BY <1>1, MaxProperties DEF FileOf

\* Every offset of the log is a frame of the last file that begins at or below it.
LEMMA LocateRecord ==
    ASSUME FileInv, DenseInv, NEW o \in DiskHead .. DiskNext - 1
    PROVE  /\ o \in Nat /\ DOMAIN disk # {}
           /\ FileOf(o) \in DOMAIN disk /\ FileOf(o) <= o
           /\ IsTop({c \in DOMAIN disk : c <= o}, FileOf(o))
           /\ o - FileOf(o) + 1 \in 1 .. Len(disk[FileOf(o)])
           /\ o - FileOf(o) + 1 \in 1 .. Len(Decodable(disk[FileOf(o)]))
<1>0. DOMAIN disk \in SUBSET Nat /\ TornLast /\ MemoryInv /\ DenseFiles
  BY DEF FileInv, FileType, DenseInv
<1>1. DOMAIN disk # {}
  <2> SUFFICES ASSUME DOMAIN disk = {} PROVE FALSE
    OBVIOUS
  <2>1. DiskHead = 0 /\ DiskNext = 0
    BY DEF DiskHead, DiskNext
  <2> QED BY <2>1
<1>2. /\ DiskHead \in DOMAIN disk /\ DiskHead \in Nat
  BY <1>0, <1>1, MinProperties DEF DiskHead
<1>3. PICK m : IsTop(DOMAIN disk, m)
  BY <1>0, <1>1 DEF MemoryInv
<1>4. m \in DOMAIN disk /\ m \in Nat /\ DiskNext = m + Len(Decodable(disk[m]))
  <2>1. m \in DOMAIN disk /\ Max(DOMAIN disk) = m
    BY <1>0, <1>3, MaxProperties DEF IsTop
  <2> QED
    BY <1>0, <1>1, <2>1 DEF DiskNext
<1>5. ASSUME NEW b \in DOMAIN disk
      PROVE  /\ b \in Nat /\ Len(disk[b]) \in Nat /\ Len(Decodable(disk[b])) \in Nat
             /\ Len(Decodable(disk[b])) <= Len(disk[b])
             /\ b # m => Decodable(disk[b]) = disk[b]
  <2>1. disk[b] \in Seq(Frames) /\ \A i \in 1 .. Len(disk[b]) : disk[b][i] = Torn => i = Len(disk[b])
    BY <1>0 DEF TornLast, FileInv, FileType, DenseInv
  <2>2. /\ Decodable(disk[b]) \in Seq(Record) /\ Len(Decodable(disk[b])) <= Len(disk[b])
        /\ (\A i \in 1 .. Len(disk[b]) : disk[b][i] # Torn) => Decodable(disk[b]) = disk[b]
    BY <2>1, DecodeProperties
  <2>3. b # m => \A i \in 1 .. Len(disk[b]) : disk[b][i] # Torn
    <3> SUFFICES ASSUME b # m, NEW i \in 1 .. Len(disk[b]), disk[b][i] = Torn PROVE FALSE
      OBVIOUS
    <3>1. m <= b /\ b <= m
      BY <1>0, <1>3, <1>4 DEF TornLast, IsTop, DenseInv
    <3> QED BY <1>0, <1>4, <3>1
  <2> QED
    BY <1>0, <2>1, <2>2, <2>3
<1>6. o \in Nat /\ DiskHead <= o /\ o < m + Len(Decodable(disk[m]))
  BY <1>2, <1>4, <1>5
<1> DEFINE S == {c \in DOMAIN disk : c <= o}
<1>7. S \in SUBSET Nat /\ S # {} /\ \A c \in S : c <= o
  BY <1>0, <1>2, <1>6
<1> HIDE DEF S
<1>8. PICK b : IsTop(S, b)
  BY <1>6, <1>7, BoundedHasTop
<1>9. b \in DOMAIN disk /\ b <= o /\ b \in Nat
  BY <1>0, <1>8 DEF IsTop, S
<1>10. FileOf(o) = b
  BY <1>0, <1>6, <1>8, FileOfIs DEF S
<1>11. o < b + Len(Decodable(disk[b]))
  <2>1. CASE b = m
    BY <1>6, <2>1
  <2>2. CASE b # m
    <3>1. b < m /\ Decodable(disk[b]) = disk[b]
      BY <1>3, <1>4, <1>5, <1>9, <2>2 DEF IsTop
    <3>2. Len(disk[b]) > 0 /\ b + Len(disk[b]) \in DOMAIN disk
      BY <1>0, <1>4, <1>9, <3>1 DEF DenseFiles
    <3>3. ~(b + Len(disk[b]) <= b)
      BY <1>5, <1>9, <3>2
    <3>4. ~(b + Len(disk[b]) \in S)
      BY <1>8, <3>3 DEF IsTop
    <3>5. ~(b + Len(disk[b]) <= o)
      BY <3>2, <3>4 DEF S
    <3>6. Len(disk[b]) \in Nat
      BY <1>5, <1>9
    <3> QED
      BY <1>6, <1>9, <3>1, <3>5, <3>6
  <2> QED BY <2>1, <2>2
<1>12. o - b + 1 \in 1 .. Len(Decodable(disk[b])) /\ o - b + 1 \in 1 .. Len(disk[b])
  <2> DEFINE d == Len(Decodable(disk[b]))
             l == Len(disk[b])
  <2>1. d \in Nat /\ l \in Nat /\ d <= l /\ o < b + d
    BY <1>5, <1>9, <1>11
  <2> HIDE DEF d, l
  <2>2. o - b + 1 \in 1 .. d /\ o - b + 1 \in 1 .. l
    BY <1>6, <1>9, <2>1
  <2> QED BY <2>2 DEF d, l
<1> QED
  BY <1>1, <1>6, <1>8, <1>9, <1>10, <1>12 DEF S

\* Steps that keep the files' names and their frames that decode keep the log.
LEMMA SameLog ==
    ASSUME FileInv, DenseInv, DOMAIN disk' = DOMAIN disk,
           \A b \in DOMAIN disk : Len(Decodable(disk'[b])) = Len(Decodable(disk[b])),
           \A b \in DOMAIN disk : \A i \in 1 .. Len(Decodable(disk[b])) : disk'[b][i] = disk[b][i]
    PROVE  UNCHANGED <<DiskHead, DiskNext, DiskRecords>>
<1>0. DOMAIN disk \in SUBSET Nat /\ MemoryInv
  BY DEF FileInv, FileType
<1>1. DiskHead' = DiskHead
  BY DEF DiskHead
<1>2. DiskNext' = DiskNext
  <2>1. CASE DOMAIN disk = {}
    BY <2>1 DEF DiskNext
  <2>2. CASE DOMAIN disk # {}
    <3>1. PICK m : IsTop(DOMAIN disk, m)
      BY <1>0, <2>2 DEF MemoryInv
    <3>2. m \in DOMAIN disk /\ Max(DOMAIN disk) = m
      BY <1>0, <3>1, MaxProperties DEF IsTop
    <3> QED
      BY <2>2, <3>2 DEF DiskNext
  <2> QED BY <2>1, <2>2
<1>3. \A o : FileOf(o)' = FileOf(o)
  BY DEF FileOf
<1>4. ASSUME NEW o \in DiskHead .. DiskNext - 1
      PROVE  disk'[FileOf(o)][o - FileOf(o) + 1] = disk[FileOf(o)][o - FileOf(o) + 1]
  BY LocateRecord
<1>5. DiskRecords' = [o \in DiskHead .. DiskNext - 1 |-> disk'[FileOf(o)][o - FileOf(o) + 1]]
  BY <1>1, <1>2, <1>3 DEF DiskRecords
<1>6. DiskRecords' = DiskRecords
  BY <1>4, <1>5 DEF DiskRecords
<1> QED
  BY <1>1, <1>2, <1>6

\* A crash leaves the log as it is: what it adds to a file does not decode.
LEMMA CrashKeepsLog ==
    ASSUME FileInv, DenseInv, FileInv', Crash
    PROVE  UNCHANGED <<DiskHead, DiskNext, DiskRecords>>
<1>1. /\ DOMAIN disk' = DOMAIN disk
      /\ \A b \in DOMAIN disk :
           /\ Len(disk'[b]) \in Nat /\ Len(disk[b]) \in Nat /\ Len(disk[b]) <= Len(disk'[b])
           /\ \A i \in 1 .. Len(disk[b]) : disk'[b][i] = disk[b][i]
           /\ \A i \in 1 .. Len(disk'[b]) : i > Len(disk[b]) => disk'[b][i] = Torn
  BY CrashProperties
<1>2. \A b \in DOMAIN disk : Decodable(disk[b]) = disk[b] /\ \A i \in 1 .. Len(disk[b]) : disk[b][i] # Torn
  BY RunningFilesWhole DEF Crash, DenseInv
<1>3. ASSUME NEW b \in DOMAIN disk PROVE Len(Decodable(disk'[b])) = Len(disk[b])
  <2> DEFINE f == disk'[b]
             d == Decodable(f)
             k == Len(disk[b])
  <2>1. f \in Seq(Frames) /\ \A i \in 1 .. Len(f) : f[i] = Torn => i = Len(f)
    BY <1>1 DEF FileInv, FileType, TornLast, DenseInv
  <2>2. /\ k \in Nat /\ Len(f) \in Nat /\ k <= Len(f)
        /\ \A i \in 1 .. k : f[i] # Torn
        /\ \A i \in 1 .. Len(f) : i > k => f[i] = Torn
    BY <1>1, <1>2
  <2> HIDE DEF f, k
  <2>3. /\ d \in Seq(Record) /\ Len(d) <= Len(f) /\ \A i \in 1 .. Len(d) : f[i] # Torn
        /\ \A i \in 1 .. Len(f) : f[i] # Torn => i <= Len(d)
    BY <2>1, DecodeProperties
  <2>4. Len(d) \in Nat
    BY <2>3
  <2> HIDE DEF d
  <2>5. Len(d) <= k
    <3> SUFFICES ASSUME Len(d) > k PROVE FALSE
      BY <2>2, <2>4
    <3>1. Len(d) \in 1 .. Len(d) /\ Len(d) \in 1 .. Len(f)
      BY <2>2, <2>3, <2>4
    <3> QED BY <2>2, <2>3, <3>1
  <2>6. k <= Len(d)
    <3> SUFFICES ASSUME k > 0 PROVE k <= Len(d)
      BY <2>2, <2>4
    <3>1. k \in 1 .. k /\ k \in 1 .. Len(f)
      BY <2>2
    <3> QED BY <2>2, <2>3, <3>1
  <2>7. Len(d) = k
    BY <2>2, <2>4, <2>5, <2>6
  <2> QED BY <2>7 DEF d, f, k
<1> QED
  BY <1>1, <1>2, <1>3, SameLog

\* Recovery leaves the log as it is.
LEMMA RecoverKeepsLog ==
    ASSUME FileInv, DenseInv, Recover
    PROVE  UNCHANGED <<DiskHead, DiskNext, DiskRecords>>
<1>1. /\ DOMAIN disk' = DOMAIN disk
      /\ \A b \in DOMAIN disk :
           /\ disk'[b] = Decodable(disk[b]) /\ disk'[b] \in Seq(Record)
           /\ \A i \in 1 .. Len(disk'[b]) : disk'[b][i] = disk[b][i]
  BY RecoverProperties DEF DenseInv
<1>2. ASSUME NEW b \in DOMAIN disk PROVE Decodable(disk'[b]) = disk'[b]
  <2> DEFINE f == disk'[b]
  <2>1. f \in Seq(Record)
    BY <1>1
  <2> HIDE DEF f
  <2>2. f \in Seq(Frames) /\ \A i \in 1 .. Len(f) : f[i] # Torn
    BY <2>1, ElementOfSeq, TornNotRecord DEF Frames
  <2>3. Decodable(f) = f
    BY <2>2, DecodeProperties
  <2> QED BY <2>3 DEF f
<1> QED
  BY <1>1, <1>2, SameLog

\* The invariants of the next state give its high watermark and head.
LEMMA NextMemoryAgrees == (FileInv /\ DenseInv /\ up)' => MemoryAgrees'
  BY MemoryAgreesWithDisk, PTL

\* An empty segment at the end of the log adds no record.
LEMMA CreateKeepsLog ==
    ASSUME FileInv, DenseInv, FileInv', DenseInv', CreateSegment
    PROVE  UNCHANGED <<DiskHead, DiskNext, DiskRecords>>
<1> DEFINE n == next_offset
<1>1. /\ \A b \in DOMAIN disk : b < n
      /\ DOMAIN disk' = DOMAIN disk \cup {n} /\ \A b \in DOMAIN disk : disk'[b] = disk[b]
  BY CreateProperties
<1>2. up /\ up' /\ UNCHANGED <<next_offset, start_offset>> /\ n \in Nat /\ DOMAIN disk \subseteq Nat
  BY DEF CreateSegment, Appending, FileInv, FileType
<1>3. MemoryAgrees /\ MemoryAgrees'
  BY <1>2, MemoryAgreesWithDisk, NextMemoryAgrees
<1>4. DiskHead' = DiskHead /\ DiskNext' = DiskNext /\ DiskNext = n /\ DiskHead \in Nat
  BY <1>2, <1>3 DEF MemoryAgrees, FileInv, FileType
<1> HIDE DEF n
<1>5. ASSUME NEW o \in DiskHead .. DiskNext - 1
      PROVE  disk'[FileOf(o)'][o - FileOf(o)' + 1] = disk[FileOf(o)][o - FileOf(o) + 1]
  <2>0. o \in Nat /\ FileOf(o) \in DOMAIN disk
    BY LocateRecord
  <2>1. o \in Nat /\ o < n /\ FileOf(o) \in DOMAIN disk
    BY <1>2, <1>4, <2>0
  <2>2. {c \in DOMAIN disk' : c <= o} = {c \in DOMAIN disk : c <= o}
    BY <1>1, <1>2, <2>1
  <2>3. FileOf(o)' = FileOf(o)
    BY <2>2 DEF FileOf
  <2> QED
    BY <1>1, <2>1, <2>3
<1>6. DiskRecords' = [o \in DiskHead .. DiskNext - 1 |-> disk'[FileOf(o)'][o - FileOf(o)' + 1]]
  BY <1>4 DEF DiskRecords
<1>7. DiskRecords' = DiskRecords
  BY <1>5, <1>6 DEF DiskRecords
<1> QED
  BY <1>4, <1>7

\* A write appends one record at the high watermark.
LEMMA WriteAppends ==
    ASSUME FileInv, DenseInv, FileInv', DenseInv', WriteRecord
    PROVE  \E v \in Values : CL!AppendRecord(v)
<1> DEFINE m == Active
           l == Len(disk[Active])
           n == next_offset
           h == start_offset
           x == call.todo[1]
<1>1. /\ m \in DOMAIN disk /\ IsTop(DOMAIN disk, m) /\ DOMAIN disk' = DOMAIN disk
      /\ \A b \in DOMAIN disk : b # m => disk'[b] = disk[b]
      /\ \A i \in 1 .. l : disk'[m][i] = disk[m][i]
      /\ disk'[m][l + 1] = x /\ x \in Record /\ x.offset = n /\ n = m + l /\ l \in Nat /\ m \in Nat
      /\ up /\ up'
  BY WriteDenseProperties
<1>2. next_offset' = n + 1 /\ UNCHANGED start_offset /\ n \in Nat /\ h \in Nat /\ DOMAIN disk \subseteq Nat
  BY DEF WriteRecord, FileInv, FileType
<1>3. MemoryAgrees /\ MemoryAgrees'
  BY <1>1, MemoryAgreesWithDisk, NextMemoryAgrees
<1>4. DiskHead = h /\ DiskHead' = h /\ DiskNext = n /\ DiskNext' = n + 1
  BY <1>2, <1>3 DEF MemoryAgrees
<1>5. x.value \in Values /\ x = [offset |-> n, value |-> x.value]
  BY <1>1 DEF Record
<1>6. l = Len(disk[m])
  OBVIOUS
<1> HIDE DEF m, l, n, h, x
<1>7. \A o : FileOf(o)' = FileOf(o)
  BY <1>1 DEF FileOf
<1>8. FileOf(n) = m
  <2>1. IsTop({c \in DOMAIN disk : c <= n}, m)
    BY <1>1, <1>2 DEF IsTop
  <2> QED
    BY <1>2, <2>1, FileOfIs
<1>9. ASSUME NEW o \in h .. n
      PROVE  disk'[FileOf(o)][o - FileOf(o) + 1] =
               IF o = n THEN [offset |-> n, value |-> x.value] ELSE DiskRecords[o]
  <2>1. CASE o = n
    <3>1. n - m + 1 = l + 1
      BY <1>1
    <3> QED
      BY <1>1, <1>5, <1>8, <2>1, <3>1
  <2>2. CASE o # n
    <3>1. o \in h .. n - 1
      BY <1>2, <2>2
    <3>2. o \in DiskHead .. DiskNext - 1
      BY <1>4, <3>1
    <3>3. FileOf(o) \in DOMAIN disk /\ o - FileOf(o) + 1 \in 1 .. Len(disk[FileOf(o)])
      BY <3>2, LocateRecord
    <3>4. disk'[FileOf(o)][o - FileOf(o) + 1] = disk[FileOf(o)][o - FileOf(o) + 1]
      BY <1>1, <1>6, <3>3
    <3> QED
      BY <2>2, <3>2, <3>4 DEF DiskRecords
  <2> QED BY <2>1, <2>2
<1>10. DiskRecords' = [o \in h .. n |-> disk'[FileOf(o)][o - FileOf(o) + 1]]
  <2>1. DiskHead' .. DiskNext' - 1 = h .. n
    <3>1. DiskNext' - 1 = n
      BY <1>2, <1>4
    <3>2. DiskHead' = h
      BY <1>4
    <3> QED
      BY ONLY <3>1, <3>2
  <2>2. DiskRecords' = [o \in DiskHead' .. DiskNext' - 1 |-> disk'[FileOf(o)'][o - FileOf(o)' + 1]]
    BY DEF DiskRecords
  <2>3. DiskRecords' = [o \in h .. n |-> disk'[FileOf(o)'][o - FileOf(o)' + 1]]
    BY <2>1, <2>2
  <2> QED
    BY <1>7, <2>3
<1>11. DiskRecords' = [o \in h .. n |-> IF o = n THEN [offset |-> n, value |-> x.value] ELSE DiskRecords[o]]
  BY <1>9, <1>10
<1>12. CL!AppendRecord(x.value)
  BY <1>4, <1>11 DEF CL!AppendRecord
<1> QED
  BY <1>5, <1>12

\* Removing the oldest file prunes the head of the log.
LEMMA RemovePrunes ==
    ASSUME FileInv, DenseInv, FileInv', DenseInv', RemoveHead
    PROVE  \E k \in DiskHead + 1 .. DiskNext - 1 : CL!Prune(k)
<1> DEFINE n == next_offset
<1>1. PICK h, s \in DOMAIN disk :
        /\ h = start_offset /\ s = start_offset' /\ h < s
        /\ DOMAIN disk' = DOMAIN disk \ {h}
        /\ \A b \in DOMAIN disk' : disk'[b] = disk[b] /\ s <= b
        /\ s \in DOMAIN disk' /\ up /\ up' /\ next_offset' = next_offset
  BY RemoveDenseProperties
<1>2. n \in Nat /\ h \in Nat /\ s \in Nat /\ DOMAIN disk \subseteq Nat
  BY <1>1 DEF FileInv, FileType
<1>3. MemoryAgrees /\ MemoryAgrees'
  BY <1>1, MemoryAgreesWithDisk, NextMemoryAgrees
<1>4. DiskHead = h /\ DiskHead' = s /\ DiskNext = n /\ DiskNext' = n
  BY <1>1, <1>3 DEF MemoryAgrees
<1>5. MaxRecords > 0 /\ n - h > MaxRecords
  <2>1. MaxRecords # 0 /\ total_records > MaxRecords
    BY DEF RemoveHead, OverRetention
  <2>2. total_records = IF n >= h THEN n - h ELSE 0
    BY <1>1 DEF total_records
  <2> HIDE DEF n
  <2> QED
    BY <1>2, <2>1, <2>2, PolicyAssumption
<1>6. s < n
  <2>1. call.busy /\ call.todo = <<>> /\ up
    BY DEF RemoveHead, Retaining
  <2>2. PICK m : IsTop(DOMAIN disk, m)
    BY <1>1 DEF FileInv, MemoryInv
  <2>3. m \in DOMAIN disk /\ m \in Nat /\ s <= m
    BY <1>1, <1>2, <2>2 DEF IsTop
  <2>4. Len(disk[m]) > 0 /\ Len(disk[m]) \in Nat
    BY <2>1, <2>2, <2>3, RunningFilesWhole DEF DenseInv, ActiveNotEmpty
  <2>5. n = m + Len(disk[m])
    BY <2>1, <2>2, <2>3 DEF FileInv, MemoryInv, DenseInv, Mirrored
  <2> HIDE DEF n
  <2> QED
    BY <1>2, <2>3, <2>4, <2>5
<1> HIDE DEF n
<1>7. ASSUME NEW o \in s .. n - 1
      PROVE  disk'[FileOf(o)'][o - FileOf(o)' + 1] = DiskRecords[o]
  <2>1. o \in h .. n - 1 /\ s <= o /\ o \in Nat
    BY <1>1, <1>2
  <2>2. o \in DiskHead .. DiskNext - 1
    BY <1>4, <2>1
  <2>3. FileOf(o) \in DOMAIN disk /\ IsTop({c \in DOMAIN disk : c <= o}, FileOf(o))
    BY <2>2, LocateRecord
  <2>4. FileOf(o) # h
    <3>1. s <= FileOf(o)
      BY <1>1, <2>1, <2>3 DEF IsTop
    <3> QED BY <1>1, <1>2, <3>1
  <2> DEFINE S == {c \in DOMAIN disk' : c <= o}
             b == FileOf(o)
  <2>5. IsTop(S, b) /\ S \in SUBSET Nat
    BY <1>1, <1>2, <2>3, <2>4 DEF IsTop
  <2>6. FileOf(o)' = Max(S)
    BY DEF FileOf
  <2> HIDE DEF S, b
  <2>7. Max(S) = b
    BY <2>5, MaxProperties
  <2>8. disk'[FileOf(o)] = disk[FileOf(o)]
    BY <1>1, <2>3, <2>4
  <2> QED
    BY <2>2, <2>6, <2>7, <2>8 DEF b, DiskRecords
<1>8. DiskRecords' = [o \in s .. n - 1 |-> disk'[FileOf(o)'][o - FileOf(o)' + 1]]
  BY <1>4 DEF DiskRecords
<1>9. DiskRecords' = [o \in s .. n - 1 |-> DiskRecords[o]]
  BY <1>7, <1>8
<1>10. CL!Prune(s)
  BY <1>4, <1>5, <1>9 DEF CL!Prune
<1>11. s \in h + 1 .. n - 1
  BY <1>1, <1>2, <1>6
<1> QED
  BY <1>4, <1>10, <1>11

\* Where flushes and removals do not fail, the directory implements the abstract
\* log: a write appends at the high watermark, retention prunes a head it may
\* remove, and rolls, crashes, torn frames and recovery change nothing.
THEOREM DirectoryImplementsCommitLog ==
    ASSUME OnlyCreateFails
    PROVE  Spec => RefinesCommitLog
<1>1. Init => CL!Init
  <2> SUFFICES ASSUME Init PROVE CL!Init
    OBVIOUS
  <2>1. DOMAIN disk = {}
    BY DEF Init, EmptyDir
  <2>2. DiskHead = 0 /\ DiskNext = 0
    BY <2>1 DEF DiskHead, DiskNext
  <2>3. 0 .. 0 - 1 = {} /\ 0 .. -1 = {}
    OBVIOUS
  <2>4. DiskRecords = [o \in {} |-> disk[FileOf(o)][o - FileOf(o) + 1]]
    BY <2>2, <2>3 DEF DiskRecords
  <2>5. DiskRecords = [o \in 0 .. -1 |-> 0]
    BY <2>3, <2>4
  <2> QED
    BY <2>2, <2>5 DEF CL!Init
<1>2. FileInv /\ DenseInv /\ [Next]_vars => DenseInv'
  BY DenseStep
<1>3. FileInv /\ DenseInv /\ FileInv' /\ DenseInv' /\ [Next]_vars => [CL!Next]_(CL!cvars)
  <2> SUFFICES ASSUME FileInv, DenseInv, FileInv', DenseInv', [Next]_vars
               PROVE  CL!Next \/ UNCHANGED <<DiskHead, DiskNext, DiskRecords>>
    BY DEF CL!cvars
  <2>1. CASE UNCHANGED disk
    BY <2>1 DEF DiskHead, DiskNext, DiskRecords, FileOf
  <2>2. CASE WriteRecord
    BY <2>2, WriteAppends DEF CL!Next
  <2>3. CASE RemoveHead
    BY <2>3, RemovePrunes DEF CL!Next
  <2>5. ~LargeWriteFails
    BY DEF OnlyCreateFails, LargeWriteFails, Fails
  <2>4. BeginAppend \/ FinishAppend \/ CreateFails \/ WriteFails \/ RemoveFails \/ UNCHANGED vars
          => UNCHANGED disk
    BY DEF BeginAppend, FinishAppend, CreateFails, WriteFails, RemoveFails, vars
  <2> QED
    BY <2>1, <2>2, <2>3, <2>4, <2>5, CreateKeepsLog, CrashKeepsLog, RecoverKeepsLog DEF Next
<1> QED
  BY <1>1, <1>2, <1>3, FileInit, FileStep, DenseInit, PTL DEF Spec, RefinesCommitLog, CL!Spec

-----------------------------------------------------------------------------
(* fetch                                                                   *)

Before(b) == {c \in DOMAIN segs : c < b}

\* One round of the loop, given what the rounds before it have collected.
Round(upto, b, from, max) ==
    LET out == IF Before(b) = {} THEN <<>> ELSE upto[Max(Before(b))]
    IN  out \o ReadFrom(b, from, max - Len(out))

\* The rounds of the segments below an offset.
HasRounds(n, from, max) == \E g : g = [b \in Before(n) |-> Round(g, b, from, max)]

\* The segment before another one.
LEMMA SegmentBefore ==
    ASSUME DOMAIN segs \in SUBSET Nat, NEW b \in Nat, Before(b) # {}
    PROVE  /\ Max(Before(b)) \in DOMAIN segs /\ Max(Before(b)) < b
           /\ \A c \in DOMAIN segs : c < b => c <= Max(Before(b))
<1>1. Before(b) \in SUBSET Nat /\ \A x \in Before(b) : x <= b
  BY DEF Before
<1>2. PICK m : IsTop(Before(b), m)
  BY <1>1, BoundedHasTop
<1>3. Max(Before(b)) = m
  BY <1>1, <1>2, MaxProperties
<1> QED
  BY <1>2, <1>3 DEF IsTop, Before

\* The rounds up to any offset are a function of the rounds before them.  The
\* least offset for which they were not would be the successor of one for which
\* they are.
LEMMA RoundsExist ==
    ASSUME DOMAIN segs \in SUBSET Nat, NEW from, NEW max, NEW n \in Nat
    PROVE  HasRounds(n, from, max)
<1> DEFINE Has(k) == \E g : g = [b \in Before(k) |-> Round(g, b, from, max)]
           Broken == {k \in Nat : ~Has(k)}
<1>1. Has(0)
  <2>1. Before(0) = {}
    BY DEF Before
  <2> DEFINE g == [b \in {} |-> <<>>]
  <2>2. g = [b \in Before(0) |-> Round(g, b, from, max)]
    BY <2>1
  <2> QED BY <2>2
<1>2. ASSUME NEW k \in Nat, Has(k) PROVE Has(k + 1)
  <2>1. PICK g : g = [b \in Before(k) |-> Round(g, b, from, max)]
    BY <1>2
  <2> DEFINE h == [b \in Before(k + 1) |-> IF b = k THEN Round(g, k, from, max) ELSE g[b]]
  <2>2. \A b \in Before(k + 1) : b \in Nat /\ (b = k \/ b \in Before(k))
    BY DEF Before
  <2>3. Before(k) \subseteq Before(k + 1) /\ k \notin Before(k)
    BY DEF Before
  <2>4. ASSUME NEW b \in Before(k + 1) PROVE Round(h, b, from, max) = Round(g, b, from, max)
    <3>1. CASE Before(b) = {}
      BY <3>1 DEF Round
    <3>2. CASE Before(b) # {}
      <4> DEFINE c == Max(Before(b))
      <4>1. c \in DOMAIN segs /\ c < b /\ b \in Nat /\ b <= k
        BY <2>2, <3>2, SegmentBefore DEF Before
      <4>2. c \in Before(k) /\ c # k
        BY <4>1 DEF Before
      <4>3. h[c] = g[c]
        BY <2>3, <4>2
      <4> HIDE DEF c, h
      <4>4. h[Max(Before(b))] = g[Max(Before(b))]
        BY <4>3 DEF c
      <4> QED
        BY <4>4 DEF Round
    <3> QED BY <3>1, <3>2
  <2>5. ASSUME NEW b \in Before(k + 1) PROVE h[b] = Round(g, b, from, max)
    <3>1. CASE b = k
      BY <3>1
    <3>2. CASE b # k
      <4>1. b \in Before(k)
        BY <2>2, <3>2
      <4>2. g[b] = Round(g, b, from, max)
        BY <2>1, <4>1
      <4> QED BY <3>2, <4>2
    <3> QED BY <3>1, <3>2
  <2>6. h = [b \in Before(k + 1) |-> h[b]]
    OBVIOUS
  <2> HIDE DEF h
  <2>7. h = [b \in Before(k + 1) |-> Round(h, b, from, max)]
    BY <2>4, <2>5, <2>6
  <2> QED BY <2>7
<1> HIDE DEF Has
<1>3. Broken = {}
  <2> SUFFICES ASSUME Broken # {} PROVE FALSE
    OBVIOUS
  <2>1. Broken \in SUBSET Nat
    OBVIOUS
  <2>2. PICK k \in Broken : \A x \in Broken : k <= x
    BY <2>1, MinProperties
  <2>3. k \in Nat /\ k # 0 /\ ~Has(k)
    BY <1>1, <2>2
  <2>4. k - 1 \in Nat /\ ~(k <= k - 1) /\ k - 1 + 1 = k
    BY <2>3
  <2>5. Has(k - 1)
    BY <2>2, <2>4
  <2>6. Has(k - 1 + 1)
    BY <1>2, <2>4, <2>5
  <2> QED BY <2>3, <2>4, <2>6
<1>4. Has(n)
  BY <1>3
<1> QED
  BY <1>4 DEF Has, HasRounds

\* The recursive definition of Collected defines what it says.
LEMMA CollectedRounds ==
    ASSUME DOMAIN segs \in SUBSET Nat, NEW top \in Nat, \A c \in DOMAIN segs : c <= top,
           NEW from, NEW max
    PROVE  \A b \in DOMAIN segs : Collected(from, max)[b] = Round(Collected(from, max), b, from, max)
<1> DEFINE Is(g) == g = [b \in DOMAIN segs |-> Round(g, b, from, max)]
<1> DEFINE n == top + 1
<1>1. n \in Nat /\ \A c \in DOMAIN segs : c < n
  OBVIOUS
<1> HIDE DEF n
<1>2. \E g : Is(g)
  <2>1. Before(n) = DOMAIN segs
    BY <1>1 DEF Before
  <2>2. HasRounds(n, from, max)
    BY <1>1, RoundsExist
  <2> QED BY <2>1, <2>2 DEF HasRounds
<1>3. Collected(from, max) = CHOOSE g : Is(g)
  BY DEF Collected, Round, Before
<1> HIDE DEF Is
<1>4. Is(Collected(from, max))
  BY <1>2, <1>3
<1> QED
  BY <1>4 DEF Is

\* Where read_from seeks to in a file, and how many frames follow.
Skipped(b, from) == IF from >= b THEN from - b ELSE 0
Left(b, from) ==
    IF from >= b + segs[b] \/ Len(disk[b]) <= Skipped(b, from) THEN 0
    ELSE Len(disk[b]) - Skipped(b, from)

\* What read_from returns of a file without a torn frame.
Reads(b, from, rem, out) ==
    /\ out \in Seq(Record) /\ Left(b, from) \in Nat
    /\ Len(out) = (IF rem <= Left(b, from) THEN rem ELSE Left(b, from))
    /\ \A j \in 1 .. Len(out) :
         /\ Skipped(b, from) + j \in 1 .. Len(disk[b])
         /\ out[j] = disk[b][Skipped(b, from) + j]

LEMMA ReadFromIs ==
    ASSUME NEW b \in Nat, disk[b] \in Seq(Record), segs[b] \in Nat, NEW from \in Nat, NEW rem \in Nat
    PROVE  Reads(b, from, rem, ReadFrom(b, from, rem))
<1> DEFINE f == disk[b]
           l == Len(disk[b])
           k == Skipped(b, from)
           tail == SubSeq(f, k + 1, l)
           n == Left(b, from)
           r == IF rem <= n THEN rem ELSE n
           out == ReadFrom(b, from, rem)
<1>1. f \in Seq(Record) /\ l \in Nat /\ k \in Nat /\ \A i \in 1 .. l : f[i] \in Record
  BY ElementOfSeq DEF Skipped
<1>2. n \in Nat /\ r \in Nat /\ r <= n /\ r <= rem /\ (n > 0 => n = l - k)
      /\ (from >= b + segs[b] => n = 0)
      /\ (~(from >= b + segs[b]) => n = IF l <= k THEN 0 ELSE l - k)
  BY <1>1 DEF Left
<1> HIDE DEF f, l, k, n
<1>3. /\ tail \in Seq(Record)
      /\ Len(tail) = (IF l <= k THEN 0 ELSE l - k)
      /\ \A i \in 1 .. Len(tail) : k + i \in 1 .. l /\ tail[i] = f[k + i]
  <2>1. k + 1 \in Int /\ l \in Int /\ \A i \in k + 1 .. l : f[i] \in Record
    BY <1>1
  <2>2. /\ tail \in Seq(Record)
        /\ Len(tail) = IF k + 1 <= l THEN l - (k + 1) + 1 ELSE 0
        /\ \A i \in 1 .. l - (k + 1) + 1 : tail[i] = f[(k + 1) + i - 1]
    BY <2>1, SubSeqProperties
  <2> HIDE DEF tail
  <2>3. Len(tail) = (IF l <= k THEN 0 ELSE l - k)
    BY <1>1, <2>2
  <2>4. \A i \in 1 .. Len(tail) : /\ k + i \in 1 .. l /\ i \in 1 .. l - (k + 1) + 1
                                  /\ (k + 1) + i - 1 = k + i
    BY <1>1, <2>3
  <2> QED BY <2>2, <2>3, <2>4
<1>4. Decodable(tail) = tail
  <2>1. \A i \in 1 .. Len(tail) : tail[i] \in Record
    BY <1>3, ElementOfSeq
  <2>2. {i \in 1 .. Len(tail) : tail[i] = Torn} = {}
    BY <2>1, TornNotRecord
  <2> QED BY <2>2 DEF Decodable
<1> DEFINE t == Len(tail)
           m == IF rem <= t THEN rem ELSE t
<1>5. out = IF from >= b + segs[b] THEN <<>> ELSE SubSeq(tail, 1, m)
  BY <1>4 DEF ReadFrom, Skipped, f, l, k
<1>6. t \in Nat /\ m \in 0 .. t /\ m \in Nat
  BY <1>3
<1>7. /\ SubSeq(tail, 1, m) \in Seq(Record) /\ Len(SubSeq(tail, 1, m)) = m
      /\ \A i \in 1 .. m : SubSeq(tail, 1, m)[i] = tail[i] /\ i \in 1 .. t
  <2> HIDE DEF tail, t, m
  <2>1. 1 \in Int /\ m \in Int /\ \A i \in 1 .. m : i \in 1 .. t
    BY <1>6
  <2>2. \A i \in 1 .. m : tail[i] \in Record
    BY <1>3, <2>1, ElementOfSeq DEF t
  <2>3. /\ SubSeq(tail, 1, m) \in Seq(Record)
        /\ Len(SubSeq(tail, 1, m)) = IF 1 <= m THEN m - 1 + 1 ELSE 0
        /\ \A i \in 1 .. m - 1 + 1 : SubSeq(tail, 1, m)[i] = tail[1 + i - 1]
    BY <2>1, <2>2, SubSeqProperties
  <2>4. \A i \in 1 .. m : i \in 1 .. m - 1 + 1 /\ 1 + i - 1 = i
    BY <1>6
  <2>5. Len(SubSeq(tail, 1, m)) = m
    BY <1>6, <2>3
  <2> QED BY <2>1, <2>3, <2>4, <2>5
<1>8. CASE from >= b + segs[b]
  <2>1. out = <<>> /\ r = 0
    BY <1>2, <1>5, <1>8
  <2>2. out \in Seq(Record) /\ Len(out) = 0 /\ \A j \in 1 .. Len(out) : FALSE
    BY <2>1
  <2> HIDE DEF out
  <2> QED
    BY <1>2, <2>1, <2>2 DEF n, out, Reads
<1>9. CASE ~(from >= b + segs[b])
  <2>1. out = SubSeq(tail, 1, m) /\ t = n /\ m = r
    BY <1>2, <1>3, <1>5, <1>9
  <2> HIDE DEF tail, t, m, out, r
  <2>2. out \in Seq(Record) /\ Len(out) = r /\ \A j \in 1 .. r : out[j] = f[k + j] /\ k + j \in 1 .. l
    BY <1>3, <1>7, <2>1 DEF t
  <2> QED
    BY <1>2, <2>2 DEF f, l, k, n, out, r, Reads
<1> QED
  BY <1>8, <1>9

\* Where every frame stands at its offset, the files are disjoint and in order.
LEMMA FilesInOrder ==
    ASSUME FileInv, up, Intact, NEW b \in DOMAIN disk
    PROVE  /\ b \in Nat /\ disk[b] \in Seq(Record) /\ Len(disk[b]) \in Nat
           /\ \A i \in 1 .. Len(disk[b]) : disk[b][i].offset = b + i - 1
           /\ \A c \in DOMAIN disk : b < c => b + Len(disk[b]) <= c
<1>1. /\ b \in Nat /\ DOMAIN disk \subseteq Nat /\ disk[b] \in Seq(Frames)
      /\ Len(disk[b]) \in Nat /\ DOMAIN disk[b] = 1 .. Len(disk[b])
  BY DEF FileInv, FileType
<1>2. \A i \in 1 .. Len(disk[b]) : disk[b][i] # Torn
  BY <1>1 DEF Intact
<1>3. Decodable(disk[b]) = disk[b] /\ Decodable(disk[b]) \in Seq(Record)
  BY <1>1, <1>2, DecodeProperties
<1>4. \A i \in 1 .. Len(disk[b]) : disk[b][i].offset = b + i - 1
  BY <1>1 DEF Intact
<1>5. ASSUME NEW c \in DOMAIN disk, b < c PROVE b + Len(disk[b]) <= c
  <2> DEFINE l == Len(disk[b])
  <2>1. c \in Nat /\ l \in Nat
    BY <1>1
  <2>2. CASE l = 0
    BY <1>1, <1>5, <2>1, <2>2
  <2>3. CASE l # 0
    <3>1. l \in 1 .. l
      BY <2>1, <2>3
    <3>2. disk[b][l].offset = b + l - 1 /\ disk[b][l].offset < c
      BY <1>2, <1>4, <1>5, <3>1 DEF FileInv, OffsetsBounded
    <3> HIDE DEF l
    <3>3. b + l <= c
      BY <1>1, <2>1, <3>2
    <3> QED BY <3>3 DEF l
  <2> QED BY <2>2, <2>3
<1> QED
  BY <1>1, <1>3, <1>4, <1>5

\* What fetch may return of the records below an offset.
Ascends(out, from, max, bound) ==
    /\ out \in Seq(Record) /\ Len(out) <= max
    /\ \A i \in 1 .. Len(out) : out[i].offset >= from /\ out[i].offset < bound
    /\ \A i \in 1 .. Len(out) - 1 : out[i].offset < out[i + 1].offset

\* One round keeps what is collected in ascending order.
LEMMA RoundAscends ==
    ASSUME FileInv, up, Intact, NEW b \in DOMAIN segs, NEW from \in Nat, NEW max \in Nat,
           NEW out, Ascends(out, from, max, b)
    PROVE  Ascends(out \o ReadFrom(b, from, max - Len(out)), from, max, b + Len(disk[b]))
<1> DEFINE p == Len(out)
           r == ReadFrom(b, from, max - p)
           q == Len(r)
           d == out \o r
           l == Len(disk[b])
           k == Skipped(b, from)
<1>1. /\ b \in DOMAIN disk /\ segs[b] \in Nat
  BY DEF FileInv, FileType, MemoryInv
<1>2. /\ b \in Nat /\ disk[b] \in Seq(Record) /\ l \in Nat
      /\ \A i \in 1 .. l : disk[b][i].offset = b + i - 1
  BY <1>1, FilesInOrder
<1>3. /\ out \in Seq(Record) /\ p \in Nat /\ p <= max
      /\ \A i \in 1 .. p : out[i].offset >= from /\ out[i].offset < b
      /\ \A i \in 1 .. p - 1 : out[i].offset < out[i + 1].offset
      /\ \A i \in 1 .. p : out[i] \in Record
  BY ElementOfSeq DEF Ascends
<1> DEFINE rem == max - p
<1>4. rem \in Nat
  BY <1>3
<1>5. /\ r \in Seq(Record) /\ q <= rem /\ q \in Nat
      /\ \A j \in 1 .. q : k + j \in 1 .. l /\ r[j] = disk[b][k + j]
  <2>1. Reads(b, from, rem, r)
    <3> HIDE DEF rem
    <3>1. b \in Nat /\ disk[b] \in Seq(Record) /\ segs[b] \in Nat /\ rem \in Nat
      BY <1>1, <1>2, <1>4
    <3>2. Reads(b, from, rem, ReadFrom(b, from, rem))
      BY <3>1, ReadFromIs
    <3> QED BY <3>2 DEF rem
  <2> HIDE DEF rem, r
  <2>2. q \in Nat /\ q <= rem
    BY <1>4, <2>1 DEF Reads
  <2> QED BY <2>1, <2>2 DEF Reads
<1>6. k \in Nat /\ b + k >= from
  BY <1>2 DEF Skipped
<1>7. /\ d \in Seq(Record) /\ Len(d) = p + q
      /\ \A i \in 1 .. p : d[i] = out[i]
      /\ \A j \in 1 .. q : d[p + j] = r[j]
  <2>1. /\ d \in Seq(Record) /\ Len(d) = p + q
        /\ \A i \in 1 .. p + q : d[i] = IF i <= p THEN out[i] ELSE r[i - p]
    BY <1>3, <1>5, ConcatProperties
  <2> HIDE DEF d, p, q, r
  <2>2. \A i \in 1 .. p : i \in 1 .. p + q /\ i <= p
    BY <1>3, <1>5
  <2>3. \A j \in 1 .. q : p + j \in 1 .. p + q /\ ~(p + j <= p) /\ p + j - p = j
    BY <1>3, <1>5
  <2>4. \A i \in 1 .. p : d[i] = out[i]
    BY <2>1, <2>2
  <2>5. ASSUME NEW j \in 1 .. q PROVE d[p + j] = r[j]
    <3> DEFINE i == p + j
    <3>1. i \in 1 .. p + q /\ ~(i <= p) /\ i - p = j
      BY <1>3, <1>5, <2>5
    <3> HIDE DEF i
    <3>2. d[i] = r[j]
      BY <2>1, <3>1
    <3> QED BY <3>2 DEF i
  <2> QED BY <2>1, <2>4, <2>5
<1> HIDE DEF p, q, d, r, l, k
<1>8. \A j \in 1 .. q : r[j].offset = b + (k + j) - 1
  BY <1>2, <1>5
<1>9. Len(d) <= max
  BY <1>3, <1>5, <1>7
<1>10. ASSUME NEW i \in 1 .. Len(d) PROVE d[i].offset >= from /\ d[i].offset < b + l
  <2>1. CASE i <= p
    <3>1. i \in 1 .. p
      BY <1>3, <2>1
    <3>2. d[i].offset >= from /\ d[i].offset < b /\ d[i].offset \in Nat
      BY <1>3, <1>7, <3>1 DEF Record
    <3> QED BY <1>2, <3>2
  <2>2. CASE ~(i <= p)
    <3> DEFINE j == i - p
    <3>1. j \in 1 .. q /\ i = p + j
      BY <1>3, <1>5, <1>7, <2>2
    <3> HIDE DEF j
    <3>2. d[i].offset = b + (k + j) - 1 /\ k + j \in 1 .. l
      BY <1>5, <1>7, <1>8, <3>1
    <3> QED BY <1>2, <1>5, <1>6, <3>1, <3>2
  <2> QED BY <2>1, <2>2
<1>11. ASSUME NEW i \in 1 .. Len(d) - 1 PROVE d[i].offset < d[i + 1].offset
  <2>1. CASE i < p
    <3>1. i \in 1 .. p /\ i + 1 \in 1 .. p /\ i \in 1 .. p - 1
      BY <1>3, <2>1
    <3> QED BY <1>3, <1>7, <3>1
  <2>2. CASE i = p
    <3>1. i \in 1 .. p /\ 1 \in 1 .. q /\ i + 1 = p + 1
      BY <1>3, <1>5, <1>7, <2>2
    <3>2. d[i] = out[i] /\ out[i].offset < b /\ out[i].offset \in Nat
      BY <1>3, <1>7, <3>1 DEF Record
    <3>3. d[i + 1].offset = b + (k + 1) - 1
      BY <1>7, <1>8, <3>1
    <3>4. b + (k + 1) - 1 >= b
      BY <1>2, <1>6
    <3> QED BY <1>2, <1>6, <3>2, <3>3, <3>4
  <2>3. CASE i > p
    <3> DEFINE j == i - p
    <3>1. j \in 1 .. q /\ j + 1 \in 1 .. q /\ i = p + j /\ i + 1 = p + (j + 1)
      BY <1>3, <1>5, <1>7, <2>3
    <3> HIDE DEF j
    <3>2. d[i].offset = b + (k + j) - 1 /\ d[i + 1].offset = b + (k + (j + 1)) - 1
      BY <1>7, <1>8, <3>1
    <3> QED BY <1>2, <1>5, <1>6, <3>1, <3>2
  <2> QED BY <1>3, <2>1, <2>2, <2>3
<1> QED
  BY <1>7, <1>9, <1>10, <1>11 DEF Ascends, d, r, l, p

\* What every round of the loop has collected is in ascending order: the first
\* segment for which it were not would come after one for which it is.
LEMMA CollectedAscends ==
    ASSUME FileInv, up, Intact, NEW from \in Nat, NEW max \in Nat
    PROVE  \A b \in DOMAIN segs : Ascends(Collected(from, max)[b], from, max, b + Len(disk[b]))
<1> DEFINE upto == Collected(from, max)
           Good(b) == Ascends(upto[b], from, max, b + Len(disk[b]))
           Bad == {b \in DOMAIN segs : ~Good(b)}
<1>1. DOMAIN segs \subseteq DOMAIN disk /\ DOMAIN segs \in SUBSET Nat /\ DOMAIN disk \in SUBSET Nat
  BY DEF FileInv, FileType, MemoryInv
<1>2. ASSUME NEW b \in DOMAIN segs PROVE upto[b] = Round(upto, b, from, max)
  <2>1. PICK top : IsTop(DOMAIN disk, top)
    BY <1>1, <1>2 DEF FileInv, MemoryInv
  <2>2. top \in Nat /\ \A c \in DOMAIN segs : c <= top
    BY <1>1, <2>1 DEF IsTop
  <2> HIDE DEF upto
  <2>3. \A c \in DOMAIN segs : Collected(from, max)[c] = Round(Collected(from, max), c, from, max)
    BY <1>1, <2>2, CollectedRounds
  <2> QED BY <1>2, <2>3 DEF upto
<1> HIDE DEF upto
<1>3. ASSUME NEW b \in DOMAIN segs, \A c \in DOMAIN segs : c < b => Good(c)
      PROVE  Good(b)
  <2> DEFINE out == IF Before(b) = {} THEN <<>> ELSE upto[Max(Before(b))]
  <2>1. b \in Nat /\ b \in DOMAIN disk
    BY <1>1
  <2>2. upto[b] = out \o ReadFrom(b, from, max - Len(out))
    BY <1>2, <1>3 DEF Round
  <2>3. CASE Before(b) = {}
    <3>1. out = <<>>
      BY <2>3
    <3> HIDE DEF out
    <3>2. Len(out) = 0 /\ out \in Seq(Record) /\ 1 .. 0 = {} /\ 1 .. 0 - 1 = {}
      BY <3>1
    <3>3. Ascends(out, from, max, b)
      BY <3>2 DEF Ascends
    <3> QED BY <2>2, <3>3, RoundAscends
  <2>4. CASE Before(b) # {}
    <3> DEFINE c == Max(Before(b))
    <3>1. c \in DOMAIN segs /\ c < b /\ out = upto[c]
      BY <1>1, <2>1, <2>4, SegmentBefore
    <3> HIDE DEF c, out
    <3>2. Ascends(out, from, max, c + Len(disk[c]))
      BY <1>3, <3>1
    <3>3. c \in DOMAIN disk /\ c \in Nat /\ Len(disk[c]) \in Nat /\ c + Len(disk[c]) <= b
      <4>1. c \in DOMAIN disk
        BY <1>1, <3>1
      <4> QED
        BY <2>1, <3>1, <4>1, FilesInOrder
    <3> DEFINE e == c + Len(disk[c])
    <3>4. e \in Nat /\ e <= b /\ Ascends(out, from, max, e)
      BY <3>2, <3>3
    <3> HIDE DEF e
    <3>5. Ascends(out, from, max, b)
      <4>1. \A i \in 1 .. Len(out) : out[i] \in Record
        BY <3>4, ElementOfSeq DEF Ascends
      <4>2. \A i \in 1 .. Len(out) : out[i].offset < b
        BY <2>1, <3>4, <4>1 DEF Ascends, Record
      <4> QED BY <3>4, <4>2 DEF Ascends
    <3> QED BY <2>2, <3>5, RoundAscends
  <2> QED BY <2>3, <2>4
<1> HIDE DEF Good
<1>4. Bad = {}
  <2> SUFFICES ASSUME Bad # {} PROVE FALSE
    OBVIOUS
  <2>1. PICK b \in Bad : \A x \in Bad : b <= x
    <3>1. Bad \in SUBSET Nat
      BY <1>1
    <3> QED BY <3>1, MinProperties
  <2>2. \A c \in DOMAIN segs : c < b => Good(c)
    BY <1>1, <2>1
  <2> QED BY <1>3, <2>1, <2>2
<1> QED
  BY <1>4 DEF Good, upto

\* Whatever file operations fail, until a failed write leaves its frame behind a
\* fetch returns at most max records, at or after the requested offset, in
\* ascending order and none twice.
THEOREM FetchInOrder == Spec => []FetchAscending
<1>1. FileInv => FetchAscending
  <2> SUFFICES ASSUME FileInv, up, Intact,
                      NEW from \in 0 .. MaxOffset + 1, NEW max \in 0 .. MaxBatch + 1
               PROVE  LET out == Fetch(from, max)
                      IN  /\ Len(out) <= max
                          /\ \A i \in 1 .. Len(out) : out[i].offset >= from
                          /\ \A i \in 1 .. Len(out) - 1 : out[i].offset < out[i + 1].offset
    BY DEF FetchAscending, Unlocked
  <2> DEFINE eff == IF from >= start_offset THEN from ELSE start_offset
             out == Fetch(from, max)
  <2>1. from \in Nat /\ max \in Nat /\ eff \in Nat /\ eff >= from
    BY FileBoundAssumption DEF FileInv, FileType
  <2>2. out = IF DOMAIN segs = {} THEN <<>> ELSE Collected(eff, max)[Active]
    BY DEF Fetch
  <2> HIDE DEF eff, out
  <2>3. CASE DOMAIN segs = {}
    <3>1. Len(out) = 0 /\ 1 .. 0 = {} /\ 1 .. 0 - 1 = {}
      BY <2>2, <2>3
    <3> QED BY <2>1, <3>1 DEF out
  <2>4. CASE DOMAIN segs # {}
    <3>1. Active \in DOMAIN segs
      <4>1. DOMAIN segs \in SUBSET Nat /\ DOMAIN segs \subseteq DOMAIN disk
        BY DEF FileInv, FileType, MemoryInv
      <4>2. PICK m : IsTop(DOMAIN disk, m)
        BY <2>4, <4>1 DEF FileInv, MemoryInv
      <4>3. IsTop(DOMAIN segs, m)
        BY <4>1, <4>2 DEF FileInv, MemoryInv, IsTop
      <4>4. Max(DOMAIN segs) = m
        BY <4>1, <4>3, MaxProperties
      <4> QED BY <4>3, <4>4 DEF Active, IsTop
    <3> DEFINE bound == Active + Len(disk[Active])
    <3>2. Ascends(out, eff, max, bound)
      BY <2>1, <2>2, <2>4, <3>1, CollectedAscends
    <3> HIDE DEF bound
    <3>3. \A i \in 1 .. Len(out) : out[i] \in Record
      BY <3>2, ElementOfSeq DEF Ascends
    <3>4. \A i \in 1 .. Len(out) : out[i].offset >= from
      BY <2>1, <3>2, <3>3 DEF Ascends, Record
    <3> QED BY <3>2, <3>4 DEF Ascends, out
  <2> QED BY <2>3, <2>4
<1> QED
  BY <1>1, FileInit, FileStep, PTL DEF Spec

\* How many of the records from an offset on lie below another one, at most max,
\* and the sequence of them.
CountTo(from, max, bound) ==
    IF bound - from <= 0 THEN 0 ELSE IF bound - from <= max THEN bound - from ELSE max
IsSlice(out, from, max, bound) ==
    /\ out \in Seq(Record) /\ Len(out) = CountTo(from, max, bound)
    /\ \A i \in 1 .. Len(out) : out[i] = DiskRecords[from + i - 1]

\* Every frame of every file is the record of the log at its offset.
LEMMA FrameIsRecord ==
    ASSUME FileInv, DenseInv, up, NEW b \in DOMAIN disk, NEW i \in 1 .. Len(disk[b])
    PROVE  DiskRecords[b + i - 1] = disk[b][i] /\ disk[b][i].offset = b + i - 1
<1> DEFINE l == Len(disk[b])
           o == b + i - 1
<1>1. DOMAIN disk \in SUBSET Nat /\ b \in Nat /\ i \in Nat /\ l \in Nat /\ disk[b][i] # Torn
  BY RunningFilesWhole DEF FileInv, FileType, DenseInv
<1>2. disk[b][i].offset = o
  BY <1>1 DEF DenseInv, DenseFiles
<1>3. next_offset = DiskNext /\ start_offset = DiskHead /\ start_offset <= b /\ o < next_offset
      /\ start_offset \in Nat /\ next_offset \in Nat
  <2>1. next_offset = DiskNext /\ start_offset = DiskHead /\ start_offset <= b
        /\ start_offset \in Nat /\ next_offset \in Nat
    BY MemoryAgreesWithDisk DEF MemoryAgrees, DenseInv, Mirrored, FileInv, FileType
  <2>2. PICK m : IsTop(DOMAIN disk, m)
    BY DEF FileInv, MemoryInv
  <2>3. m \in DOMAIN disk /\ m \in Nat /\ b <= m /\ next_offset = m + Len(disk[m]) /\ Len(disk[m]) \in Nat
    BY <2>2 DEF IsTop, FileInv, MemoryInv, FileType, DenseInv, Mirrored
  <2>4. CASE b = m
    BY <1>1, <2>1, <2>3, <2>4
  <2>5. CASE b < m
    <3>1. b + l <= m
      BY <2>3, <2>5 DEF DenseInv, DenseFiles
    <3> QED BY <1>1, <2>1, <2>3, <3>1
  <2> QED BY <1>1, <2>1, <2>3, <2>4, <2>5
<1>4. o \in Nat /\ o \in DiskHead .. DiskNext - 1 /\ b <= o /\ o < b + l /\ o - b + 1 = i
  BY <1>1, <1>3
<1>5. \A c \in DOMAIN disk : b < c => b + l <= c
  BY DEF DenseInv, DenseFiles
<1> HIDE DEF o, l
<1>6. IsTop({c \in DOMAIN disk : c <= o}, b)
  <2>1. ASSUME NEW c \in DOMAIN disk, c <= o PROVE c <= b
    <3>1. c \in Nat /\ b \in Nat /\ l \in Nat /\ o \in Nat /\ o < b + l /\ (b < c => b + l <= c)
      BY <1>1, <1>4, <1>5
    <3> QED BY <2>1, <3>1
  <2> QED BY <1>4, <2>1 DEF IsTop
<1>7. FileOf(o) = b
  BY <1>1, <1>4, <1>6, FileOfIs
<1>8. DiskRecords[o] = disk[b][o - b + 1]
  BY <1>4, <1>7 DEF DiskRecords
<1> QED
  BY <1>2, <1>4, <1>8 DEF o

\* One round extends the slice to the end of its segment.
LEMMA RoundSlices ==
    ASSUME FileInv, DenseInv, up, NEW b \in DOMAIN segs, NEW from \in Nat, NEW max \in Nat,
           NEW out, IsSlice(out, from, max, b)
    PROVE  IsSlice(out \o ReadFrom(b, from, max - Len(out)), from, max, b + Len(disk[b]))
<1> DEFINE p == Len(out)
           rem == max - p
           r == ReadFrom(b, from, rem)
           q == Len(r)
           d == out \o r
           l == Len(disk[b])
           k == Skipped(b, from)
           n == Left(b, from)
<1>1. /\ b \in DOMAIN disk /\ segs[b] = l /\ b \in Nat /\ l \in Nat /\ disk[b] \in Seq(Record)
  BY RunningFilesWhole DEF FileInv, FileType, DenseInv, Mirrored
<1>2. /\ out \in Seq(Record) /\ p \in Nat /\ p = CountTo(from, max, b)
      /\ \A i \in 1 .. p : out[i] = DiskRecords[from + i - 1]
  BY DEF IsSlice
<1>3. rem \in Nat
  BY <1>1, <1>2 DEF CountTo
<1>4. /\ r \in Seq(Record) /\ q \in Nat /\ q = (IF rem <= n THEN rem ELSE n) /\ n \in Nat
      /\ \A j \in 1 .. q : k + j \in 1 .. l /\ r[j] = disk[b][k + j]
  <2> HIDE DEF rem
  <2>1. segs[b] \in Nat
    BY <1>1
  <2>2. Reads(b, from, rem, r)
    BY <1>1, <1>3, <2>1, ReadFromIs
  <2> HIDE DEF r
  <2> QED
    BY <1>3, <2>2 DEF Reads
<1>5. k = (IF from >= b THEN from - b ELSE 0) /\ n = (IF from >= b + l \/ l <= k THEN 0 ELSE l - k)
  BY <1>1 DEF Skipped, Left
<1>6. /\ d \in Seq(Record) /\ Len(d) = p + q
      /\ \A i \in 1 .. p + q : d[i] = IF i <= p THEN out[i] ELSE r[i - p]
  BY <1>2, <1>4, ConcatProperties
<1>7. rem = max - p
  OBVIOUS
<1> HIDE DEF p, rem, r, q, d, l, k, n
<1>8. p + q = CountTo(from, max, b + l) /\ (q > 0 => b + k = from + p) /\ k \in Nat
  <2>1. CASE from >= b
    <3>1. p = 0 /\ k = from - b /\ rem = max /\ k \in Nat
      BY <1>1, <1>2, <1>5, <1>7, <2>1 DEF CountTo
    <3>2. n = IF b + l - from <= 0 THEN 0 ELSE b + l - from
      BY <1>1, <1>5, <3>1
    <3> QED
      BY <1>1, <1>4, <3>1, <3>2 DEF CountTo
  <2>2. CASE ~(from >= b)
    <3>1. k = 0 /\ n = l /\ p = IF b - from <= max THEN b - from ELSE max
      BY <1>1, <1>2, <1>5, <2>2 DEF CountTo
    <3>2. /\ b \in Nat /\ l \in Nat /\ p \in Nat /\ q \in Nat /\ rem \in Nat /\ rem = max - p
          /\ q = (IF rem <= l THEN rem ELSE l) /\ b > from
      BY <1>1, <1>2, <1>3, <1>4, <1>7, <2>2, <3>1
    <3>3. CASE b - from <= max
      <4>1. p = b - from /\ rem = max - (b - from)
        BY <3>1, <3>2, <3>3
      <4>2. p + q = IF b + l - from <= max THEN b + l - from ELSE max
        BY <3>2, <4>1
      <4>3. b + l - from > 0 /\ b + k = from + p
        BY <3>1, <3>2, <4>1
      <4> QED BY <3>1, <3>2, <4>2, <4>3 DEF CountTo
    <3>4. CASE ~(b - from <= max)
      <4>1. p = max /\ rem = 0 /\ q = 0 /\ p + q = max
        BY <3>1, <3>2, <3>4
      <4>2. b + l - from > max /\ b + l - from \in Nat
        BY <3>2, <3>4
      <4>3. ~(b + l - from <= 0) /\ ~(b + l - from <= max)
        BY <4>2
      <4>4. CountTo(from, max, b + l) = max
        BY <3>2, <4>2, <4>3 DEF CountTo
      <4>5. ~(q > 0) /\ k \in Nat
        BY <3>1, <4>1
      <4> QED BY <4>1, <4>4, <4>5
    <3> QED BY <3>3, <3>4
  <2> QED BY <2>1, <2>2
<1>9. ASSUME NEW i \in 1 .. p + q PROVE d[i] = DiskRecords[from + i - 1]
  <2>1. CASE i <= p
    <3>1. i \in 1 .. p
      BY <1>2, <2>1
    <3> QED BY <1>2, <1>6, <2>1, <3>1
  <2>2. CASE ~(i <= p)
    <3> DEFINE j == i - p
               t == k + j
               o == from + i - 1
    <3>1. j \in 1 .. q /\ d[i] = r[j] /\ q > 0
      BY <1>2, <1>4, <1>6, <2>2
    <3>2. t \in 1 .. l /\ d[i] = disk[b][t] /\ o = b + t - 1
      <4>1. o = b + t - 1
        <5>1. i \in Int /\ p \in Nat /\ k \in Nat /\ b \in Nat /\ b + k = from + p
          BY <1>1, <1>2, <1>4, <1>8, <3>1
        <5> QED BY <5>1
      <4> HIDE DEF j
      <4>2. t \in 1 .. l /\ r[j] = disk[b][t]
        BY <1>4, <3>1
      <4> QED BY <3>1, <4>1, <4>2
    <3> HIDE DEF j, t, o
    <3>3. DiskRecords[b + t - 1] = disk[b][t]
      BY <1>1, <3>2, FrameIsRecord DEF l
    <3> QED BY <3>2, <3>3 DEF o
  <2> QED BY <2>1, <2>2
<1> QED
  BY <1>6, <1>8, <1>9 DEF IsSlice, d, r, rem, p, l

\* What every round of the loop has collected is a slice of the log.
LEMMA CollectedSlices ==
    ASSUME FileInv, DenseInv, up, NEW from \in Nat, NEW max \in Nat, start_offset <= from
    PROVE  \A b \in DOMAIN segs : IsSlice(Collected(from, max)[b], from, max, b + Len(disk[b]))
<1> DEFINE upto == Collected(from, max)
           Good(b) == IsSlice(upto[b], from, max, b + Len(disk[b]))
           Bad == {b \in DOMAIN segs : ~Good(b)}
<1>1. DOMAIN segs = DOMAIN disk /\ DOMAIN segs \in SUBSET Nat /\ start_offset \in Nat
  BY DEF FileInv, FileType, DenseInv, Mirrored
<1>2. ASSUME NEW b \in DOMAIN segs PROVE upto[b] = Round(upto, b, from, max)
  <2>1. PICK top : IsTop(DOMAIN disk, top)
    BY <1>1, <1>2 DEF FileInv, MemoryInv
  <2>2. top \in Nat /\ \A c \in DOMAIN segs : c <= top
    BY <1>1, <2>1 DEF IsTop
  <2> HIDE DEF upto
  <2>3. \A c \in DOMAIN segs : Collected(from, max)[c] = Round(Collected(from, max), c, from, max)
    BY <1>1, <2>2, CollectedRounds
  <2> QED BY <1>2, <2>3 DEF upto
<1> HIDE DEF upto
<1>3. ASSUME NEW b \in DOMAIN segs, \A c \in DOMAIN segs : c < b => Good(c)
      PROVE  Good(b)
  <2> DEFINE out == IF Before(b) = {} THEN <<>> ELSE upto[Max(Before(b))]
  <2>1. b \in Nat /\ b \in DOMAIN disk
    BY <1>1
  <2>2. upto[b] = out \o ReadFrom(b, from, max - Len(out))
    BY <1>2, <1>3 DEF Round
  <2>3. CASE Before(b) = {}
    <3>1. out = <<>>
      BY <2>3
    <3>2. start_offset \in DOMAIN segs
      BY <1>1, <2>1 DEF DenseInv, Mirrored
    <3>3. ~(start_offset < b)
      BY <2>3, <3>2 DEF Before
    <3>4. CountTo(from, max, b) = 0
      BY <1>1, <2>1, <3>3 DEF CountTo
    <3> HIDE DEF out
    <3>5. Len(out) = 0 /\ out \in Seq(Record) /\ 1 .. 0 = {}
      BY <3>1
    <3>6. IsSlice(out, from, max, b)
      BY <3>4, <3>5 DEF IsSlice
    <3> QED BY <2>2, <3>6, RoundSlices
  <2>4. CASE Before(b) # {}
    <3> DEFINE c == Max(Before(b))
    <3>1. /\ c \in DOMAIN segs /\ c < b /\ out = upto[c]
          /\ \A x \in DOMAIN segs : x < b => x <= c
      BY <1>1, <2>1, <2>4, SegmentBefore
    <3> HIDE DEF c, out
    <3>2. IsSlice(out, from, max, c + Len(disk[c]))
      BY <1>3, <3>1
    <3>3. c + Len(disk[c]) = b
      <4> DEFINE e == c + Len(disk[c])
      <4>1. c \in DOMAIN disk /\ c \in Nat
        BY <1>1, <3>1
      <4>2. Len(disk[c]) \in Nat
        BY <4>1, RunningFilesWhole
      <4>3. Len(disk[c]) > 0 /\ e \in DOMAIN disk /\ e <= b
        BY <2>1, <3>1, <4>1 DEF DenseInv, DenseFiles
      <4>4. e \in Nat /\ ~(e <= c)
        BY <4>1, <4>2, <4>3
      <4> HIDE DEF e
      <4>5. ~(e < b)
        BY <1>1, <3>1, <4>3, <4>4
      <4>6. e = b
        BY <2>1, <4>3, <4>4, <4>5
      <4> QED BY <4>6 DEF e
    <3>4. IsSlice(out, from, max, b)
      BY <3>2, <3>3
    <3> QED BY <2>2, <3>4, RoundSlices
  <2> QED BY <2>3, <2>4
<1> HIDE DEF Good
<1>4. Bad = {}
  <2> SUFFICES ASSUME Bad # {} PROVE FALSE
    OBVIOUS
  <2>1. PICK b \in Bad : \A x \in Bad : b <= x
    <3>1. Bad \in SUBSET Nat
      BY <1>1
    <3> QED BY <3>1, MinProperties
  <2>2. \A c \in DOMAIN segs : c < b => Good(c)
    BY <1>1, <2>1
  <2> QED BY <1>3, <2>1, <2>2
<1> QED
  BY <1>4 DEF Good, upto

\* fetch is the slice of the log the directory stands for.
LEMMA FetchIsSlice ==
    ASSUME FileInv, DenseInv, up, NEW from \in Nat, NEW max \in Nat
    PROVE  FetchResult(from, max) = CL!FetchOutcome(from, max)
<1> DEFINE e == IF from >= start_offset THEN from ELSE start_offset
           k == CL!FetchCount(from, max)
           out == Fetch(from, max)
<1>1. start_offset \in Nat /\ next_offset \in Nat /\ next_offset = DiskNext /\ start_offset = DiskHead
  BY MemoryAgreesWithDisk DEF MemoryAgrees, FileInv, FileType
<1>2. e \in Nat /\ start_offset <= e /\ e = CL!FetchStart(from)
  BY <1>1 DEF CL!FetchStart
<1>3. k = CountTo(e, max, next_offset)
  BY <1>1, <1>2 DEF CL!FetchCount, CountTo
<1>4. out = IF DOMAIN segs = {} THEN <<>> ELSE Collected(e, max)[Active]
  BY DEF Fetch
<1>5. CL!Slice(from, max) = [i \in 1 .. k |-> DiskRecords[e + i - 1]]
  BY <1>2 DEF CL!Slice
<1>6. FetchResult(from, max) = [records |-> out,
                                next_offset |-> IF out # <<>> THEN Last(out).offset + 1 ELSE e,
                                high_watermark |-> next_offset]
  BY DEF FetchResult
<1>7. CL!FetchOutcome(from, max) = [records |-> CL!Slice(from, max),
                                    next_offset |-> e + k, high_watermark |-> next_offset]
  BY <1>1, <1>2 DEF CL!FetchOutcome
<1> HIDE DEF e, k, out
<1>8. k \in Nat /\ (k > 0 => e + k <= next_offset)
  BY <1>1, <1>2, <1>3 DEF CountTo
<1>9. IsSlice(out, e, max, next_offset)
  <2>1. CASE DOMAIN segs = {}
    <3>1. next_offset = 0
      BY <2>1 DEF DenseInv, Mirrored
    <3>2. k = 0
      BY <1>2, <1>3, <3>1 DEF CountTo
    <3>3. Len(out) = 0 /\ out \in Seq(Record) /\ 1 .. 0 = {}
      BY <1>4, <2>1
    <3> QED BY <1>3, <3>2, <3>3 DEF IsSlice
  <2>2. CASE DOMAIN segs # {}
    <3>1. DOMAIN segs = DOMAIN disk /\ DOMAIN disk \in SUBSET Nat
      BY DEF DenseInv, Mirrored, FileInv, FileType
    <3>2. PICK m : IsTop(DOMAIN disk, m)
      BY <2>2, <3>1 DEF FileInv, MemoryInv
    <3>3. m \in DOMAIN segs /\ Active = m
      BY <3>1, <3>2, MaxProperties DEF Active, IsTop
    <3>4. next_offset = m + Len(disk[m])
      BY <3>1, <3>2, <3>3 DEF DenseInv, Mirrored, FileInv, MemoryInv
    <3>5. IsSlice(Collected(e, max)[m], e, max, m + Len(disk[m]))
      BY <1>2, <3>3, CollectedSlices
    <3> QED BY <1>4, <2>2, <3>3, <3>4, <3>5
  <2> QED BY <2>1, <2>2
<1>10. /\ out \in Seq(Record) /\ Len(out) = k /\ DOMAIN out = 1 .. k
       /\ \A i \in 1 .. k : out[i] = DiskRecords[e + i - 1]
  BY <1>3, <1>9 DEF IsSlice
<1>11. out = CL!Slice(from, max)
  <2>1. out = [i \in 1 .. k |-> out[i]]
    BY <1>10
  <2> QED BY <1>5, <1>10, <2>1
<1>12. CASE k = 0
  <2>1. out = <<>> /\ e + k = e
    BY <1>2, <1>10, <1>12
  <2> QED BY <1>6, <1>7, <1>11, <2>1
<1>13. CASE k # 0
  <2> DEFINE o == e + k - 1
  <2>1. k \in 1 .. k /\ out # <<>> /\ Last(out) = out[k]
    BY <1>8, <1>10, <1>13 DEF Last
  <2>2. o \in DiskHead .. DiskNext - 1 /\ o + 1 = e + k
    BY <1>1, <1>2, <1>8, <1>13
  <2> HIDE DEF o
  <2>3. out[k] = DiskRecords[o]
    BY <1>10, <2>1 DEF o
  <2>4. out[k].offset = o
    <3> DEFINE b == FileOf(o)
               i == o - b + 1
    <3>1. o \in Nat /\ b \in DOMAIN disk /\ i \in 1 .. Len(disk[b])
      BY <2>2, LocateRecord
    <3>2. b \in Nat
      BY <3>1 DEF FileInv, FileType
    <3>3. b + i - 1 = o
      BY <3>1, <3>2
    <3> HIDE DEF b, i
    <3>4. DiskRecords[b + i - 1] = disk[b][i] /\ disk[b][i].offset = b + i - 1
      BY <3>1, FrameIsRecord
    <3> QED BY <2>3, <3>3, <3>4
  <2>5. Last(out).offset + 1 = e + k
    BY <2>1, <2>2, <2>4
  <2> QED BY <1>6, <1>7, <1>11, <2>1, <2>5
<1> QED
  BY <1>12, <1>13

\* Where flushes and removals do not fail, fetch returns between calls exactly
\* the retained records from the requested offset on, across segment boundaries
\* and after recovery, and where to go on (PartitionState::fetch).
THEOREM FileFetchCorrect ==
    ASSUME OnlyCreateFails
    PROVE  Spec => []FetchCorrect
<1>1. FileInv /\ DenseInv => FetchCorrect
  <2> SUFFICES ASSUME FileInv, DenseInv, up,
                      NEW from \in 0 .. MaxOffset + 1, NEW max \in 0 .. MaxBatch + 1
               PROVE  FetchResult(from, max) = CL!FetchOutcome(from, max)
    BY DEF FetchCorrect, Unlocked
  <2>1. from \in Nat /\ max \in Nat
    BY FileBoundAssumption
  <2> QED
    BY <2>1, FetchIsSlice
<1>2. FileInv /\ DenseInv /\ [Next]_vars => DenseInv'
  BY DenseStep
<1> QED
  BY <1>1, <1>2, FileInit, FileStep, DenseInit, PTL DEF Spec

=============================================================================
