------------------------ MODULE TopicCatalogue_proofs -------------------------
(***************************************************************************)
(* Proofs about TopicCatalogue, for every set of topic names and every     *)
(* bound on partitions, records, failed file operations and restarts.      *)
(***************************************************************************)
EXTENDS TopicCatalogue, FiniteSetTheorems, WellFoundedInduction, TLAPS

-----------------------------------------------------------------------------
(* The inductive invariant                                                 *)

Creating == [pc : {"mkdir", "open", "write", "parts"}, topic : Topics, config : Configs,
             next : Nat]

Entry == [dir : BOOLEAN, meta : {Absent, Truncated} \cup Configs, parts : SUBSET Nat,
          start : [Partitions -> Nat], high : [Partitions -> Nat], hurt : SUBSET Partitions]

Topic == [config : {Absent} \cup Configs, start : [Partitions -> Nat],
          high : [Partitions -> Nat], stuck : SUBSET Partitions]

TypeInv ==
    /\ disk \in [Topics -> Entry]
    /\ topics \in [Topics -> Topic]
    /\ call \in Creating \/ call = NoCall
    /\ phase \in {"down", "opening", "up"}
    /\ unread \in SUBSET Topics
    /\ acked \in [Topics -> {Absent} \cup Configs]

\* What the tree on disk says by itself: an acknowledged topic is complete, a
\* topic.json lies in a directory, records belong to a configured partition.
DiskInv ==
    \A t \in Topics :
        /\ acked[t] # Absent => /\ disk[t].meta = acked[t]
                                /\ 0 .. acked[t] - 1 \subseteq disk[t].parts
        /\ disk[t].meta # Absent => disk[t].dir
        /\ \A p \in Partitions : /\ disk[t].high[p] > 0 \/ p \in disk[t].hurt => p < disk[t].meta
                                 /\ disk[t].start[p] <= disk[t].high[p]

\* Memory has the offsets of the files, a head that lags behind on disk apart.
Agrees(t) ==
    /\ topics[t].high = disk[t].high
    /\ \A p \in Partitions \ topics[t].stuck : topics[t].start[p] = disk[t].start[p]

\* How Inner.topics follows the disk: a closed store knows nothing, an opening
\* one knows what it has read, an open one everything that was acknowledged or
\* holds records.
MemoryInv ==
    /\ phase # "opening" => unread = {}
    /\ \A t \in Topics :
         /\ Known(t) => disk[t].meta = topics[t].config
         /\ ~Known(t) => topics[t].start = Zeros /\ topics[t].high = Zeros
         /\ \A p \in Partitions : topics[t].start[p] <= topics[t].high[p]
         /\ phase = "down" => ~Known(t)
         /\ phase = "opening" /\ t \notin unread /\ disk[t].meta \in Configs =>
              Known(t) /\ Agrees(t)
         /\ phase = "up" => /\ Agrees(t)
                            /\ acked[t] # Absent => Known(t)
                            /\ ~Known(t) => disk[t].hurt = {}

\* The create_topic in progress: its name is unknown, so it was not acknowledged
\* and holds no records, and its file operations have got as far as pc says.
CallInv ==
    call \in Creating =>
        /\ phase = "up"
        /\ ~Known(call.topic)
        /\ call.pc \in {"open", "write", "parts"} => disk[call.topic].dir
        /\ call.pc # "parts" => call.next = 0
        /\ call.pc = "parts" => /\ disk[call.topic].meta = call.config
                                /\ call.next <= call.config
                                /\ 0 .. call.next - 1 \subseteq disk[call.topic].parts

CatalogueInv == TypeInv /\ DiskInv /\ MemoryInv /\ CallInv

\* No call in progress is no create.
LEMMA NoCallIdle == NoCall.pc = "idle" /\ NoCall \notin Creating
<1>1. NoCall.pc = "idle"
  BY DEF NoCall
<1> QED
  BY <1>1 DEF Creating

\* An empty directory and a store that was never opened satisfy the invariant.
LEMMA CatalogueInit == Init => CatalogueInv
<1> SUFFICES ASSUME Init PROVE CatalogueInv
  OBVIOUS
<1>1. Zeros \in [Partitions -> Nat] /\ \A p \in Partitions : Zeros[p] = 0
  BY DEF Zeros
<1>2. \A t \in Topics :
        /\ disk[t] \in Entry /\ ~disk[t].dir /\ disk[t].meta = Absent
        /\ disk[t].start = Zeros /\ disk[t].high = Zeros /\ disk[t].hurt = {}
  BY <1>1 DEF Init, Entry
<1>3. /\ NoTopic \in Topic /\ NoTopic.config = Absent /\ NoTopic.start = Zeros
      /\ NoTopic.high = Zeros
      /\ \A t \in Topics : topics[t] = NoTopic
  BY <1>1 DEF Init, NoTopic, Topic
<1>4. TypeInv
  BY <1>2, <1>3 DEF Init, TypeInv
<1>5. DiskInv
  BY <1>1, <1>2 DEF Init, DiskInv
<1>6. MemoryInv
  BY <1>1, <1>2, <1>3 DEF Init, MemoryInv, Known
<1>7. CallInv
  BY NoCallIdle DEF Init, CallInv
<1> QED BY <1>4, <1>5, <1>6, <1>7 DEF CatalogueInv

\* The topic being created was not acknowledged and holds no records.
LEMMA CreatingFacts ==
    ASSUME CatalogueInv, call.pc # "idle"
    PROVE  /\ call \in Creating /\ call.topic \in Topics
           /\ phase = "up" /\ ~Known(call.topic)
           /\ acked[call.topic] = Absent /\ disk[call.topic].high = Zeros
           /\ disk[call.topic].start = Zeros /\ disk[call.topic].hurt = {}
<1>1. call \in Creating
  BY NoCallIdle DEF CatalogueInv, TypeInv
<1>2. call.topic \in Topics
  BY <1>1 DEF Creating
<1>3. phase = "up" /\ ~Known(call.topic)
  BY <1>1 DEF CatalogueInv, CallInv
<1>4. disk[call.topic].high = Zeros
  BY <1>2, <1>3 DEF CatalogueInv, MemoryInv, Agrees
<1>5. disk[call.topic].start = Zeros
  <2>1. disk[call.topic].start \in [Partitions -> Nat]
    BY <1>2 DEF CatalogueInv, TypeInv, Entry
  <2>2. \A p \in Partitions : disk[call.topic].start[p] = 0
    BY <1>2, <1>4, <2>1 DEF CatalogueInv, DiskInv, Zeros
  <2> QED BY <2>1, <2>2 DEF Zeros
<1> QED
  BY <1>1, <1>2, <1>3, <1>4, <1>5 DEF CatalogueInv, MemoryInv

\* Two states of a topic's directory with the same files in the partitions.
SameFiles(a, b) == a.start = b.start /\ a.high = b.high /\ a.hurt = b.hurt

\* A file operation of create_topic changes the entry of the topic being created
\* and nothing an acknowledged topic or a record depends on.
LEMMA CreateOperation ==
    ASSUME CatalogueInv, call.pc # "idle", NEW entry \in Entry,
           SameFiles(entry, disk[call.topic]), entry.meta # Absent => entry.dir,
           disk' = [disk EXCEPT ![call.topic] = entry],
           UNCHANGED <<topics, phase, unread, acked>>
    PROVE  DiskInv' /\ MemoryInv'
<1>1. /\ call.topic \in Topics /\ phase = "up" /\ ~Known(call.topic)
      /\ acked[call.topic] = Absent /\ disk[call.topic].high = Zeros
      /\ disk[call.topic].hurt = {}
  BY CreatingFacts
<1>2. disk'[call.topic] = entry /\ \A t \in Topics : t # call.topic => disk'[t] = disk[t]
  BY <1>1 DEF CatalogueInv, TypeInv
<1>3. \A t \in Topics : SameFiles(disk'[t], disk[t])
  BY <1>2 DEF SameFiles
<1>4. DiskInv'
  <2>1. \A p \in Partitions : ~(disk[call.topic].high[p] > 0) /\ p \notin disk[call.topic].hurt
    BY <1>1 DEF Zeros
  <2> QED
    BY <1>1, <1>2, <1>3, <2>1 DEF CatalogueInv, DiskInv, SameFiles
<1>5. MemoryInv'
  <2>1. \A t \in Topics : (Agrees(t)' <=> Agrees(t)) /\ (Known(t)' <=> Known(t))
    BY <1>3 DEF Agrees, Known, SameFiles
  <2> QED
    BY <1>1, <1>2, <1>3, <2>1 DEF CatalogueInv, MemoryInv, Known, SameFiles
<1> QED BY <1>4, <1>5

\* An append that got as far as the store, whatever it returned.
Stores(t, p, k, h) ==
    \E hurt \in SUBSET Partitions, stuck \in SUBSET Partitions :
        /\ hurt \subseteq disk[t].hurt \cup {p} /\ topics[t].stuck \subseteq stuck
        /\ Store(t, p, k, h, hurt, stuck)

\* Every append stores at most a record and moves the head at most up to it.
LEMMA AppendStores ==
    ASSUME CatalogueInv, NEW t \in Topics, NEW p \in Partitions,
           AppendRecord(t, p) \/ AppendFails(t, p) \/ RetentionFails(t, p)
    PROVE  /\ Appendable(t, p) /\ UNCHANGED <<call, phase, unread, acked, recovered>>
           /\ \E k \in 0 .. 1, h \in topics[t].start[p] .. topics[t].high[p] :
                /\ Stores(t, p, k, h)
                /\ \/ produced_total' = produced_total + k /\ unacked' = unacked
                   \/ produced_total' = produced_total /\ unacked' = unacked + k
<1>1. /\ disk[t].hurt \in SUBSET Partitions /\ topics[t].stuck \in SUBSET Partitions
      /\ topics[t].start[p] \in Nat /\ topics[t].high[p] \in Nat
      /\ topics[t].start[p] <= topics[t].high[p]
  BY DEF CatalogueInv, TypeInv, Entry, Topic, MemoryInv
<1>2. CASE AppendRecord(t, p)
  <2>1. PICK h \in topics[t].start[p] .. topics[t].high[p] :
          Store(t, p, 1, h, disk[t].hurt, topics[t].stuck)
    BY <1>2 DEF AppendRecord
  <2>2. Stores(t, p, 1, h)
    BY <1>1, <2>1 DEF Stores
  <2> QED BY <1>2, <2>2 DEF AppendRecord, history
<1>3. CASE AppendFails(t, p)
  <2>1. PICK k \in 0 .. 1, broken \in SUBSET {p} :
          /\ Store(t, p, k, topics[t].start[p], disk[t].hurt \cup broken, topics[t].stuck)
          /\ unacked' = unacked + k
    BY <1>3 DEF AppendFails
  <2>2. Stores(t, p, k, topics[t].start[p])
    BY <1>1, <2>1 DEF Stores
  <2>3. /\ Appendable(t, p) /\ UNCHANGED <<call, phase, unread, acked, recovered>>
        /\ produced_total' = produced_total
    BY <1>3 DEF AppendFails
  <2>4. topics[t].start[p] \in topics[t].start[p] .. topics[t].high[p]
    BY <1>1
  <2> QED BY <2>1, <2>2, <2>3, <2>4
<1>4. CASE RetentionFails(t, p)
  <2>1. PICK h \in topics[t].start[p] .. topics[t].high[p] :
          Store(t, p, 1, h, disk[t].hurt, topics[t].stuck \cup {p})
    BY <1>4 DEF RetentionFails
  <2>2. Stores(t, p, 1, h)
    BY <1>1, <2>1 DEF Stores
  <2> QED BY <1>4, <2>2 DEF RetentionFails
<1> QED BY <1>2, <1>3, <1>4

\* A function with another value at one place.
With(f, x, v) == [f EXCEPT ![x] = v]

\* What an append does to the topic, in memory and on disk.
LEMMA StoreProperties ==
    ASSUME TypeInv, NEW t \in Topics, NEW p \in Partitions, NEW k \in 0 .. 1,
           NEW h \in Nat, Stores(t, p, k, h)
    PROVE  /\ topics' \in [Topics -> Topic] /\ disk' \in [Topics -> Entry]
           /\ topics'[t].config = topics[t].config /\ disk'[t].meta = disk[t].meta
           /\ disk'[t].dir = disk[t].dir /\ disk'[t].parts = disk[t].parts
           /\ topics'[t].high = With(topics[t].high, p, topics[t].high[p] + k)
           /\ topics'[t].start = With(topics[t].start, p, h)
           /\ disk'[t].high = With(disk[t].high, p, disk[t].high[p] + k)
           /\ \E d \in {h, disk[t].start[p]} : /\ disk'[t].start = With(disk[t].start, p, d)
                                               /\ p \notin topics[t].stuck => d = h
           /\ disk'[t].hurt \subseteq disk[t].hurt \cup {p}
           /\ topics[t].stuck \subseteq topics'[t].stuck
           /\ \A u \in Topics : u # t => topics'[u] = topics[u] /\ disk'[u] = disk[u]
<1>1. PICK hurt \in SUBSET Partitions, stuck \in SUBSET Partitions :
        /\ hurt \subseteq disk[t].hurt \cup {p} /\ topics[t].stuck \subseteq stuck
        /\ Store(t, p, k, h, hurt, stuck)
  BY DEF Stores
<1>2. disk[t] \in Entry /\ topics[t] \in Topic
  BY DEF TypeInv
<1> DEFINE d == IF p \in topics[t].stuck THEN disk[t].start[p] ELSE h
           mhigh == With(topics[t].high, p, topics[t].high[p] + k)
           mstart == With(topics[t].start, p, h)
           dhigh == With(disk[t].high, p, disk[t].high[p] + k)
           dstart == With(disk[t].start, p, d)
           m == [topics[t] EXCEPT !.high = mhigh, !.start = mstart, !.stuck = stuck]
           e == [disk[t] EXCEPT !.high = dhigh, !.hurt = hurt, !.start = dstart]
<1>3. topics' = [topics EXCEPT ![t] = m] /\ disk' = [disk EXCEPT ![t] = e]
  BY <1>1 DEF Store, With
<1>4. /\ mhigh \in [Partitions -> Nat] /\ mstart \in [Partitions -> Nat]
      /\ dhigh \in [Partitions -> Nat] /\ dstart \in [Partitions -> Nat]
  BY <1>2 DEF Topic, Entry, With
<1>5. d \in {h, disk[t].start[p]} /\ (p \notin topics[t].stuck => d = h)
  OBVIOUS
<1> HIDE DEF d
<1>6. \E x \in {h, disk[t].start[p]} : /\ dstart = With(disk[t].start, p, x)
                                       /\ p \notin topics[t].stuck => x = h
  BY <1>5
<1> HIDE DEF mhigh, mstart, dhigh, dstart
<1>7. /\ m \in Topic /\ m.config = topics[t].config /\ m.high = mhigh /\ m.start = mstart
      /\ m.stuck = stuck
  BY <1>2, <1>4 DEF Topic
<1>8. /\ e \in Entry /\ e.meta = disk[t].meta /\ e.dir = disk[t].dir /\ e.parts = disk[t].parts
      /\ e.high = dhigh /\ e.start = dstart /\ e.hurt = hurt
  BY <1>2, <1>4 DEF Entry
<1> HIDE DEF m, e
<1>9. /\ topics'[t] = m /\ disk'[t] = e
      /\ topics' \in [Topics -> Topic] /\ disk' \in [Topics -> Entry]
      /\ \A u \in Topics : u # t => topics'[u] = topics[u] /\ disk'[u] = disk[u]
  BY <1>3, <1>7, <1>8 DEF TypeInv
<1> QED
  BY <1>1, <1>6, <1>7, <1>8, <1>9 DEF mhigh, mstart, dhigh

\* It keeps the invariant.
LEMMA StoreStep ==
    ASSUME CatalogueInv, NEW t \in Topics, NEW p \in Partitions, Appendable(t, p),
           NEW k \in 0 .. 1, NEW h \in topics[t].start[p] .. topics[t].high[p],
           Stores(t, p, k, h), UNCHANGED <<call, phase, unread, acked>>
    PROVE  CatalogueInv'
<1>0. TypeInv /\ DiskInv /\ MemoryInv /\ CallInv /\ topics[t] \in Topic /\ disk[t] \in Entry
  BY DEF CatalogueInv, TypeInv
<1>1. /\ h \in Nat /\ k \in Nat /\ topics[t].start[p] \in Nat /\ topics[t].high[p] \in Nat
      /\ h <= topics[t].high[p]
  BY <1>0 DEF Topic
<1>2. /\ Known(t) /\ phase = "up" /\ call.pc = "idle" /\ p < disk[t].meta
      /\ topics[t].high = disk[t].high
      /\ \A q \in Partitions \ topics[t].stuck : topics[t].start[q] = disk[t].start[q]
  BY <1>0 DEF Appendable, Free, MemoryInv, Agrees
<1>3. /\ topics' \in [Topics -> Topic] /\ disk' \in [Topics -> Entry]
      /\ topics'[t].config = topics[t].config /\ disk'[t].meta = disk[t].meta
      /\ disk'[t].dir = disk[t].dir /\ disk'[t].parts = disk[t].parts
      /\ topics'[t].high = With(topics[t].high, p, topics[t].high[p] + k)
      /\ topics'[t].start = With(topics[t].start, p, h)
      /\ disk'[t].high = With(disk[t].high, p, disk[t].high[p] + k)
      /\ disk'[t].hurt \subseteq disk[t].hurt \cup {p}
      /\ topics[t].stuck \subseteq topics'[t].stuck
      /\ \A u \in Topics : u # t => topics'[u] = topics[u] /\ disk'[u] = disk[u]
  BY <1>0, <1>1, StoreProperties
<1>4. PICK d \in {h, disk[t].start[p]} : /\ disk'[t].start = With(disk[t].start, p, d)
                                         /\ p \notin topics[t].stuck => d = h
  BY <1>0, <1>1, StoreProperties
<1>5. TypeInv'
  BY <1>0, <1>3 DEF TypeInv
<1>6. /\ \A q \in Partitions : /\ disk[t].high[q] \in Nat /\ disk[t].start[q] \in Nat
                               /\ disk[t].start[q] <= disk[t].high[q]
                               /\ topics[t].start[q] <= topics[t].high[q]
                               /\ q # p => /\ disk'[t].high[q] = disk[t].high[q]
                                           /\ disk'[t].start[q] = disk[t].start[q]
                                           /\ topics'[t].high[q] = topics[t].high[q]
                                           /\ topics'[t].start[q] = topics[t].start[q]
      /\ disk'[t].high[p] = disk[t].high[p] + k /\ disk'[t].start[p] = d
      /\ topics'[t].high[p] = disk[t].high[p] + k /\ topics'[t].start[p] = h
  BY <1>0, <1>2, <1>3, <1>4 DEF Entry, Topic, DiskInv, MemoryInv, With
<1>7. DiskInv'
  <2>1. \A q \in Partitions : /\ disk'[t].high[q] > 0 \/ q \in disk'[t].hurt => q < disk'[t].meta
                              /\ disk'[t].start[q] <= disk'[t].high[q]
    <3> SUFFICES ASSUME NEW q \in Partitions
                 PROVE  /\ disk'[t].high[q] > 0 \/ q \in disk'[t].hurt => q < disk'[t].meta
                        /\ disk'[t].start[q] <= disk'[t].high[q]
      OBVIOUS
    <3>1. CASE q = p
      BY <1>1, <1>2, <1>3, <1>4, <1>6, <3>1
    <3>2. CASE q # p
      BY <1>0, <1>3, <1>6, <3>2 DEF DiskInv
    <3> QED BY <3>1, <3>2
  <2> QED
    BY <1>0, <1>3, <2>1 DEF DiskInv
<1>8. MemoryInv'
  <2>1. Agrees(t)'
    <3>1. topics'[t].high = disk'[t].high
      BY <1>2, <1>3
    <3>2. \A q \in Partitions \ topics'[t].stuck : topics'[t].start[q] = disk'[t].start[q]
      BY <1>2, <1>3, <1>4, <1>6
    <3> QED BY <3>1, <3>2 DEF Agrees
  <2>2. \A u \in Topics : (Known(u)' <=> Known(u)) /\ (u # t => (Agrees(u)' <=> Agrees(u)))
    BY <1>3 DEF Known, Agrees
  <2>3. \A q \in Partitions : topics'[t].start[q] <= topics'[t].high[q]
    BY <1>1, <1>2, <1>6
  <2> QED
    BY <1>0, <1>2, <1>3, <2>1, <2>2, <2>3 DEF MemoryInv
<1>9. CallInv'
  BY <1>0, <1>2, NoCallIdle DEF CallInv, Creating
<1> QED BY <1>5, <1>7, <1>8, <1>9 DEF CatalogueInv

\* What recover does with the offsets it finds in the partitions of a topic.
Recovers(t, start, high) ==
    /\ \A p \in Partitions : /\ start[p] <= high[p]
                             /\ high[p] > 0 => p < disk[t].meta
    /\ disk' = [disk EXCEPT ![t] =
         [disk[t] EXCEPT !.parts = @ \cup 0 .. disk[t].meta - 1, !.start = start, !.high = high,
                         !.hurt = {}]]
    /\ topics' = [topics EXCEPT ![t] =
         [config |-> disk[t].meta, start |-> start, high |-> high, stuck |-> {}]]
    /\ recovered' = recovered + SumOf(high)

LEMMA RecoveredOffsets ==
    ASSUME TypeInv, NEW t \in Topics, RecoverTopic(t)
    PROVE  \E start, high \in [Partitions -> Nat] : Recovers(t, start, high)
<1> DEFINE c == disk[t].meta
<1>1. PICK start \in [Partitions -> 0 .. MaxRecords], high \in [Partitions -> 0 .. MaxRecords] :
        /\ \A p \in Partitions : /\ start[p] <= high[p]
                                 /\ IF p < c THEN RecoverPartition(t, p, start[p], high[p])
                                             ELSE high[p] = 0
        /\ disk' = [disk EXCEPT ![t] =
             [disk[t] EXCEPT !.parts = @ \cup 0 .. c - 1, !.start = start, !.high = high,
                             !.hurt = {}]]
        /\ topics' = [topics EXCEPT ![t] =
             [config |-> c, start |-> start, high |-> high, stuck |-> {}]]
        /\ recovered' = recovered + SumOf(high)
  BY DEF RecoverTopic
<1>2. start \in [Partitions -> Nat] /\ high \in [Partitions -> Nat]
  BY CatalogueAssumption
<1>3. \A p \in Partitions : start[p] <= high[p] /\ (high[p] > 0 => p < c)
  BY <1>1
<1> QED
  BY <1>1, <1>2, <1>3 DEF Recovers

\* Every file operation, failure, append, crash and step of recover keeps the
\* invariant.
LEMMA CatalogueStep == CatalogueInv /\ [Next]_vars => CatalogueInv'
<1> SUFFICES ASSUME CatalogueInv, [Next]_vars PROVE CatalogueInv'
  OBVIOUS
<1> USE CatalogueAssumption, NoCallIdle DEF CatalogueInv, Agrees, history
<1>1. ASSUME NEW t \in Topics, NEW c \in Configs, BeginCreate(t, c) PROVE CatalogueInv'
  <2>1. TypeInv'
    BY <1>1 DEF BeginCreate, TypeInv, Creating
  <2>2. DiskInv' /\ MemoryInv'
    BY <1>1 DEF BeginCreate, DiskInv, MemoryInv, Known
  <2>3. CallInv'
    <3>1. CASE Known(t)
      BY <1>1, <3>1 DEF BeginCreate, CallInv, Known
    <3>2. CASE ~Known(t)
      <4>1. call' = [pc |-> "mkdir", topic |-> t, config |-> c, next |-> 0] /\ phase' = "up"
        BY <1>1, <3>2 DEF BeginCreate, Free
      <4> QED
        BY <1>1, <3>2, <4>1 DEF BeginCreate, CallInv, Known
    <3> QED BY <3>1, <3>2
  <2> QED BY <2>1, <2>2, <2>3
<1>2. ASSUME NEW t \in Topics, NEW p \in Partitions,
             AppendRecord(t, p) \/ AppendFails(t, p) \/ RetentionFails(t, p)
      PROVE  CatalogueInv'
  BY <1>2, AppendStores, StoreStep
<1>3. ASSUME NEW t \in Topics, SkipEntry(t) PROVE CatalogueInv'
  <2>1. TypeInv' /\ DiskInv' /\ CallInv'
    BY <1>3 DEF SkipEntry, TypeInv, DiskInv, CallInv, Known
  <2>2. MemoryInv'
    BY <1>3 DEF SkipEntry, TypeInv, MemoryInv, Known, Configs, Absent
  <2> QED BY <2>1, <2>2
<1>4. ASSUME NEW t \in Topics, RecoverTopic(t) PROVE CatalogueInv'
  <2> DEFINE c == disk[t].meta
  <2>1. c \in Configs /\ phase = "opening" /\ call = NoCall /\ UNCHANGED <<call, phase, acked>>
        /\ unread' = unread \ {t}
    BY <1>4 DEF RecoverTopic, MemoryInv, CallInv, TypeInv
  <2>2. PICK start \in [Partitions -> Nat], high \in [Partitions -> Nat] :
          Recovers(t, start, high)
    BY <1>4, RecoveredOffsets
  <2> DEFINE e == [disk[t] EXCEPT !.parts = @ \cup 0 .. c - 1, !.start = start, !.high = high,
                                  !.hurt = {}]
             m == [config |-> c, start |-> start, high |-> high, stuck |-> {}]
  <2>3. disk' = [disk EXCEPT ![t] = e] /\ topics' = [topics EXCEPT ![t] = m]
    BY <2>2 DEF Recovers
  <2>4. /\ e \in Entry /\ e.meta = c /\ e.dir = disk[t].dir /\ disk[t].parts \subseteq e.parts
        /\ e.start = start /\ e.high = high /\ e.hurt = {}
    <3>1. disk[t] \in Entry /\ 0 .. c - 1 \subseteq Nat
      BY <2>1 DEF TypeInv, Configs
    <3> QED
      BY <3>1 DEF Entry
  <2>5. m \in Topic /\ m.config = c /\ m.start = start /\ m.high = high /\ m.stuck = {}
    BY <2>1 DEF Topic
  <2> HIDE DEF e, m
  <2>6. /\ disk'[t] = e /\ topics'[t] = m
        /\ \A u \in Topics : u # t => disk'[u] = disk[u] /\ topics'[u] = topics[u]
    BY <2>3 DEF TypeInv
  <2>7. TypeInv'
    BY <1>4, <2>1, <2>3, <2>4, <2>5 DEF TypeInv
  <2>8. DiskInv'
    <3>1. /\ acked[t] # Absent => e.meta = acked[t] /\ 0 .. acked[t] - 1 \subseteq e.parts
          /\ e.meta # Absent => e.dir
          /\ \A p \in Partitions : /\ e.high[p] > 0 \/ p \in e.hurt => p < e.meta
                                   /\ e.start[p] <= e.high[p]
      BY <2>2, <2>4 DEF DiskInv, Recovers
    <3> QED
      BY <2>1, <2>6, <3>1 DEF DiskInv
  <2>9. MemoryInv'
    <3>1. Known(t)' /\ Agrees(t)' /\ \A u \in Topics : u # t => (Known(u)' <=> Known(u))
      BY <2>1, <2>4, <2>5, <2>6 DEF Known, Agrees, Configs, Absent
    <3>2. \A u \in Topics : u # t => (Agrees(u)' <=> Agrees(u))
      BY <2>6 DEF Agrees
    <3>3. /\ disk'[t].meta = c /\ topics'[t].config = c /\ phase' = "opening"
          /\ \A p \in Partitions : topics'[t].start[p] <= topics'[t].high[p]
      BY <2>1, <2>2, <2>4, <2>5, <2>6 DEF Recovers
    <3> QED
      BY <2>1, <2>6, <3>1, <3>2, <3>3 DEF MemoryInv
  <2>10. CallInv'
    BY <2>1 DEF CallInv
  <2> QED BY <2>7, <2>8, <2>9, <2>10
<1>5. CASE MakeDir
  <2> DEFINE entry == [disk[call.topic] EXCEPT !.dir = TRUE]
  <2>1. call.pc = "mkdir" /\ call' = [call EXCEPT !.pc = "open"]
        /\ disk' = [disk EXCEPT ![call.topic] = entry]
        /\ UNCHANGED <<topics, phase, unread, acked>>
    BY <1>5 DEF MakeDir, CreateFile
  <2>2. call \in Creating /\ call.topic \in Topics /\ phase = "up" /\ ~Known(call.topic)
    BY <2>1, CreatingFacts
  <2>3. entry \in Entry /\ SameFiles(entry, disk[call.topic]) /\ entry.dir
    <3>1. disk[call.topic] \in Entry
      BY <2>2 DEF TypeInv
    <3> QED
      BY <3>1 DEF Entry, SameFiles
  <2>4. DiskInv' /\ MemoryInv'
    BY <2>1, <2>3, CreateOperation
  <2>5. TypeInv'
    BY <2>1, <2>2, <2>3 DEF TypeInv, Creating
  <2>6. CallInv'
    BY <2>1, <2>2, <2>3 DEF TypeInv, CallInv, Creating, Known
  <2> QED BY <2>4, <2>5, <2>6
<1>6. CASE OpenMeta
  <2> DEFINE entry == [disk[call.topic] EXCEPT !.meta = Truncated]
  <2>1. call.pc = "open" /\ call' = [call EXCEPT !.pc = "write"]
        /\ disk' = [disk EXCEPT ![call.topic] = entry]
        /\ UNCHANGED <<topics, phase, unread, acked>>
    BY <1>6 DEF OpenMeta, CreateFile
  <2>2. call \in Creating /\ call.topic \in Topics /\ phase = "up" /\ ~Known(call.topic)
    BY <2>1, CreatingFacts
  <2>3. entry \in Entry /\ SameFiles(entry, disk[call.topic]) /\ entry.dir
    BY <2>1, <2>2 DEF TypeInv, Entry, CallInv, SameFiles
  <2>4. DiskInv' /\ MemoryInv'
    BY <2>1, <2>3, CreateOperation
  <2>5. TypeInv'
    BY <2>1, <2>2, <2>3 DEF TypeInv, Creating
  <2>6. CallInv'
    BY <2>1, <2>2, <2>3 DEF TypeInv, CallInv, Creating, Known
  <2> QED BY <2>4, <2>5, <2>6
<1>7. CASE WriteMeta
  <2> DEFINE entry == [disk[call.topic] EXCEPT !.meta = call.config]
  <2>1. call.pc = "write" /\ call' = [call EXCEPT !.pc = "parts"]
        /\ disk' = [disk EXCEPT ![call.topic] = entry]
        /\ UNCHANGED <<topics, phase, unread, acked>>
    BY <1>7 DEF WriteMeta, CreateFile
  <2>2. call \in Creating /\ call.topic \in Topics /\ phase = "up" /\ ~Known(call.topic)
    BY <2>1, CreatingFacts
  <2>3. /\ entry \in Entry /\ SameFiles(entry, disk[call.topic]) /\ entry.dir
        /\ entry.meta = call.config
    <3>1. disk[call.topic] \in Entry /\ disk[call.topic].dir /\ call.config \in Configs
      BY <2>1, <2>2 DEF TypeInv, CallInv, Creating
    <3> QED
      BY <3>1 DEF Entry, SameFiles
  <2>4. DiskInv' /\ MemoryInv'
    BY <2>1, <2>3, CreateOperation
  <2>5. TypeInv'
    BY <2>1, <2>2, <2>3 DEF TypeInv, Creating
  <2>6. CallInv'
    <3>1. /\ call'.pc = "parts" /\ call'.topic = call.topic /\ call'.config = call.config
          /\ call'.next = 0 /\ call.config \in Nat
      BY <2>1, <2>2 DEF Creating, Configs, CallInv
    <3>2. disk'[call.topic] = entry
      BY <2>1, <2>2 DEF TypeInv
    <3>3. 0 .. call'.next - 1 \subseteq disk'[call'.topic].parts
      <4>1. 0 .. call'.next - 1 = {}
        BY <3>1
      <4> QED BY <4>1
    <3>4. disk'[call'.topic].dir
      BY <2>3, <3>1, <3>2
    <3>5. disk'[call'.topic].meta = call'.config /\ call'.next <= call'.config
      BY <2>3, <3>1, <3>2
    <3>6. phase' = "up" /\ ~Known(call.topic)'
      BY <2>1, <2>2, <3>1 DEF Known
    <3> QED
      BY <3>1, <3>3, <3>4, <3>5, <3>6 DEF CallInv, Known
  <2> QED BY <2>4, <2>5, <2>6
<1>8. CASE MakePartition
  <2> DEFINE entry == [disk[call.topic] EXCEPT !.parts = @ \cup {call.next}]
  <2>1. call.pc = "parts" /\ call.next < call.config /\ call' = [call EXCEPT !.next = @ + 1]
        /\ UNCHANGED <<topics, phase, unread, acked>>
    BY <1>8 DEF MakePartition
  <2>2. call \in Creating /\ call.topic \in Topics /\ phase = "up" /\ ~Known(call.topic)
    BY <2>1, CreatingFacts
  <2>3. disk' = [disk EXCEPT ![call.topic] = entry]
    BY <1>8, <2>2 DEF MakePartition, TypeInv
  <2>a. /\ disk[call.topic] \in Entry /\ disk[call.topic].dir
        /\ disk[call.topic].meta = call.config /\ call.next \in Nat /\ call.config \in Nat
        /\ 0 .. call.next - 1 \subseteq disk[call.topic].parts
    BY <2>1, <2>2 DEF TypeInv, CallInv, Creating, Configs
  <2>4. /\ entry \in Entry /\ SameFiles(entry, disk[call.topic]) /\ entry.dir
        /\ entry.meta = call.config /\ 0 .. call.next \subseteq entry.parts
    BY <2>a DEF Entry, SameFiles
  <2>5. DiskInv' /\ MemoryInv'
    BY <2>1, <2>3, <2>4, CreateOperation
  <2>6. TypeInv'
    <3>1. call' \in Creating
      BY <2>1, <2>2, <2>a DEF Creating
    <3> QED
      BY <2>1, <2>2, <2>3, <2>4, <3>1 DEF TypeInv
  <2>7. CallInv'
    BY <2>1, <2>2, <2>3, <2>4 DEF TypeInv, CallInv, Creating, Configs, Known
  <2> QED BY <2>5, <2>6, <2>7
<1>9. CASE InsertTopic
  <2> DEFINE ct == call.topic
  <2>1. call.pc = "parts" /\ call.next = call.config /\ call' = NoCall
        /\ acked' = [acked EXCEPT ![ct] = call.config]
        /\ UNCHANGED <<disk, phase, unread>>
    BY <1>9 DEF InsertTopic
  <2>2. /\ call \in Creating /\ ct \in Topics /\ phase = "up" /\ ~Known(ct)
        /\ disk[ct].high = Zeros /\ disk[ct].start = Zeros /\ call.config \in Configs
    BY <2>1, CreatingFacts DEF Creating
  <2>3. topics' = [topics EXCEPT ![ct] = [config |-> call.config, start |-> Zeros, high |-> Zeros, stuck |-> {}]]
    <3>1. [NoTopic EXCEPT !.config = call.config] = [config |-> call.config, start |-> Zeros, high |-> Zeros, stuck |-> {}]
      BY DEF NoTopic, Zeros
    <3> QED
      BY <1>9, <3>1 DEF InsertTopic
  <2>4. disk[ct].meta = call.config /\ 0 .. call.config - 1 \subseteq disk[ct].parts
    BY <2>1, <2>2 DEF CallInv
  <2>5. TypeInv'
    <3>1. [config |-> call.config, start |-> Zeros, high |-> Zeros, stuck |-> {}] \in Topic
      BY <2>2 DEF Topic, Zeros
    <3> QED
      BY <2>1, <2>2, <2>3, <3>1 DEF TypeInv
  <2>6. DiskInv'
    BY <2>1, <2>2, <2>4 DEF TypeInv, DiskInv
  <2>7. MemoryInv'
    BY <2>1, <2>2, <2>3, <2>4 DEF TypeInv, MemoryInv, Known, Configs, Absent
  <2>8. CallInv'
    BY <2>1 DEF CallInv
  <2> QED BY <2>5, <2>6, <2>7, <2>8
<1>10. CASE CreateError
  BY <1>10 DEF CreateError, TypeInv, DiskInv, MemoryInv, CallInv, Known
<1>a. /\ NoTopic \in Topic /\ NoTopic.config = Absent /\ NoTopic.start = Zeros
      /\ NoTopic.high = Zeros /\ \A p \in Partitions : NoTopic.start[p] <= NoTopic.high[p]
  BY DEF NoTopic, Topic, Zeros
<1>b. ASSUME Forget, phase' = "down", UNCHANGED <<disk, acked>> PROVE DiskInv' /\ MemoryInv'
  BY <1>a, <1>b DEF Forget, DiskInv, MemoryInv, Known
<1>11. CASE Crash
  BY <1>11, <1>a, <1>b DEF Crash, Forget, TypeInv, CallInv
<1>12. CASE Open
  BY <1>12 DEF Open, TypeInv, DiskInv, MemoryInv, CallInv, Known, Absent, Configs
<1>13. CASE OpenFails
  BY <1>13, <1>a, <1>b DEF OpenFails, Forget, TypeInv, CallInv
<1>14. CASE Opened
  <2>1. UNCHANGED <<disk, topics, call, acked, unread>> /\ phase = "opening" /\ unread = {}
        /\ phase' = "up"
    BY <1>14 DEF Opened
  <2>2. ASSUME NEW t \in Topics
        PROVE  Agrees(t) /\ (acked[t] # Absent => Known(t)) /\ (~Known(t) => disk[t].hurt = {})
    <3>1. CASE disk[t].meta \in Configs
      BY <2>1, <3>1 DEF MemoryInv
    <3>2. CASE disk[t].meta \notin Configs
      <4>1. /\ disk[t].meta \in {Absent, Truncated} /\ disk[t].high \in [Partitions -> Nat]
            /\ disk[t].start \in [Partitions -> Nat] /\ disk[t].hurt \in SUBSET Partitions
        BY <3>2 DEF TypeInv, Entry
      <4>2. disk[t].high = Zeros /\ disk[t].start = Zeros /\ disk[t].hurt = {}
        <5>1. \A p \in Partitions : ~(p < disk[t].meta)
          BY <4>1 DEF Partitions, Absent, Truncated
        <5>2. \A p \in Partitions : /\ disk[t].high[p] = 0 /\ disk[t].start[p] = 0
                                    /\ p \notin disk[t].hurt
          BY <4>1, <5>1 DEF DiskInv
        <5> QED
          BY <4>1, <5>2 DEF Zeros
      <4>3. ~Known(t) /\ acked[t] = Absent
        BY <3>2 DEF MemoryInv, DiskInv, TypeInv, Topic, Known
      <4> QED
        BY <4>2, <4>3 DEF MemoryInv, Agrees
    <3> QED BY <3>1, <3>2
  <2>3. MemoryInv'
    BY <2>1, <2>2 DEF MemoryInv, Known, Agrees
  <2> QED
    BY <2>1, <2>3 DEF TypeInv, DiskInv, CallInv, Known
<1>15. CASE UNCHANGED vars
  BY <1>15 DEF vars, TypeInv, DiskInv, MemoryInv, CallInv, Known
<1> QED
  BY <1>1, <1>2, <1>3, <1>4, <1>5, <1>6, <1>7, <1>8, <1>9, <1>10, <1>11, <1>12, <1>13,
     <1>14, <1>15 DEF Next

\* Every reachable state satisfies the invariant.
LEMMA CatalogueInvariant == Spec => []CatalogueInv
BY CatalogueInit, CatalogueStep, PTL DEF Spec

\* An acknowledged topic keeps its configuration and its partitions, and is
\* there whenever the store is open, wherever a crash or a failed file
\* operation cuts another create_topic or an open short.
THEOREM AcknowledgedTopicsSurvive == Spec => []AckedTopicSurvives
<1>1. CatalogueInv => AckedTopicSurvives
  <2> SUFFICES ASSUME CatalogueInv, NEW t \in Topics, acked[t] # Absent, phase = "up"
               PROVE  FindTopic(t) = {[name |-> t, partitions |-> acked[t]]}
    BY DEF CatalogueInv, DiskInv, AckedTopicSurvives
  <2>1. Known(t) /\ topics[t].config = acked[t]
    BY DEF CatalogueInv, MemoryInv, DiskInv
  <2>2. {c \in StoreTopics : c.name = t} = {[name |-> t, partitions |-> acked[t]]}
    BY <2>1 DEF StoreTopics
  <2> QED
    BY <2>2 DEF FindTopic
<1> QED
  BY <1>1, CatalogueInvariant, PTL

\* Records on disk belong to a partition that topic.json names, and an open
\* store lists their topic: no create, complete or cut short, hides them.
THEOREM RecordsStayReachable == Spec => []RecordsReachable
<1>1. CatalogueInv => RecordsReachable
  <2> SUFFICES ASSUME CatalogueInv, NEW t \in Topics, NEW p \in Partitions,
                      disk[t].high[p] > 0 \/ p \in disk[t].hurt, phase = "up"
               PROVE  \E shown \in StoreTopics : shown.name = t /\ p < shown.partitions
    BY DEF CatalogueInv, DiskInv, RecordsReachable
  <2>1. Known(t) /\ p < topics[t].config
    BY DEF CatalogueInv, MemoryInv, DiskInv, Agrees, Zeros
  <2> DEFINE shown == [name |-> t, partitions |-> topics[t].config]
  <2>2. shown \in StoreTopics
    BY <2>1 DEF StoreTopics
  <2> QED
    BY <2>1, <2>2
<1> QED
  BY <1>1, CatalogueInvariant, PTL

-----------------------------------------------------------------------------
(* Sums                                                                    *)

\* What the fold behind SumFunction has added up for every subset
\* of the domain, taking the elements in the order of CHOOSE.
Taken(s) == CHOOSE x \in s : TRUE
SumStep(g, f, s) == IF s = {} THEN 0 ELSE f[Taken(s)] + g[s \ {Taken(s)}]
Sums(g, f) == g = [s \in SUBSET DOMAIN f |-> SumStep(g, f, s)]

\* The subsets of the domain with fewer than n elements.
Smaller(f, n) == {s \in SUBSET DOMAIN f : Cardinality(s) < n}

\* A set of natural numbers that is not empty has a least element.
LEMMA LeastNumber ==
    ASSUME NEW S \in SUBSET Nat, S # {}
    PROVE  \E m \in S : \A y \in S : m <= y
<1>1. PICK m \in S : \A y \in S : ~(<<y, m>> \in OpToRel(<, Nat))
  BY NatLessThanWellFounded, WFMin
<1>2. \A y \in S : m <= y
  <2> SUFFICES ASSUME NEW y \in S, ~(m <= y) PROVE FALSE
    OBVIOUS
  <2>1. y \in Nat /\ m \in Nat /\ y < m
    OBVIOUS
  <2>2. <<y, m>> \in Nat \X Nat /\ <<y, m>>[1] = y /\ <<y, m>>[2] = m
    BY <2>1
  <2>3. <<y, m>> \in OpToRel(<, Nat)
    BY <2>1, <2>2 DEF OpToRel
  <2> QED BY <1>1, <2>3
<1> QED
  BY <1>2

\* The cardinality of the subsets of a finite set.
LEMMA SubsetSize ==
    ASSUME NEW S, IsFiniteSet(S), NEW s \in SUBSET S
    PROVE  /\ Cardinality(s) \in Nat /\ Cardinality(s) <= Cardinality(S) /\ Cardinality(S) \in Nat
           /\ s # {} => /\ Taken(s) \in s /\ s \ {Taken(s)} \in SUBSET S
                        /\ Cardinality(s \ {Taken(s)}) = Cardinality(s) - 1
                        /\ Cardinality(s) > 0
<1>1. IsFiniteSet(s) /\ Cardinality(s) <= Cardinality(S)
  BY FS_Subset
<1>2. Cardinality(s) \in Nat /\ Cardinality(S) \in Nat
  BY <1>1, FS_CardinalityType
<1>3. ASSUME s # {}
      PROVE  /\ Taken(s) \in s /\ s \ {Taken(s)} \in SUBSET S
             /\ Cardinality(s \ {Taken(s)}) = Cardinality(s) - 1 /\ Cardinality(s) > 0
  <2>1. Taken(s) \in s
    BY <1>3 DEF Taken
  <2>2. Cardinality(s \ {Taken(s)}) = Cardinality(s) - 1
    BY <1>1, <2>1, FS_RemoveElement
  <2>3. Cardinality(s) # 0
    BY <1>1, <1>3, FS_EmptySet
  <2> QED BY <1>2, <2>1, <2>2, <2>3
<1> QED BY <1>1, <1>2, <1>3

\* A family of subsets of a finite set that is not empty has a smallest one: the
\* family does not have what is left of it without the element taken first.
LEMMA SmallestSubset ==
    ASSUME NEW S, IsFiniteSet(S), NEW F \in SUBSET SUBSET S, F # {}
    PROVE  \E s \in F : s # {} => s \ {Taken(s)} \notin F
<1> DEFINE Sizes == {Cardinality(s) : s \in F}
<1>1. \A s \in F : Cardinality(s) \in Nat
  BY SubsetSize
<1>2. Sizes \in SUBSET Nat /\ Sizes # {}
  BY <1>1
<1>3. PICK m \in Sizes : \A y \in Sizes : m <= y
  BY <1>2, LeastNumber
<1>4. PICK s \in F : Cardinality(s) = m
  BY <1>3
<1>5. ASSUME s # {}, s \ {Taken(s)} \in F PROVE FALSE
  <2>1. Cardinality(s \ {Taken(s)}) = m - 1 /\ m \in Nat
    BY <1>1, <1>4, <1>5, SubsetSize
  <2>2. m <= Cardinality(s \ {Taken(s)})
    BY <1>3, <1>5
  <2> QED BY <2>1, <2>2
<1> QED
  BY <1>5

\* The recursive function of the fold exists.  The least size of the subsets up
\* to which it did not would be the successor of one up to which it does.
LEMMA SumsExist ==
    ASSUME NEW f, IsFiniteSet(DOMAIN f)
    PROVE  \E g : Sums(g, f)
<1> DEFINE Has(k) == \E g : g = [s \in Smaller(f, k) |-> SumStep(g, f, s)]
           Broken == {k \in Nat : ~Has(k)}
<1>0. \A s \in SUBSET DOMAIN f : Cardinality(s) \in Nat
  BY SubsetSize
<1>1. Has(0)
  <2>1. Smaller(f, 0) = {}
    BY <1>0 DEF Smaller
  <2> DEFINE g == [s \in {} |-> 0]
  <2>2. g = [s \in Smaller(f, 0) |-> SumStep(g, f, s)]
    BY <2>1
  <2> QED BY <2>2
<1>2. ASSUME NEW k \in Nat, Has(k) PROVE Has(k + 1)
  <2>1. PICK g : g = [s \in Smaller(f, k) |-> SumStep(g, f, s)]
    BY <1>2
  <2> DEFINE h == [s \in Smaller(f, k + 1) |-> SumStep(g, f, s)]
  <2>2. ASSUME NEW s \in Smaller(f, k), s \in Smaller(f, k + 1) PROVE h[s] = g[s]
    BY <2>1, <2>2
  <2>3. Smaller(f, k) \subseteq Smaller(f, k + 1)
    BY <1>0 DEF Smaller
  <2>4. ASSUME NEW s \in Smaller(f, k + 1) PROVE SumStep(h, f, s) = SumStep(g, f, s)
    <3>1. CASE s = {}
      BY <3>1 DEF SumStep
    <3>2. CASE s # {}
      <4> DEFINE r == s \ {Taken(s)}
      <4>1. s \in SUBSET DOMAIN f /\ Cardinality(s) < k + 1
        BY DEF Smaller
      <4>2. r \in SUBSET DOMAIN f /\ Cardinality(r) = Cardinality(s) - 1 /\ Cardinality(s) \in Nat
        BY <3>2, <4>1, SubsetSize
      <4> HIDE DEF r
      <4>3. Cardinality(r) < k
        BY <4>1, <4>2
      <4>4. r \in Smaller(f, k)
        BY <4>2, <4>3 DEF Smaller
      <4>5. h[r] = g[r]
        BY <2>2, <2>3, <4>4
      <4> HIDE DEF h
      <4> QED BY <4>5 DEF SumStep, r
    <3> QED BY <3>1, <3>2
  <2>5. \A s \in Smaller(f, k + 1) : h[s] = SumStep(h, f, s)
    BY <2>4
  <2>6. h = [s \in Smaller(f, k + 1) |-> h[s]]
    OBVIOUS
  <2> HIDE DEF h
  <2>7. h = [s \in Smaller(f, k + 1) |-> SumStep(h, f, s)]
    BY <2>5, <2>6
  <2> QED BY <2>7
<1> HIDE DEF Has
<1>3. Broken = {}
  <2> SUFFICES ASSUME Broken # {} PROVE FALSE
    OBVIOUS
  <2>1. Broken \in SUBSET Nat
    OBVIOUS
  <2>2. PICK k \in Broken : \A x \in Broken : k <= x
    BY <2>1, LeastNumber
  <2>3. k \in Nat /\ k # 0 /\ ~Has(k)
    BY <1>1, <2>2
  <2>4. k - 1 \in Nat /\ ~(k <= k - 1) /\ k - 1 + 1 = k
    BY <2>3
  <2>5. Has(k - 1)
    BY <2>2, <2>4
  <2>6. Has(k - 1 + 1)
    BY <1>2, <2>4, <2>5
  <2> QED BY <2>3, <2>4, <2>6
<1> DEFINE n == Cardinality(DOMAIN f) + 1
<1>4. n \in Nat /\ Smaller(f, n) = SUBSET DOMAIN f
  <2>1. \A s \in SUBSET DOMAIN f : Cardinality(s) \in Nat /\ Cardinality(s) <= Cardinality(DOMAIN f)
    BY SubsetSize
  <2>2. Cardinality(DOMAIN f) \in Nat
    BY FS_CardinalityType
  <2> QED BY <2>1, <2>2 DEF Smaller
<1> HIDE DEF n
<1>5. Has(n)
  BY <1>3, <1>4
<1> QED
  BY <1>4, <1>5 DEF Has, Sums

\* SumFunction is the partial sum of the whole domain.
LEMMA SumFunctionSums ==
    ASSUME NEW f, IsFiniteSet(DOMAIN f)
    PROVE  \E g : Sums(g, f) /\ SumFunction(f) = g[DOMAIN f]
<1>1. SumFunction(f) = (CHOOSE g : Sums(g, f))[DOMAIN f]
  BY DEF SumFunction, SumFunctionOnSet, FoldFunctionOnSet, MapThenFoldSet, Sums, SumStep, Taken
<1>2. Sums(CHOOSE g : Sums(g, f), f)
  BY SumsExist
<1> QED BY <1>1, <1>2

\* The partial sums of natural numbers: nothing for the empty set, and one
\* number more for every element.
LEMMA PartialSums ==
    ASSUME NEW S, IsFiniteSet(S), NEW f \in [S -> Nat], NEW g, Sums(g, f)
    PROVE  /\ \A s \in SUBSET S : g[s] \in Nat
           /\ g[{}] = 0
           /\ \A s \in SUBSET S : s # {} => g[s] = f[Taken(s)] + g[s \ {Taken(s)}]
<1>1. \A s \in SUBSET S : g[s] = SumStep(g, f, s)
  BY DEF Sums
<1>2. g[{}] = 0 /\ \A s \in SUBSET S : s # {} => g[s] = f[Taken(s)] + g[s \ {Taken(s)}]
  BY <1>1 DEF SumStep
<1> DEFINE Bad == {s \in SUBSET S : g[s] \notin Nat}
<1>3. Bad = {}
  <2> SUFFICES ASSUME Bad # {} PROVE FALSE
    OBVIOUS
  <2>1. PICK s \in Bad : s # {} => s \ {Taken(s)} \notin Bad
    <3>1. Bad \in SUBSET SUBSET S
      OBVIOUS
    <3> HIDE DEF Bad
    <3> QED BY <3>1, SmallestSubset
  <2>2. s # {}
    <3>1. g[{}] = 0 /\ {} \notin Bad
      BY <1>2
    <3> HIDE DEF Bad
    <3> QED BY <2>1, <3>1
  <2>3. Taken(s) \in S /\ s \ {Taken(s)} \in SUBSET S
    <3>1. s \in SUBSET S
      BY <2>1
    <3>2. Taken(s) \in s /\ s \ {Taken(s)} \in SUBSET S
      BY <2>2, <3>1, SubsetSize
    <3> QED BY <3>1, <3>2
  <2>4. g[s \ {Taken(s)}] \in Nat /\ f[Taken(s)] \in Nat
    BY <2>1, <2>2, <2>3
  <2> QED
    BY <1>2, <2>1, <2>2, <2>4
<1> QED
  BY <1>2, <1>3

\* The sum of natural numbers is one.
LEMMA SumIsNumber ==
    ASSUME NEW S, IsFiniteSet(S), NEW f \in [S -> Nat]
    PROVE  SumFunction(f) \in Nat
<1>1. DOMAIN f = S
  OBVIOUS
<1>2. PICK g : Sums(g, f) /\ SumFunction(f) = g[S]
  BY <1>1, SumFunctionSums
<1> QED BY <1>2, PartialSums

\* Zeros add up to zero.
LEMMA SumOfZeros ==
    ASSUME NEW S, IsFiniteSet(S), NEW f \in [S -> Nat], \A x \in S : f[x] = 0
    PROVE  SumFunction(f) = 0
<1>1. DOMAIN f = S
  OBVIOUS
<1>2. PICK g : Sums(g, f) /\ SumFunction(f) = g[S]
  BY <1>1, SumFunctionSums
<1>3. /\ \A s \in SUBSET S : g[s] \in Nat
      /\ g[{}] = 0
      /\ \A s \in SUBSET S : s # {} => g[s] = f[Taken(s)] + g[s \ {Taken(s)}]
  BY <1>2, PartialSums
<1> DEFINE Bad == {s \in SUBSET S : g[s] # 0}
<1>4. Bad = {}
  <2> SUFFICES ASSUME Bad # {} PROVE FALSE
    OBVIOUS
  <2>1. PICK s \in Bad : s # {} => s \ {Taken(s)} \notin Bad
    <3>1. Bad \in SUBSET SUBSET S
      OBVIOUS
    <3> HIDE DEF Bad
    <3> QED BY <3>1, SmallestSubset
  <2>2. s # {}
    <3>1. g[{}] = 0 /\ {} \notin Bad
      BY <1>3
    <3> HIDE DEF Bad
    <3> QED BY <2>1, <3>1
  <2>3. Taken(s) \in S /\ s \ {Taken(s)} \in SUBSET S
    <3>1. s \in SUBSET S
      BY <2>1
    <3>2. Taken(s) \in s /\ s \ {Taken(s)} \in SUBSET S
      BY <2>2, <3>1, SubsetSize
    <3> QED BY <3>1, <3>2
  <2>4. g[s \ {Taken(s)}] = 0 /\ f[Taken(s)] = 0
    BY <2>1, <2>2, <2>3
  <2>5. g[s] = f[Taken(s)] + g[s \ {Taken(s)}] /\ g[s] # 0
    BY <1>3, <2>1, <2>2
  <2> QED
    BY <2>4, <2>5
<1> QED
  BY <1>2, <1>4

\* A number that grows makes the sum grow by as much.
LEMMA SumGrows ==
    ASSUME NEW S, IsFiniteSet(S), NEW f \in [S -> Nat], NEW h \in [S -> Nat], NEW x \in S,
           NEW d \in Nat, h[x] = f[x] + d, \A y \in S : y # x => h[y] = f[y]
    PROVE  SumFunction(h) = SumFunction(f) + d
<1>1. DOMAIN f = S /\ DOMAIN h = S
  OBVIOUS
<1>2. PICK g : Sums(g, f) /\ SumFunction(f) = g[S]
  BY <1>1, SumFunctionSums
<1>3. PICK k : Sums(k, h) /\ SumFunction(h) = k[S]
  BY <1>1, SumFunctionSums
<1>4. /\ \A s \in SUBSET S : g[s] \in Nat
      /\ g[{}] = 0
      /\ \A s \in SUBSET S : s # {} => g[s] = f[Taken(s)] + g[s \ {Taken(s)}]
  BY <1>2, PartialSums
<1>5. /\ \A s \in SUBSET S : k[s] \in Nat
      /\ k[{}] = 0
      /\ \A s \in SUBSET S : s # {} => k[s] = h[Taken(s)] + k[s \ {Taken(s)}]
  BY <1>3, PartialSums
<1> DEFINE Bad == {s \in SUBSET S : k[s] # g[s] + (IF x \in s THEN d ELSE 0)}
<1>6. Bad = {}
  <2> SUFFICES ASSUME Bad # {} PROVE FALSE
    OBVIOUS
  <2>1. PICK s \in Bad : s # {} => s \ {Taken(s)} \notin Bad
    <3>1. Bad \in SUBSET SUBSET S
      OBVIOUS
    <3> HIDE DEF Bad
    <3> QED BY <3>1, SmallestSubset
  <2>2. s # {}
    <3>1. x \notin {} /\ k[{}] = g[{}] + 0
      BY <1>4, <1>5
    <3>2. {} \notin Bad
      BY <3>1
    <3> HIDE DEF Bad
    <3> QED BY <2>1, <3>2
  <2> DEFINE c == Taken(s)
             r == s \ {Taken(s)}
  <2>3. c \in S /\ c \in s /\ r \in SUBSET S
    <3>1. s \in SUBSET S
      BY <2>1
    <3>2. Taken(s) \in s /\ s \ {Taken(s)} \in SUBSET S
      BY <2>2, <3>1, SubsetSize
    <3> QED BY <3>1, <3>2
  <2>4. g[s] = f[c] + g[r] /\ k[s] = h[c] + k[r]
    BY <1>4, <1>5, <2>1, <2>2
  <2>5. k[r] = g[r] + (IF x \in r THEN d ELSE 0)
    BY <2>1, <2>2, <2>3
  <2>6. g[r] \in Nat /\ f[c] \in Nat /\ (x \in r <=> x \in s /\ x # c)
    BY <1>4, <2>3
  <2> HIDE DEF c, r
  <2>7. CASE c = x
    <3>1. k[r] = g[r] /\ h[c] = f[c] + d
      BY <2>5, <2>6, <2>7
    <3>2. k[s] = g[s] + d
      BY <2>4, <2>6, <3>1
    <3> QED BY <2>1, <2>3, <2>7, <3>2
  <2>8. CASE c # x
    <3>1. h[c] = f[c]
      BY <2>3, <2>8
    <3>2. k[s] = g[s] + (IF x \in s THEN d ELSE 0)
      BY <2>4, <2>5, <2>6, <2>8, <3>1
    <3> QED BY <2>1, <3>2
  <2> QED BY <2>7, <2>8
<1>7. k[S] = g[S] + d
  BY <1>6
<1> QED
  BY <1>2, <1>3, <1>7

-----------------------------------------------------------------------------
(* stats                                                                   *)

\* What stats adds up: the offsets assigned in every topic.
Totals == [t \in Topics |-> SumOf(topics[t].high)]

\* recover reads every directory once, and the offsets assigned in memory are those
\* it found plus those appended since, at every step of recover.
SumInv ==
    /\ produced_total \in Nat /\ recovered \in Nat /\ unacked \in Nat
    /\ \A t \in unread : ~Known(t)
    /\ SumOf(Totals) = recovered + produced_total + unacked

\* The offsets of every topic add up to a number.
LEMMA TotalsType ==
    ASSUME TypeInv
    PROVE  /\ \A t \in Topics : SumOf(topics[t].high) \in Nat
           /\ Totals \in [Topics -> Nat]
<1>1. IsFiniteSet(Partitions)
  BY CatalogueAssumption, FS_Interval DEF Partitions
<1>2. ASSUME NEW t \in Topics PROVE SumOf(topics[t].high) \in Nat
  <2>1. topics[t].high \in [Partitions -> Nat]
    BY DEF TypeInv, Topic
  <2> QED BY <1>1, <2>1, SumIsNumber DEF SumOf
<1> QED
  BY <1>2 DEF Totals

\* No records add up to nothing.
LEMMA ZerosSum == SumOf(Zeros) = 0
<1>1. IsFiniteSet(Partitions)
  BY CatalogueAssumption, FS_Interval DEF Partitions
<1>2. Zeros \in [Partitions -> Nat] /\ \A p \in Partitions : Zeros[p] = 0
  BY DEF Zeros
<1> QED
  BY <1>1, <1>2, SumOfZeros DEF SumOf

\* A store that knows no topic has no records.
LEMMA NothingKnown ==
    ASSUME IsFiniteSet(Topics)
    PROVE  (topics = [t \in Topics |-> NoTopic]) => SumOf(Totals) = 0
<1> SUFFICES ASSUME topics = [t \in Topics |-> NoTopic] PROVE SumOf(Totals) = 0
  OBVIOUS
<1>1. \A t \in Topics : topics[t].high = Zeros
  BY DEF NoTopic, Zeros
<1>2. Totals \in [Topics -> Nat] /\ \A t \in Topics : Totals[t] = 0
  BY <1>1, ZerosSum DEF Totals
<1> QED
  BY <1>2, SumOfZeros DEF SumOf

\* The same after a step.
LEMMA NextTotals ==
    ASSUME IsFiniteSet(Topics)
    PROVE  /\ TypeInv' => Totals' \in [Topics -> Nat]
           /\ topics' = [t \in Topics |-> NoTopic] => SumOf(Totals)' = 0
<1> DEFINE Numbers == Totals \in [Topics -> Nat]
<1>1. TypeInv => Numbers
  BY TotalsType
<1>2. TypeInv' => Numbers'
  <2> HIDE DEF Numbers
  <2> QED BY <1>1, PTL
<1>3. (topics = [t \in Topics |-> NoTopic]) => SumOf(Totals) = 0
  BY NothingKnown
<1>4. (topics = [t \in Topics |-> NoTopic])' => (SumOf(Totals) = 0)'
  BY <1>3, PTL
<1> QED
  BY <1>2, <1>4

\* Records that appear in one topic are counted once.
LEMMA TotalsGrow ==
    ASSUME IsFiniteSet(Topics), TypeInv, TypeInv', NEW t \in Topics, NEW d \in Nat,
           SumOf(topics'[t].high) = SumOf(topics[t].high) + d,
           \A u \in Topics : u # t => topics'[u].high = topics[u].high
    PROVE  SumOf(Totals)' = SumOf(Totals) + d /\ SumOf(Totals) \in Nat
<1>1. Totals \in [Topics -> Nat] /\ Totals' \in [Topics -> Nat]
  BY TotalsType, NextTotals
<1>2. Totals'[t] = Totals[t] + d /\ \A u \in Topics : u # t => Totals'[u] = Totals[u]
  BY DEF Totals
<1>3. SumOf(Totals') = SumOf(Totals) + d
  BY <1>1, <1>2, SumGrows DEF SumOf
<1> QED
  BY <1>1, <1>3, SumIsNumber DEF SumOf

LEMMA StatsStep ==
    ASSUME IsFiniteSet(Topics)
    PROVE  CatalogueInv /\ CatalogueInv' /\ SumInv /\ [Next]_vars => SumInv'
<1> SUFFICES ASSUME CatalogueInv, CatalogueInv', SumInv, [Next]_vars PROVE SumInv'
  OBVIOUS
<1>0. TypeInv /\ TypeInv' /\ MemoryInv /\ DiskInv
  BY DEF CatalogueInv
<1>1. ASSUME UNCHANGED <<topics, produced_total, recovered, unacked>>, unread' \subseteq unread PROVE SumInv'
  BY <1>1 DEF SumInv, Totals, Known
<1>2. ASSUME NEW t \in Topics, NEW p \in Partitions,
             AppendRecord(t, p) \/ AppendFails(t, p) \/ RetentionFails(t, p)
      PROVE  SumInv'
  <2>1. PICK k \in 0 .. 1, h \in topics[t].start[p] .. topics[t].high[p] :
          /\ Stores(t, p, k, h)
          /\ \/ produced_total' = produced_total + k /\ unacked' = unacked
             \/ produced_total' = produced_total /\ unacked' = unacked + k
    BY <1>2, AppendStores
  <2>2. UNCHANGED <<unread, recovered>>
    BY <1>2, AppendStores
  <2> DEFINE r == topics[t].high
             q == With(r, p, r[p] + k)
  <2>3. r \in [Partitions -> Nat] /\ topics[t].start[p] \in Nat
    BY <1>0 DEF TypeInv, Topic
  <2>4. k \in Nat /\ h \in Nat
    BY <2>3
  <2>5. q \in [Partitions -> Nat] /\ q[p] = r[p] + k /\ \A x \in Partitions : x # p => q[x] = r[x]
    BY <2>3, <2>4 DEF With
  <2>6. /\ topics'[t].high = q
        /\ topics'[t].config = topics[t].config
        /\ \A u \in Topics : u # t => topics'[u] = topics[u]
    BY <1>0, <2>1, <2>4, StoreProperties
  <2>7. IsFiniteSet(Partitions)
    BY CatalogueAssumption, FS_Interval DEF Partitions
  <2> HIDE DEF q, r
  <2>8. SumOf(q) = SumOf(r) + k
    BY <2>3, <2>4, <2>5, <2>7, SumGrows DEF SumOf
  <2>9. SumOf(Totals)' = SumOf(Totals) + k /\ SumOf(Totals) \in Nat
    <3>1. SumOf(topics'[t].high) = SumOf(topics[t].high) + k
      BY <2>6, <2>8 DEF r
    <3> QED BY <1>0, <2>4, <2>6, <3>1, TotalsGrow
  <2>10. \A u \in unread : ~Known(u)'
    <3>1. unread \subseteq Topics /\ \A u \in unread : topics[u].config = Absent
      BY <1>0 DEF SumInv, Known, TypeInv
    <3>2. \A u \in unread : topics'[u].config = Absent
      BY <2>6, <3>1
    <3> QED BY <3>2 DEF Known
  <2> QED BY <2>1, <2>2, <2>4, <2>9, <2>10 DEF SumInv
<1>3. ASSUME NEW t \in Topics, RecoverTopic(t) PROVE SumInv'
  <2>1. /\ disk[t].meta \in Configs /\ t \in unread /\ unread' = unread \ {t}
        /\ UNCHANGED <<produced_total, unacked>>
    BY <1>3 DEF RecoverTopic
  <2>2. PICK start \in [Partitions -> Nat], high \in [Partitions -> Nat] :
          Recovers(t, start, high)
    BY <1>0, <1>3, RecoveredOffsets
  <2>3. /\ topics'[t].high = high /\ recovered' = recovered + SumOf(high)
        /\ \A u \in Topics : u # t => topics'[u] = topics[u]
    BY <1>0, <2>2 DEF TypeInv, Recovers
  <2>4. topics[t].high = Zeros
    BY <1>0, <2>1 DEF SumInv, MemoryInv
  <2>5. SumOf(high) \in Nat
    <3>1. IsFiniteSet(Partitions)
      BY CatalogueAssumption, FS_Interval DEF Partitions
    <3> QED BY <3>1, SumIsNumber DEF SumOf
  <2> DEFINE d == SumOf(high)
  <2>6. d \in Nat /\ SumOf(topics'[t].high) = SumOf(topics[t].high) + d
    BY <2>3, <2>4, <2>5, ZerosSum
  <2>7. recovered' = recovered + d
    BY <2>3
  <2> HIDE DEF d
  <2>8. SumOf(Totals)' = SumOf(Totals) + d /\ SumOf(Totals) \in Nat
    BY <1>0, <2>3, <2>6, TotalsGrow
  <2>9. \A u \in unread' : ~Known(u)'
    BY <1>0, <2>1, <2>3 DEF SumInv, Known, TypeInv
  <2> QED BY <2>1, <2>6, <2>7, <2>8, <2>9 DEF SumInv
<1>4. CASE InsertTopic
  <2> DEFINE t == call.topic
  <2>1. t \in Topics /\ ~Known(t) /\ phase = "up" /\ unread = {}
    BY <1>0, <1>4, CreatingFacts DEF InsertTopic, MemoryInv
  <2>2. topics[t].high = Zeros
    BY <1>0, <2>1 DEF MemoryInv
  <2>3. topics'[t].high = Zeros /\ \A u \in Topics : u # t => topics'[u].high = topics[u].high
    BY <1>0, <1>4, <2>1 DEF InsertTopic, NoTopic, Zeros, TypeInv
  <2>4. Totals' = Totals
    BY <2>2, <2>3 DEF Totals
  <2> QED
    BY <1>4, <2>1, <2>4 DEF InsertTopic, SumInv
<1>5. CASE Open
  BY <1>0, <1>5 DEF Open, history, SumInv, Totals, Known, MemoryInv
<1>10. ASSUME NEW t \in Topics, SkipEntry(t) PROVE SumInv'
  BY <1>1, <1>10 DEF SkipEntry, history
<1>6. CASE Forget
  <2>1. SumOf(Totals)' = 0
    BY <1>6, NextTotals DEF Forget
  <2> QED
    BY <1>6, <2>1 DEF Forget, SumInv
<1>7. ASSUME NEW t \in Topics, NEW c \in Configs, BeginCreate(t, c) PROVE SumInv'
  BY <1>1, <1>7 DEF BeginCreate, history
<1>8. MakeDir \/ OpenMeta \/ WriteMeta \/ MakePartition \/ CreateError \/ Opened \/ UNCHANGED vars
        => SumInv'
  BY <1>1 DEF MakeDir, OpenMeta, WriteMeta, CreateFile, MakePartition, CreateError, Opened, vars, history
<1>9. Crash \/ OpenFails => SumInv'
  BY <1>6 DEF Crash, OpenFails
<1> QED
  <2>1. ASSUME NEW t \in Topics,
               (\E c \in Configs : BeginCreate(t, c)) \/ (\E p \in Partitions :
                  AppendRecord(t, p) \/ AppendFails(t, p) \/ RetentionFails(t, p))
                 \/ SkipEntry(t) \/ RecoverTopic(t)
        PROVE  SumInv'
    BY <1>2, <1>3, <1>7, <1>10, <2>1
  <2> QED
    BY <1>4, <1>5, <1>8, <1>9, <2>1 DEF Next

\* An open store has in memory the offsets of the files on disk, for every partition
\* where no write, and for the head no removal, has failed since the restart; and
\* the records stats() counts, with those retention removed, are what recover found
\* plus produced_total, which counts from the restart, plus what failed appends
\* stored: recover brings back every partition once, whatever creates, appends and
\* removals were cut short before it.
THEOREM StatsAddUp ==
    ASSUME IsFiniteSet(Topics)
    PROVE  Spec => []StatsAgree
<1>1. Init => SumInv
  <2>1. Init => SumOf(Totals) = 0
    BY NothingKnown DEF Init
  <2> QED
    BY <2>1 DEF Init, SumInv
<1>2. CatalogueInv /\ CatalogueInv' /\ SumInv /\ [Next]_vars => SumInv'
  BY StatsStep
<1>3. CatalogueInv /\ SumInv => StatsAgree
  <2> SUFFICES ASSUME CatalogueInv, SumInv, phase = "up" PROVE StatsAgree
    BY DEF StatsAgree
  <2>1. \A t \in Topics : \A p \in Partitions :
          /\ topics[t].high[p] = disk[t].high[p]
          /\ p \notin topics[t].stuck => topics[t].start[p] = disk[t].start[p]
    BY DEF CatalogueInv, MemoryInv, Agrees
  <2>2. Assigned = SumOf(Totals)
    BY DEF Assigned, Totals
  <2>3. Pruned \in Nat
    <3>1. IsFiniteSet(Partitions)
      BY CatalogueAssumption, FS_Interval DEF Partitions
    <3>2. \A t \in Topics : topics[t].start \in [Partitions -> Nat]
      BY DEF CatalogueInv, TypeInv, Topic
    <3>3. \A t \in Topics : SumOf(topics[t].start) \in Nat
      BY <3>1, <3>2, SumIsNumber DEF SumOf
    <3>4. [t \in Topics |-> SumOf(topics[t].start)] \in [Topics -> Nat]
      BY <3>3
    <3> QED BY <3>4, SumIsNumber DEF Pruned, SumOf
  <2>4. Stats.records + Pruned = recovered + Stats.produced_total + unacked
    <3>1. Stats.records = Assigned - Pruned /\ Stats.produced_total = produced_total
      BY DEF Stats
    <3> QED
      BY <2>2, <2>3, <3>1 DEF SumInv
  <2> QED
    BY <2>1, <2>4 DEF StatsAgree
<1> QED
  BY <1>1, <1>2, <1>3, CatalogueInvariant, PTL DEF Spec

=============================================================================
