--------------------------- MODULE LogEngine_proofs ---------------------------
(***************************************************************************)
(* Proofs about LogEngine, for every set of clients, topics and keys, and  *)
(* every configuration and bound.                                          *)
(***************************************************************************)
EXTENDS LogEngine, FiniteSetTheorems, SequenceTheorems, TLAPS

-----------------------------------------------------------------------------
(* Types                                                                   *)

PCs == StoreCalls \cup {"idle", "publishCreated", "publishAppended", "publishTruncated"}

StoredRecords == [id : Nat, i : Nat]

Requests == [pc : PCs, id : Nat, topic : Topics \cup {"none"}, partitions : Nat,
             key : Keys \cup {NoKey}, n : Nat, at : Partitions \cup {NoPartition},
             attempt : 0 .. RetryAttempts - 1, base : Nat, truncated : Nat]

LogEvents ==
    [kind : {"TopicCreated"}, topic : Topics]
      \cup [kind : {"RecordsAppended"}, at : Partitions, base : Nat, records : Seq(StoredRecords)]
      \cup [kind : {"RecordsTruncated"}, at : Partitions, new_start : Nat]

Shadows == [at : Partitions, offset : Nat, frame : StoredRecords]

StoreType ==
    /\ catalogue \in [DOMAIN catalogue -> Counts]
    /\ DOMAIN catalogue \subseteq Topics
    /\ log \in [Partitions -> Seq(StoredRecords)]
    /\ start \in [Partitions -> Nat]
    /\ \A p \in Partitions : start[p] <= Len(log[p])
    /\ stale \in [Partitions -> SUBSET StoredRecords]
    /\ shadow \in SUBSET Shadows
    /\ \A s \in shadow : s.offset < Len(log[s.at])

\* A request has what its next step needs.
WellFormed(r) ==
    /\ r.pc \in {"list", "create", "publishCreated"} => r.topic \in Topics /\ r.partitions \in Counts
    /\ r.pc = "count" => r.topic \in Topics /\ r.n >= 1
    /\ r.pc \in {"append", "publishAppended", "publishTruncated"} => r.at \in Partitions /\ r.n >= 1

\* The partition of an append is one the topic has: the catalogue only grows
\* after partition_count was asked.
Routed(topics, r) ==
    r.pc = "append" => /\ r.topic \in DOMAIN topics
                       /\ r.at.index \in 0 .. topics[r.topic] - 1

RequestType ==
    /\ req \in [Clients -> Requests]
    /\ \A c \in Clients : WellFormed(req[c]) /\ Routed(catalogue, req[c])
    /\ late \in SUBSET Requests
    /\ \A j \in late : WellFormed(j)

OtherType ==
    /\ tokens \in 0 .. Capacity
    /\ round_robin \in Nat
    /\ bus \in Seq(LogEvents)
    /\ issued \in 0 .. MaxRequests
    /\ \A a \in answers : a.result \in Results
    /\ faults \in 0 .. MaxFaults

TypeInv == StoreType /\ RequestType /\ OtherType

-----------------------------------------------------------------------------
(* What is announced                                                       *)

\* The records stand at these offsets of the partition, and no frame of a failed
\* attempt between two of them.
Stands(logs, shadows, p, base, records) ==
    /\ base + Len(records) <= Len(logs[p])
    /\ \A i \in 1 .. Len(records) : logs[p][base + i] = records[i]
    /\ \A s \in shadows : s.at = p => s.offset \notin base + 1 .. base + Len(records) - 1

\* A batch stands in the log from its append on, before and after its event.
CommittedInv ==
    /\ \A c \in Clients : req[c].pc = "publishAppended" =>
         Stands(log, shadow, req[c].at, req[c].base, Batch(req[c].id, req[c].n))
    /\ \A i \in Events("RecordsAppended") : Stands(log, shadow, bus[i].at, bus[i].base, bus[i].records)

\* A request is known by its number: it is in progress with one client or
\* answered once.
IdInv ==
    /\ \A c \in Clients : req[c].pc # "idle" => req[c].id \in 1 .. issued
    /\ \A c, d \in Clients :
         req[c].pc # "idle" /\ req[d].pc # "idle" /\ req[c].id = req[d].id => c = d
    /\ \A a \in answers : a.id \in 1 .. issued
    /\ \A a \in answers, c \in Clients : req[c].pc # "idle" => a.id # req[c].id
    /\ \A a, b \in answers : a.id = b.id => a = b

\* Event e announces the batch of x, an answer or a request.
Announces(e, x) ==
    /\ e.at = x.at
    /\ e.base = x.base
    /\ e.records = Batch(x.id, x.n)

\* Exactly one event announces a produce that was answered, or that has still
\* to publish the new head; and every RecordsAppended is the event of one.
AnnouncedInv ==
    /\ \A a \in answers : a.result = "Produced" =>
         a.n \in Nat \ {0} /\ \E i \in Events("RecordsAppended") : Announces(bus[i], a)
    /\ \A c \in Clients : req[c].pc = "publishTruncated" =>
         \E i \in Events("RecordsAppended") : Announces(bus[i], req[c])
    /\ \A i \in Events("RecordsAppended") :
         \/ \E a \in answers : a.result = "Produced" /\ Announces(bus[i], a)
         \/ \E c \in Clients : req[c].pc = "publishTruncated" /\ Announces(bus[i], req[c])
    /\ \A i, j \in Events("RecordsAppended") :
         bus[i].records[1].id = bus[j].records[1].id => i = j

\* A topic has at most one creator, told or about to be, and is in the store
\* once it has; the event and the answer go together.
CreatorInv ==
    /\ \A c \in Clients : req[c].pc = "publishCreated" => req[c].topic \in DOMAIN catalogue
    /\ \A a \in answers : a.result = "Created" => a.topic \in DOMAIN catalogue
    /\ \A c, d \in Clients :
         req[c].pc = "publishCreated" /\ req[d].pc = "publishCreated"
           /\ req[c].topic = req[d].topic => c = d
    /\ \A a \in answers, c \in Clients :
         a.result = "Created" /\ req[c].pc = "publishCreated" => a.topic # req[c].topic
    /\ \A a, b \in answers :
         a.result = "Created" /\ b.result = "Created" /\ a.topic = b.topic => a = b
    /\ \A a \in answers : a.result = "Created" =>
         \E i \in Events("TopicCreated") : bus[i].topic = a.topic
    /\ \A i \in Events("TopicCreated") :
         \E a \in answers : a.result = "Created" /\ bus[i].topic = a.topic
    /\ \A i, j \in Events("TopicCreated") : bus[i].topic = bus[j].topic => i = j

-----------------------------------------------------------------------------
(* Facts about the operators of the model                                  *)

\* Every topic has at least one partition.
LEMMA CountsPositive == Counts \subseteq Nat \ {0}
BY EngineAssumption DEF Counts, PartitionsFor

\* The bucket holds at least one token.
LEMMA CapacityType == Capacity \in Nat \ {0}
BY EngineAssumption DEF Capacity

\* A batch is a sequence of n records that carry the number of their request.
LEMMA BatchProperties ==
    ASSUME NEW id \in Nat, NEW n \in Nat
    PROVE  /\ Batch(id, n) \in Seq(StoredRecords)
           /\ Len(Batch(id, n)) = n
           /\ \A i \in 1 .. n : Batch(id, n)[i] = [id |-> id, i |-> i]
<1>1. Batch(id, n) \in [1 .. n -> StoredRecords]
  BY DEF Batch, StoredRecords
<1>2. Batch(id, n) \in Seq(StoredRecords) /\ Len(Batch(id, n)) = n
  BY <1>1, SeqDef
<1> QED
  BY <1>2 DEF Batch

\* A client that is not in a call.
LEMMA IdleRequest == Idle \in Requests /\ WellFormed(Idle) /\ Idle.pc = "idle"
<1>1. 0 \in 0 .. RetryAttempts - 1
  BY EngineAssumption
<1> QED
  BY <1>1 DEF Idle, Requests, WellFormed, PCs, StoreCalls

\* Routing, by key or round robin, picks a partition of the topic.
LEMMA RouteProperties ==
    ASSUME NEW t \in Topics, NEW key \in Keys \cup {NoKey}, NEW count \in Counts,
           round_robin \in Nat
    PROVE  /\ Route(key, count) \in 0 .. count - 1
           /\ [topic |-> t, index |-> Route(key, count)] \in Partitions
<1>1. count \in Nat \ {0}
  BY CountsPositive
<1>2. \A x \in Nat : x % count \in 0 .. count - 1
  BY <1>1
<1>3. Route(key, count) \in 0 .. count - 1
  BY <1>2, EngineAssumption DEF Route
<1>4. Route(key, count) \in UNION {0 .. n - 1 : n \in Counts}
  BY <1>3
<1> QED
  BY <1>3, <1>4 DEF Partitions

\* What failed attempts left in the buffer gets the offset of the next record.
LEMMA StoreBatchShadow ==
    ASSUME StoreType, NEW p \in Partitions, NEW id \in Nat, NEW n \in Nat, NEW k \in 0 .. n,
           StoreBatch(p, id, n, k)
    PROVE  /\ shadow' \in SUBSET Shadows
           /\ \A s \in shadow' : s \in shadow \/ (s.at = p /\ s.offset = Len(log[p]) /\ k # 0)
<1> DEFINE added == {[at |-> p, offset |-> Len(log[p]), frame |-> f] : f \in stale[p]}
<1>1. shadow' = IF k = 0 THEN shadow ELSE shadow \cup added
  BY DEF StoreBatch
<1>2. \A s \in added : s \in Shadows /\ s.at = p /\ s.offset = Len(log[p])
  <2>1. Len(log[p]) \in Nat
    BY DEF StoreType
  <2> QED
    BY <2>1 DEF StoreType, Shadows
<1> HIDE DEF added
<1> QED
  BY <1>1, <1>2 DEF StoreType

\* What an append does to the store, complete or cut short: the log of the
\* partition grows by the first k records of the batch and nothing else changes.
LEMMA StoreBatchProperties ==
    ASSUME StoreType, NEW p \in Partitions, NEW id \in Nat, NEW n \in Nat, NEW k \in 0 .. n,
           StoreBatch(p, id, n, k)
    PROVE  /\ StoreType' /\ catalogue' = catalogue
           /\ \A q \in Partitions : /\ Len(log[q]) <= Len(log'[q])
                                    /\ \A i \in 1 .. Len(log[q]) : log'[q][i] = log[q][i]
           /\ Len(log'[p]) = Len(log[p]) + k
           /\ \A i \in 1 .. k : log'[p][Len(log[p]) + i] = Batch(id, n)[i]
<1> DEFINE b == SubSeq(Batch(id, n), 1, k)
<1>1. b \in Seq(StoredRecords) /\ Len(b) = k /\ \A i \in 1 .. k : b[i] = Batch(id, n)[i]
  <2>1. \A i \in 1 .. k : Batch(id, n)[i] \in StoredRecords
    <3>1. \A i \in 1 .. n : Batch(id, n)[i] \in StoredRecords
      BY BatchProperties, ElementOfSeq
    <3> QED BY <3>1
  <2>2. k \in Int /\ 1 \in Int
    OBVIOUS
  <2>3. /\ b \in Seq(StoredRecords) /\ Len(b) = IF 1 <= k THEN k - 1 + 1 ELSE 0
        /\ \A i \in 1 .. k - 1 + 1 : b[i] = Batch(id, n)[1 + i - 1]
    BY <2>1, <2>2, SubSeqProperties
  <2> QED
    BY <2>3
<1>2. log[p] \in Seq(StoredRecords) /\ Len(log[p]) \in Nat
  BY DEF StoreType
<1>3. log' = [log EXCEPT ![p] = @ \o b] /\ catalogue' = catalogue
  BY DEF StoreBatch
<1> HIDE DEF b
<1>4. /\ log[p] \o b \in Seq(StoredRecords) /\ Len(log[p] \o b) = Len(log[p]) + k
      /\ \A i \in 1 .. Len(log[p]) + k :
           (log[p] \o b)[i] = IF i <= Len(log[p]) THEN log[p][i] ELSE b[i - Len(log[p])]
  BY <1>1, <1>2, ConcatProperties
<1>5. log'[p] = log[p] \o b /\ \A q \in Partitions : q # p => log'[q] = log[q]
  BY <1>3 DEF StoreType
<1>6. log' \in [Partitions -> Seq(StoredRecords)]
  BY <1>3, <1>4 DEF StoreType
<1>7. PICK h \in IF k = n THEN HeadsAfter(p, Len(log[p]) + n) ELSE {start[p]} :
        start' = [start EXCEPT ![p] = h]
  BY DEF StoreBatch
<1>8. h \in Nat /\ h <= Len(log[p]) + k
  <2>1. start[p] \in Nat /\ start[p] <= Len(log[p])
    BY DEF StoreType
  <2> QED
    BY <1>2, <1>7, <2>1, EngineAssumption DEF HeadsAfter
<1>9. start' \in [Partitions -> Nat] /\ \A q \in Partitions : start'[q] <= Len(log'[q])
  BY <1>4, <1>5, <1>7, <1>8 DEF StoreType
<1>a. /\ shadow' \in SUBSET Shadows
      /\ \A s \in shadow' : s \in shadow \/ (s.at = p /\ s.offset = Len(log[p]) /\ k # 0)
  BY StoreBatchShadow
<1>b. stale' \in [Partitions -> SUBSET StoredRecords]
  <2>1. PICK left \in SUBSET (IF k = n THEN {} ELSE {[id |-> id, i |-> k + 1]}) :
          stale' = [stale EXCEPT ![p] = IF k = 0 THEN @ \cup left ELSE left]
    BY DEF StoreBatch
  <2>2. left \in SUBSET StoredRecords
    <3>1. [id |-> id, i |-> k + 1] \in StoredRecords
      BY DEF StoredRecords
    <3> QED BY <2>1, <3>1
  <2>3. stale[p] \cup left \in SUBSET StoredRecords
    BY <2>2 DEF StoreType
  <2>4. \E new \in SUBSET StoredRecords : stale' = [stale EXCEPT ![p] = new]
    BY <2>1, <2>2, <2>3
  <2> QED
    BY <2>4 DEF StoreType
<1>c. \A s \in shadow' : s.offset < Len(log'[s.at])
  <2> SUFFICES ASSUME NEW s \in shadow' PROVE s.offset < Len(log'[s.at])
    OBVIOUS
  <2>1. CASE s \in shadow /\ s.at = p
    <3>1. s.offset \in Nat /\ s.offset < Len(log[p])
      BY <2>1 DEF StoreType, Shadows
    <3> QED BY <1>2, <1>4, <1>5, <2>1, <3>1
  <2>2. CASE s \in shadow /\ s.at # p
    <3>1. s.at \in Partitions /\ s.offset < Len(log[s.at])
      BY <2>2 DEF StoreType, Shadows
    <3> QED BY <1>5, <2>2, <3>1
  <2>3. CASE s.at = p /\ s.offset = Len(log[p]) /\ k # 0
    BY <1>2, <1>4, <1>5, <2>3
  <2> QED BY <1>a, <2>1, <2>2, <2>3
<1>10. StoreType'
  BY <1>3, <1>6, <1>9, <1>a, <1>b, <1>c DEF StoreType
<1>11. \A q \in Partitions : /\ Len(log[q]) <= Len(log'[q])
                             /\ \A i \in 1 .. Len(log[q]) : log'[q][i] = log[q][i]
  <2> SUFFICES ASSUME NEW q \in Partitions
               PROVE  /\ Len(log[q]) <= Len(log'[q])
                      /\ \A i \in 1 .. Len(log[q]) : log'[q][i] = log[q][i]
    OBVIOUS
  <2>1. Len(log[q]) \in Nat
    BY DEF StoreType
  <2>2. CASE q = p
    BY <1>2, <1>4, <1>5, <2>2
  <2>3. CASE q # p
    BY <1>5, <2>1, <2>3
  <2> QED BY <2>2, <2>3
<1>12. \A i \in 1 .. k : log'[p][Len(log[p]) + i] = Batch(id, n)[i]
  BY <1>1, <1>2, <1>4, <1>5
<1> QED
  BY <1>3, <1>4, <1>5, <1>10, <1>11, <1>12

\* create_topic adds a name to the catalogue and never changes one.
LEMMA StoreTopicProperties ==
    ASSUME StoreType, NEW t \in Topics, NEW count \in Counts, StoreTopic(t, count)
    PROVE  /\ StoreType' /\ log' = log /\ shadow' = shadow
           /\ DOMAIN catalogue' = DOMAIN catalogue \cup {t}
           /\ \A u \in DOMAIN catalogue : catalogue'[u] = catalogue[u]
BY DEF StoreType, StoreTopic

-----------------------------------------------------------------------------
(* Type correctness                                                        *)

\* A step of one client that leaves it with request r.
LEMMA RequestStep ==
    ASSUME RequestType, NEW c \in Clients, NEW r \in Requests, WellFormed(r), Routed(catalogue', r),
           req' = [req EXCEPT ![c] = r],
           \A t \in DOMAIN catalogue : t \in DOMAIN catalogue' /\ catalogue'[t] = catalogue[t],
           late' \subseteq late \cup {req[c]}
    PROVE  RequestType'
<1>1. req'[c] = r /\ \A d \in Clients : d # c => req'[d] = req[d]
  BY DEF RequestType
<1>2. \A d \in Clients : WellFormed(req'[d])
  BY <1>1 DEF RequestType
<1>3. \A d \in Clients : Routed(catalogue', req'[d])
  BY <1>1 DEF RequestType, Routed
<1>4. late' \in SUBSET Requests /\ \A j \in late' : WellFormed(j)
  BY DEF RequestType
<1> QED
  BY <1>2, <1>3, <1>4 DEF RequestType

\* An answer leaves the client idle.
LEMMA AnswerType ==
    ASSUME TypeInv, NEW c \in Clients, NEW result \in Results, Answer(c, result),
           \A t \in DOMAIN catalogue : t \in DOMAIN catalogue' /\ catalogue'[t] = catalogue[t],
           late' \subseteq late \cup {req[c]}
    PROVE  RequestType' /\ \A a \in answers' : a.result \in Results
<1>1. Routed(catalogue', Idle)
  BY IdleRequest DEF Routed
<1>2. RequestType'
  BY <1>1, IdleRequest, RequestStep DEF TypeInv, Answer
<1> QED
  BY <1>2 DEF Answer, TypeInv, OtherType

\* An answer, or another request of the same client, that leaves the store alone.
LEMMA ProceedType ==
    ASSUME TypeInv, NEW c \in Clients, NEW r \in Requests, Proceed(c, r),
           WellFormed([r EXCEPT !.attempt = 0]), Routed(catalogue', [r EXCEPT !.attempt = 0]),
           \A t \in DOMAIN catalogue : t \in DOMAIN catalogue' /\ catalogue'[t] = catalogue[t],
           late' = late
    PROVE  RequestType' /\ answers' = answers
<1>1. [r EXCEPT !.attempt = 0] \in Requests
  BY EngineAssumption DEF Requests
<1> QED
  BY <1>1, RequestStep DEF TypeInv, Proceed

\* What one more event does to the bus.
LEMMA PublishProperties ==
    ASSUME OtherType, NEW e \in LogEvents, Publish(e)
    PROVE  /\ bus' \in Seq(LogEvents) /\ Len(bus) \in Nat /\ Len(bus') = Len(bus) + 1
           /\ \A i \in 1 .. Len(bus) : bus'[i] = bus[i]
           /\ bus'[Len(bus) + 1] = e
           /\ DOMAIN bus' = DOMAIN bus \cup {Len(bus) + 1} /\ Len(bus) + 1 \notin DOMAIN bus
<1>1. /\ bus' \in Seq(LogEvents) /\ Len(bus) \in Nat /\ Len(bus') = Len(bus) + 1
      /\ \A i \in 1 .. Len(bus) : bus'[i] = bus[i]
      /\ bus'[Len(bus) + 1] = e
  BY AppendProperties DEF OtherType, Publish
<1>2. DOMAIN bus = 1 .. Len(bus) /\ DOMAIN bus' = 1 .. Len(bus')
  BY <1>1 DEF OtherType
<1> QED
  BY <1>1, <1>2

\* Every await of create_topic and produce, every fault and every late job keeps
\* the types.
LEMMA TypeStep == TypeInv /\ [Next]_vars => TypeInv'
<1> SUFFICES ASSUME TypeInv, [Next]_vars PROVE TypeInv'
  OBVIOUS
<1> USE DEF TypeInv
<1>0. StoreType /\ RequestType /\ OtherType
      /\ \A c \in Clients : req[c] \in Requests /\ WellFormed(req[c]) /\ Routed(catalogue, req[c])
  BY DEF RequestType
<1>a. ASSUME UNCHANGED store PROVE StoreType'
  BY <1>0, <1>a DEF StoreType, store
<1>1. ASSUME NEW c \in Clients, CreateTopic(c) PROVE TypeInv'
  <2>1. PICK t \in Topics, asked \in AskedPartitions :
          req' = [req EXCEPT ![c] = [Idle EXCEPT !.pc = "list", !.id = issued + 1, !.topic = t,
                                                 !.partitions = PartitionsFor(asked)]]
    BY <1>1 DEF CreateTopic
  <2> DEFINE n == PartitionsFor(asked)
             r == [Idle EXCEPT !.pc = "list", !.id = issued + 1, !.topic = t, !.partitions = n]
  <2>2. n \in Counts /\ n \in Nat
    BY CountsPositive DEF Counts
  <2>3. issued + 1 \in 0 .. MaxRequests /\ issued + 1 \in Nat
    BY <1>1, EngineAssumption DEF CreateTopic, OtherType
  <2> HIDE DEF n
  <2>4. r \in Requests /\ WellFormed(r) /\ r.pc = "list"
    BY <2>2, <2>3, IdleRequest DEF Requests, WellFormed, PCs, StoreCalls
  <2>5. RequestType'
    <3>1. Routed(catalogue', r)
      BY <2>4 DEF Routed
    <3> QED
      BY <1>1, <2>1, <2>4, <3>1, RequestStep DEF CreateTopic, store, n
  <2> QED
    BY <1>1, <1>a, <2>3, <2>5 DEF CreateTopic, OtherType
<1>2. ASSUME NEW c \in Clients, Produce(c) PROVE TypeInv'
  <2>1. PICK t \in Topics, key \in Keys \cup {NoKey}, n \in 1 .. MaxBatch :
          /\ Admitted(n) /\ tokens' = tokens - n
          /\ req' = [req EXCEPT ![c] = [Idle EXCEPT !.pc = "count", !.id = issued + 1,
                                                    !.topic = t, !.key = key, !.n = n]]
    BY <1>2 DEF Produce
  <2> DEFINE r == [Idle EXCEPT !.pc = "count", !.id = issued + 1, !.topic = t, !.key = key,
                               !.n = n]
  <2>2. issued + 1 \in 0 .. MaxRequests /\ issued + 1 \in Nat /\ n \in Nat /\ n >= 1
    <3>1. issued < MaxRequests /\ issued \in 0 .. MaxRequests
      BY <1>2 DEF Produce, OtherType
    <3> QED
      BY <3>1, EngineAssumption
  <2>3. r \in Requests /\ WellFormed(r) /\ r.pc = "count"
    BY <2>2, IdleRequest DEF Requests, WellFormed, PCs, StoreCalls
  <2>4. RequestType'
    <3>1. Routed(catalogue', r)
      BY <2>3 DEF Routed
    <3> QED
      BY <1>2, <2>1, <2>3, <3>1, RequestStep DEF Produce, store
  <2>5. tokens' \in 0 .. Capacity
    BY <2>1, <2>2, CapacityType DEF Admitted, OtherType
  <2> QED
    BY <1>2, <1>a, <2>2, <2>4, <2>5 DEF Produce, OtherType
<1>3. ASSUME NEW c \in Clients, RefuseProduce(c) PROVE TypeInv'
  <2>1. tokens' \in 0 .. Capacity
    BY <1>3, CapacityType, EngineAssumption DEF RefuseProduce, Admitted, OtherType
  <2>2. RequestType'
    BY <1>3 DEF RefuseProduce, RequestType, Routed, store
  <2> QED
    BY <1>3, <1>a, <2>1, <2>2 DEF RefuseProduce, OtherType
<1>4. CASE Refill
  <2>1. tokens' \in 0 .. Capacity
    BY <1>4, CapacityType DEF Refill, OtherType
  <2>2. RequestType'
    BY <1>4 DEF Refill, RequestType, Routed, store
  <2> QED
    BY <1>4, <1>a, <2>1, <2>2 DEF Refill, OtherType
<1>b. ASSUME NEW c \in Clients, NEW result \in Results, Answer(c, result), StoreType',
             catalogue' = catalogue,
             late' \subseteq late \cup {req[c]}, tokens' = tokens, round_robin' = round_robin,
             bus' \in Seq(LogEvents), issued' = issued, faults' \in 0 .. MaxFaults
      PROVE  TypeInv'
  <2>1. RequestType' /\ \A a \in answers' : a.result \in Results
    BY <1>b, AnswerType
  <2> QED
    BY <1>b, <2>1 DEF OtherType
<1>5. ASSUME NEW c \in Clients, ListTopics(c) PROVE TypeInv'
  <2>1. CASE Cardinality(DOMAIN catalogue) >= MaxTopics
    BY <1>5, <1>a, <1>b, <2>1 DEF ListTopics, Results, store, OtherType
  <2>2. CASE ~(Cardinality(DOMAIN catalogue) >= MaxTopics)
    <3> DEFINE r == [req[c] EXCEPT !.pc = "create"]
    <3>1. r \in Requests /\ [r EXCEPT !.attempt = 0].pc = "create"
          /\ WellFormed([r EXCEPT !.attempt = 0])
      BY <1>0, <1>5 DEF ListTopics, Requests, PCs, StoreCalls, WellFormed
    <3>2. RequestType' /\ answers' = answers
      BY <1>5, <2>2, <3>1, ProceedType DEF ListTopics, Routed, store
    <3> QED
      BY <1>5, <1>a, <3>2 DEF ListTopics, OtherType
  <2> QED BY <2>1, <2>2
<1>6. ASSUME NEW c \in Clients, CreateInStore(c) PROVE TypeInv'
  <2>1. /\ StoreType' /\ \A t \in DOMAIN catalogue : t \in DOMAIN catalogue'
                                                     /\ catalogue'[t] = catalogue[t]
    BY <1>0, <1>6, StoreTopicProperties DEF CreateInStore, WellFormed
  <2>2. CASE req[c].topic \in DOMAIN catalogue
    <3>1. RequestType' /\ \A a \in answers' : a.result \in Results
      BY <1>6, <2>1, <2>2, AnswerType DEF CreateInStore, Results
    <3> QED
      BY <1>6, <2>1, <3>1 DEF CreateInStore, OtherType
  <2>3. CASE req[c].topic \notin DOMAIN catalogue
    <3> DEFINE r == [req[c] EXCEPT !.pc = "publishCreated"]
    <3>1. r \in Requests /\ [r EXCEPT !.attempt = 0].pc = "publishCreated"
          /\ WellFormed([r EXCEPT !.attempt = 0])
      BY <1>0, <1>6 DEF CreateInStore, Requests, PCs, StoreCalls, WellFormed
    <3>2. RequestType' /\ answers' = answers
      BY <1>6, <2>1, <2>3, <3>1, ProceedType DEF CreateInStore, Routed
    <3> QED
      BY <1>6, <2>1, <3>2 DEF CreateInStore, OtherType
  <2> QED BY <2>2, <2>3
<1>7. ASSUME NEW c \in Clients, PublishCreated(c) PROVE TypeInv'
  <2> DEFINE e == [kind |-> "TopicCreated", topic |-> req[c].topic]
  <2>1. e \in LogEvents
    BY <1>0, <1>7 DEF PublishCreated, WellFormed, LogEvents
  <2>2. bus' \in Seq(LogEvents)
    BY <1>0, <1>7, <2>1, PublishProperties DEF PublishCreated
  <2> QED
    BY <1>7, <1>a, <1>b, <2>2 DEF PublishCreated, Results, store, OtherType
<1>8. ASSUME NEW c \in Clients, CountPartitions(c) PROVE TypeInv'
  <2>1. CASE req[c].topic \in DOMAIN catalogue
    <3> DEFINE count == catalogue[req[c].topic]
               p == [topic |-> req[c].topic, index |-> Route(req[c].key, count)]
               r == [req[c] EXCEPT !.pc = "append", !.at = p]
               q == [r EXCEPT !.attempt = 0]
    <3>1. req[c].topic \in Topics /\ req[c].key \in Keys \cup {NoKey} /\ count \in Counts
          /\ req[c].n >= 1
      BY <1>0, <1>8, <2>1 DEF CountPartitions, Requests, WellFormed, StoreType
    <3>2. p \in Partitions /\ p.index \in 0 .. count - 1
      BY <1>0, <3>1, RouteProperties DEF OtherType
    <3>3. Proceed(c, r) /\ round_robin' \in Nat
          /\ UNCHANGED <<store, late, tokens, bus, issued, faults>>
      BY <1>0, <1>8, <2>1 DEF CountPartitions, OtherType
    <3> HIDE DEF p
    <3>4. r \in Requests
      BY <1>0, <3>2 DEF Requests, PCs, StoreCalls
    <3>5. q.pc = "append" /\ q.at = p /\ q.topic = req[c].topic /\ q.n = req[c].n
      BY <1>0 DEF Requests
    <3> HIDE DEF r, q
    <3>6. WellFormed(q)
      BY <3>1, <3>2, <3>5 DEF WellFormed
    <3>7. Routed(catalogue', q)
      BY <2>1, <3>2, <3>3, <3>5 DEF Routed, store
    <3>8. RequestType' /\ answers' = answers
      BY <3>3, <3>4, <3>6, <3>7, ProceedType DEF store, q
    <3> QED
      BY <1>a, <3>3, <3>8 DEF OtherType
  <2>2. CASE req[c].topic \notin DOMAIN catalogue
    BY <1>8, <1>a, <1>b, <2>2 DEF CountPartitions, Results, store, OtherType
  <2> QED BY <2>1, <2>2
<1>9. ASSUME NEW c \in Clients, AppendToStore(c) PROVE TypeInv'
  <2> DEFINE b == Len(log[req[c].at])
             h == IF start' = start THEN 0 ELSE start'[req[c].at]
             r == [req[c] EXCEPT !.pc = "publishAppended", !.base = b, !.truncated = h]
             q == [r EXCEPT !.attempt = 0]
  <2>1. req[c].at \in Partitions /\ req[c].n \in Nat /\ req[c].n >= 1 /\ req[c].id \in Nat
    BY <1>0, <1>9 DEF AppendToStore, WellFormed, Requests
  <2>2. StoreType' /\ catalogue' = catalogue
    <3>1. req[c].n \in 0 .. req[c].n /\ StoreBatch(req[c].at, req[c].id, req[c].n, req[c].n)
      BY <1>9, <2>1 DEF AppendToStore
    <3> QED
      BY <1>0, <2>1, <3>1, StoreBatchProperties
  <2>3. b \in Nat /\ h \in Nat
    BY <1>0, <2>1, <2>2 DEF StoreType
  <2>4. Proceed(c, r) /\ UNCHANGED <<late, tokens, round_robin, bus, issued, faults>>
    BY <1>9 DEF AppendToStore
  <2> HIDE DEF b, h
  <2>5. r \in Requests
    BY <1>0, <2>3 DEF Requests, PCs
  <2>6. q.pc = "publishAppended" /\ q.at = req[c].at /\ q.n = req[c].n
    BY <1>0 DEF Requests
  <2> HIDE DEF r, q
  <2>7. WellFormed(q)
    BY <2>1, <2>6 DEF WellFormed
  <2>8. Routed(catalogue', q)
    BY <2>6 DEF Routed
  <2>9. RequestType' /\ answers' = answers
    BY <2>2, <2>4, <2>5, <2>7, <2>8, ProceedType DEF q
  <2> QED
    BY <2>2, <2>4, <2>9 DEF OtherType
<1>10. ASSUME NEW c \in Clients, PublishAppended(c) PROVE TypeInv'
  <2> DEFINE e == [kind |-> "RecordsAppended", at |-> req[c].at, base |-> req[c].base,
                   records |-> Batch(req[c].id, req[c].n)]
             r == [req[c] EXCEPT !.pc = "publishTruncated"]
             q == [r EXCEPT !.attempt = 0]
  <2>1. /\ req[c].at \in Partitions /\ req[c].n \in Nat /\ req[c].n >= 1
        /\ req[c].id \in Nat /\ req[c].base \in Nat
    BY <1>0, <1>10 DEF PublishAppended, WellFormed, Requests
  <2>2. e \in LogEvents
    BY <2>1, BatchProperties DEF LogEvents
  <2>3. bus' \in Seq(LogEvents)
    BY <1>0, <1>10, <2>2, PublishProperties DEF PublishAppended
  <2>4. CASE req[c].truncated = 0
    BY <1>10, <1>a, <1>b, <2>3, <2>4 DEF PublishAppended, Results, store, OtherType
  <2>5. CASE req[c].truncated # 0
    <3>1. Proceed(c, r) /\ UNCHANGED <<store, late, tokens, round_robin, issued, faults>>
      BY <1>10, <2>5 DEF PublishAppended
    <3>2. r \in Requests
      BY <1>0 DEF Requests, PCs
    <3>3. q.pc = "publishTruncated" /\ q.at = req[c].at /\ q.n = req[c].n
      BY <1>0 DEF Requests
    <3> HIDE DEF r, q
    <3>4. WellFormed(q) /\ Routed(catalogue', q)
      BY <2>1, <3>3 DEF WellFormed, Routed
    <3>5. RequestType' /\ answers' = answers
      BY <3>1, <3>2, <3>4, ProceedType DEF store, q
    <3> QED
      BY <1>a, <2>3, <3>1, <3>5 DEF OtherType
  <2> QED BY <2>4, <2>5
<1>11. ASSUME NEW c \in Clients, PublishTruncated(c) PROVE TypeInv'
  <2> DEFINE e == [kind |-> "RecordsTruncated", at |-> req[c].at, new_start |-> req[c].truncated]
  <2>1. e \in LogEvents
    BY <1>0, <1>11 DEF PublishTruncated, WellFormed, Requests, LogEvents
  <2>2. bus' \in Seq(LogEvents)
    BY <1>0, <1>11, <2>1, PublishProperties DEF PublishTruncated
  <2> QED
    BY <1>11, <1>a, <1>b, <2>2 DEF PublishTruncated, Results, store, OtherType
<1>c. ASSUME Fault PROVE faults' \in 0 .. MaxFaults
  BY <1>c, EngineAssumption DEF Fault, OtherType
<1>12. ASSUME NEW c \in Clients, StoreError(c) PROVE TypeInv'
  <2>1. StoreType' /\ catalogue' = catalogue
    <3>1. CASE req[c].pc = "append"
      <4>1. req[c].at \in Partitions /\ req[c].n \in Nat /\ req[c].id \in Nat
        BY <1>0, <3>1 DEF WellFormed, Requests
      <4>2. PICK k \in 0 .. req[c].n : StoreBatch(req[c].at, req[c].id, req[c].n, k)
        BY <1>12, <3>1 DEF StoreError
      <4> QED
        BY <1>0, <4>1, <4>2, StoreBatchProperties
    <3>2. CASE req[c].pc # "append"
      BY <1>12, <1>a, <3>2 DEF StoreError, store
    <3> QED BY <3>1, <3>2
  <2>2. CASE req[c].attempt + 1 < RetryAttempts
    <3> DEFINE a == req[c].attempt + 1
               r == [req[c] EXCEPT !.attempt = a]
    <3>1. a \in 0 .. RetryAttempts - 1
      BY <1>0, <2>2, EngineAssumption DEF Requests
    <3> HIDE DEF a
    <3>2. req' = [req EXCEPT ![c] = r] /\ answers' = answers
      BY <1>12, <2>2 DEF StoreError, a, RequestType
    <3>3. r \in Requests
      BY <1>0, <3>1 DEF Requests
    <3>4. r.pc = req[c].pc /\ r.at = req[c].at /\ r.n = req[c].n /\ r.topic = req[c].topic
          /\ r.partitions = req[c].partitions
      BY <1>0 DEF Requests
    <3> HIDE DEF r
    <3>5. WellFormed(r) /\ Routed(catalogue', r)
      BY <1>0, <2>1, <3>4 DEF WellFormed, Routed
    <3>6. RequestType'
      BY <1>0, <1>12, <2>1, <3>2, <3>3, <3>5, RequestStep DEF StoreError
    <3> QED
      BY <1>12, <1>c, <2>1, <3>2, <3>6 DEF StoreError, OtherType
  <2>3. CASE ~(req[c].attempt + 1 < RetryAttempts)
    BY <1>12, <1>b, <1>c, <2>1, <2>3 DEF StoreError, Results, OtherType
  <2> QED BY <2>2, <2>3
<1>13. ASSUME NEW c \in Clients, StorePermanentError(c) PROVE TypeInv'
  BY <1>13, <1>a, <1>b, <1>c DEF StorePermanentError, Results, store, OtherType
<1>14. ASSUME NEW c \in Clients, StoreTimeout(c) PROVE TypeInv'
  BY <1>14, <1>a, <1>b, <1>c DEF StoreTimeout, Results, store, OtherType
<1>15. ASSUME NEW j \in late, LateJob(j) PROVE TypeInv'
  <2>1. j \in Requests /\ WellFormed(j)
    BY <1>0 DEF RequestType
  <2>2. StoreType' /\ \A t \in DOMAIN catalogue : t \in DOMAIN catalogue'
                                                  /\ catalogue'[t] = catalogue[t]
    <3>1. CASE j.pc = "create" /\ StoreTopic(j.topic, j.partitions)
      BY <1>0, <2>1, <3>1, StoreTopicProperties DEF WellFormed
    <3>2. CASE j.pc = "append" /\ \E k \in 0 .. j.n : StoreBatch(j.at, j.id, j.n, k)
      <4>1. j.at \in Partitions /\ j.n \in Nat /\ j.id \in Nat
        BY <2>1, <3>2 DEF WellFormed, Requests
      <4> QED
        BY <1>0, <3>2, <4>1, StoreBatchProperties
    <3> QED BY <1>15, <3>1, <3>2 DEF LateJob
  <2>3. RequestType'
    BY <1>0, <1>15, <2>2 DEF LateJob, RequestType, Routed
  <2> QED
    BY <1>15, <2>2, <2>3 DEF LateJob, OtherType
<1>16. CASE UNCHANGED vars
  <2>1. RequestType'
    BY <1>16 DEF vars, store, RequestType, Routed
  <2> QED
    BY <1>16, <1>a, <2>1 DEF vars, OtherType
<1> QED
  BY <1>1, <1>2, <1>3, <1>4, <1>5, <1>6, <1>7, <1>8, <1>9, <1>10, <1>11, <1>12, <1>13,
     <1>14, <1>15, <1>16 DEF Next, Continue

\* Init gives every variable its type.
LEMMA TypeInit == Init => TypeInv
<1> SUFFICES ASSUME Init PROVE TypeInv
  OBVIOUS
<1>1. StoreType
  BY DEF Init, StoreType
<1>2. RequestType
  BY IdleRequest DEF Init, RequestType, Routed
<1>3. OtherType
  BY CapacityType, EngineAssumption DEF Init, OtherType
<1> QED
  BY <1>1, <1>2, <1>3 DEF TypeInv

\* The types the engine run checks.
LEMMA TypeInvImplies == TypeInv => TypeOK
<1> SUFFICES ASSUME TypeInv PROVE TypeOK
  OBVIOUS
<1>1. /\ DOMAIN catalogue \subseteq Topics
      /\ \A t \in DOMAIN catalogue : catalogue[t] \in Counts
      /\ \A p \in Partitions : start[p] \in 0 .. Len(log[p])
  BY DEF TypeInv, StoreType
<1>2. \A i \in DOMAIN bus : bus[i].kind \in EventKinds
  <2>1. \A i \in DOMAIN bus : bus[i] \in LogEvents
    BY DEF TypeInv, OtherType
  <2>2. \A e \in LogEvents : e.kind \in EventKinds
    BY DEF LogEvents, EventKinds
  <2> QED BY <2>1, <2>2
<1>3. \A c \in Clients :
        /\ req[c].pc \in StoreCalls \cup
             {"idle", "publishCreated", "publishAppended", "publishTruncated"}
        /\ req[c].attempt \in 0 .. RetryAttempts - 1
        /\ req[c].pc = "append" => req[c].at.index \in 0 .. catalogue[req[c].topic] - 1
  <2> TAKE c \in Clients
  <2>1. req[c] \in Requests /\ Routed(catalogue, req[c])
    BY DEF TypeInv, RequestType
  <2> QED
    BY <2>1 DEF Requests, PCs, Routed
<1> QED
  BY <1>1, <1>2, <1>3 DEF TypeInv, OtherType, TypeOK

\* Types, the bucket's bounds and routing to a partition the topic has, for any
\* number of clients, requests, faults and abandoned store jobs.
THEOREM TypeCorrect == Spec => []TypeOK
<1>1. Spec => []TypeInv
  BY TypeInit, TypeStep, PTL DEF Spec
<1> QED
  BY <1>1, TypeInvImplies, PTL

-----------------------------------------------------------------------------
(* The steps, by what they do to a request and to the bus                  *)

\* Client c begins request r.
Issues(c, r) ==
    /\ req[c].pc = "idle" /\ r.pc \in {"list", "count"}
    /\ r.id = issued + 1 /\ issued' = issued + 1
    /\ req' = [req EXCEPT ![c] = r]
    /\ UNCHANGED <<bus, answers>>

\* Client c goes on after a store call, with what the call returned in r.
Moves(c, r) ==
    /\ req[c].pc \in StoreCalls
    /\ r.pc \in StoreCalls \cup {"publishCreated", "publishAppended"} /\ r.id = req[c].id
    /\ r.pc = "publishAppended" => Stands(log', shadow', r.at, r.base, Batch(r.id, r.n))
    /\ r.pc = "publishCreated" => r.topic \in DOMAIN catalogue' \ DOMAIN catalogue
    /\ req' = [req EXCEPT ![c] = r]
    /\ UNCHANGED <<bus, answers, issued>>

\* Client c is told an error, and nothing is published.
Fails(c) ==
    /\ req[c].pc \in StoreCalls
    /\ \E result \in Results \ {"Created", "Produced"} : Answer(c, result)
    /\ UNCHANGED <<bus, issued>>

\* No request is touched.
Rests == UNCHANGED <<req, bus, answers, issued>>

\* The store never takes back a record or a topic, and what failed attempts left
\* gets in only behind what is stored.
LEMMA StoreGrows ==
    ASSUME TypeInv, [Next]_vars
    PROVE  /\ \A q \in Partitions : /\ Len(log[q]) <= Len(log'[q])
                                    /\ \A i \in 1 .. Len(log[q]) : log'[q][i] = log[q][i]
           /\ \A s \in shadow' : s \in shadow \/ s.offset = Len(log[s.at])
           /\ DOMAIN catalogue \subseteq DOMAIN catalogue'
<1> DEFINE Grows == /\ \A q \in Partitions : /\ Len(log[q]) <= Len(log'[q])
                                             /\ \A i \in 1 .. Len(log[q]) : log'[q][i] = log[q][i]
                    /\ \A s \in shadow' : s \in shadow \/ s.offset = Len(log[s.at])
                    /\ DOMAIN catalogue \subseteq DOMAIN catalogue'
<1>1. ASSUME UNCHANGED store PROVE Grows
  <2>1. \A q \in Partitions : Len(log[q]) \in Nat
    BY DEF TypeInv, StoreType
  <2> QED BY <1>1, <2>1 DEF store
<1>2. ASSUME NEW r \in Requests, WellFormed(r), r.pc = "append",
             \E k \in 0 .. r.n : StoreBatch(r.at, r.id, r.n, k)
      PROVE  Grows
  <2>1. r.at \in Partitions /\ r.n \in Nat /\ r.id \in Nat
    BY <1>2 DEF WellFormed, Requests
  <2> QED
    BY <1>2, <2>1, StoreBatchProperties, StoreBatchShadow DEF TypeInv
<1>3. ASSUME NEW r \in Requests, WellFormed(r), r.pc = "create", StoreTopic(r.topic, r.partitions)
      PROVE  Grows
  <2>1. \A q \in Partitions : Len(log[q]) \in Nat
    BY DEF TypeInv, StoreType
  <2>2. log' = log /\ shadow' = shadow /\ DOMAIN catalogue \subseteq DOMAIN catalogue'
    BY <1>3, StoreTopicProperties DEF TypeInv, WellFormed
  <2> QED BY <2>1, <2>2
<1>4. \A c \in Clients : req[c] \in Requests /\ WellFormed(req[c])
  BY DEF TypeInv, RequestType
<1>5. \A j \in late : j \in Requests /\ WellFormed(j)
  BY DEF TypeInv, RequestType
<1> HIDE DEF Grows
<1>6. ASSUME NEW c \in Clients, CreateInStore(c) PROVE Grows
  BY <1>3, <1>4, <1>6 DEF CreateInStore
<1>7. ASSUME NEW c \in Clients, AppendToStore(c) PROVE Grows
  <2>1. req[c].n \in 0 .. req[c].n
    BY <1>4 DEF Requests
  <2> QED
    BY <1>2, <1>4, <1>7, <2>1 DEF AppendToStore
<1>8. ASSUME NEW c \in Clients, StoreError(c) PROVE Grows
  BY <1>1, <1>2, <1>4, <1>8 DEF StoreError
<1>9. ASSUME NEW j \in late, LateJob(j) PROVE Grows
  BY <1>2, <1>3, <1>5, <1>9 DEF LateJob
<1>10. ASSUME NEW c \in Clients,
              CreateTopic(c) \/ Produce(c) \/ RefuseProduce(c) \/ ListTopics(c) \/ PublishCreated(c)
       PROVE  UNCHANGED store
  BY <1>10 DEF CreateTopic, Produce, RefuseProduce, ListTopics, PublishCreated
<1>11. ASSUME NEW c \in Clients,
              \/ CountPartitions(c) \/ PublishAppended(c) \/ PublishTruncated(c)
              \/ StorePermanentError(c) \/ StoreTimeout(c)
       PROVE  UNCHANGED store
  BY <1>11 DEF CountPartitions, PublishAppended, PublishTruncated, StorePermanentError, StoreTimeout
<1>12. ASSUME Refill \/ UNCHANGED vars PROVE UNCHANGED store
  BY <1>12 DEF Refill, vars
<1>13. Grows
  BY <1>1, <1>6, <1>7, <1>8, <1>9, <1>10, <1>11, <1>12 DEF Next, Continue
<1> QED
  BY <1>13 DEF Grows

\* Every step rests, begins a request, goes on with one, fails one, or publishes.
LEMMA StepKinds ==
    ASSUME TypeInv, [Next]_vars
    PROVE  \/ Rests
           \/ \E c \in Clients :
                \/ \E r \in Requests : Issues(c, r) \/ Moves(c, r)
                \/ Fails(c)
                \/ PublishCreated(c) \/ PublishAppended(c) \/ PublishTruncated(c)
<1> DEFINE Begins(c) == \E r \in Requests : Issues(c, r)
           Goes(c) == \E r \in Requests : Moves(c, r)
<1>0. \A c \in Clients : req[c] \in Requests /\ WellFormed(req[c])
  BY DEF TypeInv, RequestType
<1>z. 0 \in 0 .. RetryAttempts - 1
  BY EngineAssumption
<1>1. ASSUME NEW c \in Clients, CreateTopic(c) PROVE Begins(c)
  <2>1. PICK t \in Topics, asked \in AskedPartitions :
          req' = [req EXCEPT ![c] = [Idle EXCEPT !.pc = "list", !.id = issued + 1, !.topic = t,
                                                 !.partitions = PartitionsFor(asked)]]
    BY <1>1 DEF CreateTopic
  <2> DEFINE n == PartitionsFor(asked)
             r == [Idle EXCEPT !.pc = "list", !.id = issued + 1, !.topic = t, !.partitions = n]
  <2>2. n \in Nat
    BY CountsPositive DEF Counts
  <2>3. issued + 1 \in Nat
    BY EngineAssumption DEF TypeInv, OtherType
  <2>4. req' = [req EXCEPT ![c] = r]
    BY <2>1
  <2> HIDE DEF n
  <2>5. r \in Requests /\ r.pc = "list" /\ r.id = issued + 1
    BY <2>2, <2>3, IdleRequest DEF Requests, PCs, StoreCalls
  <2> HIDE DEF r
  <2> QED
    BY <1>1, <2>4, <2>5 DEF CreateTopic, Issues
<1>2. ASSUME NEW c \in Clients, Produce(c) PROVE Begins(c)
  <2>1. PICK t \in Topics, key \in Keys \cup {NoKey}, n \in 1 .. MaxBatch :
          req' = [req EXCEPT ![c] = [Idle EXCEPT !.pc = "count", !.id = issued + 1,
                                                 !.topic = t, !.key = key, !.n = n]]
    BY <1>2 DEF Produce
  <2> DEFINE r == [Idle EXCEPT !.pc = "count", !.id = issued + 1, !.topic = t, !.key = key,
                               !.n = n]
  <2>2. issued + 1 \in Nat /\ n \in Nat
    BY EngineAssumption DEF TypeInv, OtherType
  <2>3. r \in Requests /\ r.pc = "count" /\ r.id = issued + 1
    BY <2>2, IdleRequest DEF Requests, PCs, StoreCalls
  <2>4. req' = [req EXCEPT ![c] = r]
    BY <2>1
  <2> HIDE DEF r
  <2> QED
    BY <1>2, <2>3, <2>4 DEF Produce, Issues
<1>3. ASSUME NEW c \in Clients, ListTopics(c) PROVE Goes(c) \/ Fails(c)
  <2>1. CASE Cardinality(DOMAIN catalogue) >= MaxTopics
    BY <1>3, <2>1 DEF ListTopics, Fails, Results, StoreCalls
  <2>2. CASE ~(Cardinality(DOMAIN catalogue) >= MaxTopics)
    <3> DEFINE r == [[req[c] EXCEPT !.pc = "create"] EXCEPT !.attempt = 0]
    <3>1. r \in Requests /\ r.pc = "create" /\ r.id = req[c].id
      BY <1>0, <1>z DEF Requests, PCs, StoreCalls
    <3>2. req' = [req EXCEPT ![c] = r] /\ UNCHANGED <<bus, answers, issued>>
      BY <1>3, <2>2 DEF ListTopics, Proceed
    <3> HIDE DEF r
    <3> QED
      BY <1>3, <3>1, <3>2 DEF ListTopics, Moves, StoreCalls
  <2> QED BY <2>1, <2>2
<1>4. ASSUME NEW c \in Clients, CreateInStore(c) PROVE Goes(c) \/ Fails(c)
  <2>1. CASE req[c].topic \in DOMAIN catalogue
    BY <1>4, <2>1 DEF CreateInStore, Fails, Results, StoreCalls
  <2>2. CASE req[c].topic \notin DOMAIN catalogue
    <3> DEFINE r == [[req[c] EXCEPT !.pc = "publishCreated"] EXCEPT !.attempt = 0]
    <3>1. r \in Requests /\ r.pc = "publishCreated" /\ r.id = req[c].id /\ r.topic = req[c].topic
      BY <1>0, <1>z DEF Requests, PCs, StoreCalls
    <3>2. req' = [req EXCEPT ![c] = r] /\ UNCHANGED <<bus, answers, issued>>
      BY <1>4, <2>2 DEF CreateInStore, Proceed
    <3>3. req[c].topic \in DOMAIN catalogue'
      BY <1>4 DEF CreateInStore, StoreTopic
    <3> HIDE DEF r
    <3> QED
      BY <1>4, <2>2, <3>1, <3>2, <3>3 DEF CreateInStore, Moves, StoreCalls
  <2> QED BY <2>1, <2>2
<1>5. ASSUME NEW c \in Clients, CountPartitions(c) PROVE Goes(c) \/ Fails(c)
  <2>1. CASE req[c].topic \in DOMAIN catalogue
    <3> DEFINE p == [topic |-> req[c].topic, index |-> Route(req[c].key, catalogue[req[c].topic])]
               r == [[req[c] EXCEPT !.pc = "append", !.at = p] EXCEPT !.attempt = 0]
    <3>1. p \in Partitions
      BY <1>0, <1>5, <2>1, RouteProperties
         DEF CountPartitions, Requests, WellFormed, TypeInv, StoreType, OtherType
    <3>2. req' = [req EXCEPT ![c] = r] /\ UNCHANGED <<bus, answers, issued>>
      BY <1>5, <2>1 DEF CountPartitions, Proceed
    <3> HIDE DEF p
    <3>3. r \in Requests /\ r.pc = "append" /\ r.id = req[c].id
      BY <1>0, <1>z, <3>1 DEF Requests, PCs, StoreCalls
    <3> HIDE DEF r
    <3> QED
      BY <1>5, <3>2, <3>3 DEF CountPartitions, Moves, StoreCalls
  <2>2. CASE req[c].topic \notin DOMAIN catalogue
    BY <1>5, <2>2 DEF CountPartitions, Fails, Results, StoreCalls
  <2> QED BY <2>1, <2>2
<1>6. ASSUME NEW c \in Clients, AppendToStore(c) PROVE Goes(c)
  <2> DEFINE b == Len(log[req[c].at])
             h == IF start' = start THEN 0 ELSE start'[req[c].at]
             r == [[req[c] EXCEPT !.pc = "publishAppended", !.base = b, !.truncated = h]
                     EXCEPT !.attempt = 0]
  <2>1. req[c].at \in Partitions /\ req[c].n \in Nat /\ req[c].id \in Nat
    BY <1>0, <1>6 DEF AppendToStore, WellFormed, Requests
  <2>2. /\ StoreType' /\ Len(log'[req[c].at]) = b + req[c].n
        /\ \A i \in 1 .. req[c].n : log'[req[c].at][b + i] = Batch(req[c].id, req[c].n)[i]
        /\ \A s \in shadow' : s \in shadow \/ s.offset = b
    <3>1. req[c].n \in 0 .. req[c].n /\ StoreBatch(req[c].at, req[c].id, req[c].n, req[c].n)
      BY <1>6, <2>1 DEF AppendToStore
    <3>2. /\ StoreType' /\ Len(log'[req[c].at]) = b + req[c].n
          /\ \A i \in 1 .. req[c].n : log'[req[c].at][b + i] = Batch(req[c].id, req[c].n)[i]
      BY <2>1, <3>1, StoreBatchProperties DEF TypeInv
    <3>3. \A s \in shadow' : s \in shadow \/ (s.at = req[c].at /\ s.offset = b)
      BY <2>1, <3>1, StoreBatchShadow DEF TypeInv
    <3> QED
      BY <3>2, <3>3
  <2>3. b \in Nat /\ h \in Nat
    BY <2>1, <2>2 DEF TypeInv, StoreType
  <2>4. req' = [req EXCEPT ![c] = r] /\ UNCHANGED <<bus, answers, issued>>
    BY <1>6 DEF AppendToStore, Proceed
  <2>5. Stands(log', shadow', req[c].at, b, Batch(req[c].id, req[c].n))
    <3>1. Len(Batch(req[c].id, req[c].n)) = req[c].n
      BY <2>1, BatchProperties
    <3>2. \A s \in shadow' : s.at = req[c].at => s.offset \in Nat /\ s.offset <= b
      <4>1. \A s \in shadow : s.offset \in Nat /\ s.offset < Len(log[s.at])
        BY DEF TypeInv, StoreType, Shadows
      <4>2. \A s \in shadow : s.at = req[c].at => s.offset \in Nat /\ s.offset < b
        BY <4>1
      <4> HIDE DEF b
      <4> QED BY <2>2, <2>3, <4>2
    <3> HIDE DEF b
    <3>3. \A s \in shadow' : s.at = req[c].at => s.offset \notin b + 1 .. b + req[c].n - 1
      BY <2>3, <3>2
    <3> QED
      BY <2>1, <2>2, <2>3, <3>1, <3>3 DEF Stands
  <2> HIDE DEF b, h
  <2>6. r \in Requests
    BY <1>0, <1>z, <2>3 DEF Requests, PCs
  <2>7. /\ r.pc = "publishAppended" /\ r.id = req[c].id /\ r.at = req[c].at
        /\ r.n = req[c].n /\ r.base = b
    BY <1>0 DEF Requests
  <2> HIDE DEF r
  <2> QED
    BY <1>6, <2>4, <2>5, <2>6, <2>7 DEF AppendToStore, Moves, StoreCalls
<1>7. ASSUME NEW c \in Clients, StoreError(c) PROVE Goes(c) \/ Fails(c)
  <2>1. CASE req[c].attempt + 1 < RetryAttempts
    <3> DEFINE a == req[c].attempt + 1
               r == [req[c] EXCEPT !.attempt = a]
    <3>1. a \in 0 .. RetryAttempts - 1
      BY <1>0, <2>1, EngineAssumption DEF Requests
    <3> HIDE DEF a
    <3>2. req' = [req EXCEPT ![c] = r] /\ UNCHANGED <<bus, answers, issued>>
      BY <1>7, <2>1 DEF StoreError, a, TypeInv, RequestType
    <3>3. r \in Requests
      BY <1>0, <3>1 DEF Requests
    <3>4. r.pc = req[c].pc /\ r.id = req[c].id
      BY <1>0 DEF Requests
    <3> HIDE DEF r
    <3> QED
      BY <1>7, <3>2, <3>3, <3>4 DEF StoreError, Moves, StoreCalls
  <2>2. CASE ~(req[c].attempt + 1 < RetryAttempts)
    BY <1>7, <2>2 DEF StoreError, Fails, Results
  <2> QED BY <2>1, <2>2
<1>8. ASSUME NEW c \in Clients, StorePermanentError(c) \/ StoreTimeout(c) PROVE Fails(c)
  BY <1>8 DEF StorePermanentError, StoreTimeout, Fails, Results
<1>9. ASSUME \/ \E c \in Clients : RefuseProduce(c)
             \/ \E j \in late : LateJob(j)
             \/ Refill \/ UNCHANGED vars
      PROVE  Rests
  BY <1>9 DEF RefuseProduce, LateJob, Refill, vars, Rests
<1> HIDE DEF Begins, Goes
<1>10. \/ Rests
       \/ \E c \in Clients : \/ Begins(c) \/ Goes(c) \/ Fails(c)
                             \/ PublishCreated(c) \/ PublishAppended(c) \/ PublishTruncated(c)
  BY <1>1, <1>2, <1>3, <1>4, <1>5, <1>6, <1>7, <1>8, <1>9 DEF Next, Continue
<1> QED
  BY <1>10 DEF Begins, Goes

\* The events of each kind once one more has been published.
LEMMA PublishEvents ==
    ASSUME OtherType, NEW e \in LogEvents, Publish(e), NEW kind
    PROVE  /\ e.kind = kind => Events(kind)' = Events(kind) \cup {Len(bus) + 1}
           /\ e.kind # kind => Events(kind)' = Events(kind)
           /\ Len(bus) + 1 \notin Events(kind) /\ bus'[Len(bus) + 1] = e
           /\ \A i \in Events(kind) : bus'[i] = bus[i]
<1>1. /\ DOMAIN bus' = DOMAIN bus \cup {Len(bus) + 1} /\ Len(bus) + 1 \notin DOMAIN bus
      /\ bus'[Len(bus) + 1] = e
  BY PublishProperties
<1>2. \A i \in DOMAIN bus : bus'[i] = bus[i]
  BY PublishProperties DEF OtherType
<1> QED
  BY <1>1, <1>2 DEF Events

\* The fields of a RecordsAppended event.
LEMMA AppendedEvent ==
    ASSUME OtherType, NEW i \in Events("RecordsAppended")
    PROVE  bus[i].at \in Partitions /\ bus[i].base \in Nat /\ bus[i].records \in Seq(StoredRecords)
<1>1. bus[i] \in LogEvents /\ bus[i].kind = "RecordsAppended"
  BY DEF OtherType, Events
<1> QED
  BY <1>1 DEF LogEvents

\* What each of the publishing steps publishes.
LEMMA PublishedEvents ==
    ASSUME TypeInv, NEW c \in Clients
    PROVE  /\ PublishCreated(c) => \E e \in LogEvents :
                Publish(e) /\ e.kind = "TopicCreated" /\ e.topic = req[c].topic
           /\ PublishAppended(c) => \E e \in LogEvents :
                Publish(e) /\ e.kind = "RecordsAppended" /\ Announces(e, req[c])
           /\ PublishTruncated(c) => \E e \in LogEvents :
                Publish(e) /\ e.kind = "RecordsTruncated"
<1>0. req[c] \in Requests /\ WellFormed(req[c])
  BY DEF TypeInv, RequestType
<1>1. ASSUME PublishCreated(c)
      PROVE  \E e \in LogEvents : Publish(e) /\ e.kind = "TopicCreated" /\ e.topic = req[c].topic
  <2> DEFINE e == [kind |-> "TopicCreated", topic |-> req[c].topic]
  <2>1. e \in LogEvents /\ e.kind = "TopicCreated" /\ e.topic = req[c].topic
    BY <1>0, <1>1 DEF PublishCreated, WellFormed, LogEvents
  <2> QED
    BY <1>1, <2>1 DEF PublishCreated
<1>2. ASSUME PublishAppended(c)
      PROVE  \E e \in LogEvents :
                Publish(e) /\ e.kind = "RecordsAppended" /\ Announces(e, req[c])
  <2> DEFINE e == [kind |-> "RecordsAppended", at |-> req[c].at, base |-> req[c].base,
                   records |-> Batch(req[c].id, req[c].n)]
  <2>1. /\ req[c].at \in Partitions /\ req[c].n \in Nat /\ req[c].id \in Nat /\ req[c].base \in Nat
    BY <1>0, <1>2 DEF PublishAppended, WellFormed, Requests
  <2>2. e \in LogEvents
    BY <2>1, BatchProperties DEF LogEvents
  <2>3. Publish(e) /\ e.kind = "RecordsAppended" /\ Announces(e, req[c])
    BY <1>2 DEF PublishAppended, Announces
  <2> QED
    BY <2>2, <2>3
<1>3. ASSUME PublishTruncated(c)
      PROVE  \E e \in LogEvents : Publish(e) /\ e.kind = "RecordsTruncated"
  <2> DEFINE e == [kind |-> "RecordsTruncated", at |-> req[c].at, new_start |-> req[c].truncated]
  <2>1. e \in LogEvents /\ e.kind = "RecordsTruncated"
    BY <1>0, <1>3 DEF PublishTruncated, WellFormed, Requests, LogEvents
  <2> QED
    BY <1>3, <2>1 DEF PublishTruncated
<1> QED
  BY <1>1, <1>2, <1>3

\* The answer a client gets tells its request's number, topic and append outcome.
LEMMA AnswerProperties ==
    ASSUME RequestType, NEW c \in Clients, NEW result, Answer(c, result)
    PROVE  /\ req'[c].pc = "idle" /\ \A d \in Clients : d # c => req'[d] = req[d]
           /\ \E a : /\ answers' = answers \cup {a}
                     /\ a.id = req[c].id /\ a.result = result /\ a.topic = req[c].topic
                     /\ a.at = req[c].at /\ a.base = req[c].base /\ a.n = req[c].n
<1> DEFINE a == [id |-> req[c].id, result |-> result, topic |-> req[c].topic, at |-> req[c].at,
                 base |-> req[c].base, n |-> req[c].n]
<1>1. answers' = answers \cup {a} /\ req' = [req EXCEPT ![c] = Idle]
  BY DEF Answer
<1>2. /\ a.id = req[c].id /\ a.result = result /\ a.topic = req[c].topic
      /\ a.at = req[c].at /\ a.base = req[c].base /\ a.n = req[c].n
  OBVIOUS
<1>3. req'[c].pc = "idle" /\ \A d \in Clients : d # c => req'[d] = req[d]
  BY <1>1, IdleRequest DEF RequestType
<1> HIDE DEF a
<1> QED
  BY <1>1, <1>2, <1>3

\* After the event, a produce that pruned the head has still to publish the new head.
LEMMA PublishAppendedCases ==
    ASSUME TypeInv, NEW c \in Clients, PublishAppended(c)
    PROVE  \/ Answer(c, "Produced")
           \/ /\ answers' = answers
              /\ \A d \in Clients : d # c => req'[d] = req[d]
              /\ req'[c].pc = "publishTruncated" /\ req'[c].id = req[c].id
              /\ req'[c].at = req[c].at /\ req'[c].base = req[c].base /\ req'[c].n = req[c].n
<1> DEFINE r == [[req[c] EXCEPT !.pc = "publishTruncated"] EXCEPT !.attempt = 0]
<1>1. req[c] \in Requests /\ req \in [Clients -> Requests]
  BY DEF TypeInv, RequestType
<1>2. r.pc = "publishTruncated" /\ r.id = req[c].id /\ r.at = req[c].at /\ r.base = req[c].base
      /\ r.n = req[c].n
  BY <1>1 DEF Requests
<1>3. Answer(c, "Produced") \/ (req' = [req EXCEPT ![c] = r] /\ answers' = answers)
  BY DEF PublishAppended, Proceed
<1> HIDE DEF r
<1> QED
  BY <1>1, <1>2, <1>3

-----------------------------------------------------------------------------
(* Events name what is committed                                           *)

\* A batch that stands in the log stands there for good.
LEMMA StandsStep ==
    ASSUME TypeInv, [Next]_vars, NEW p \in Partitions, NEW base \in Nat,
           NEW records \in Seq(StoredRecords), Stands(log, shadow, p, base, records)
    PROVE  Stands(log', shadow', p, base, records)
<1>1. /\ Len(log[p]) \in Nat /\ Len(records) \in Nat /\ Len(log[p]) <= Len(log'[p])
      /\ \A i \in 1 .. Len(log[p]) : log'[p][i] = log[p][i]
  BY StoreGrows DEF TypeInv, StoreType
<1>2. Len(log'[p]) \in Nat
  BY TypeStep DEF TypeInv, StoreType
<1>3. \A s \in shadow' : s.at = p => s.offset \notin base + 1 .. base + Len(records) - 1
  <2> SUFFICES ASSUME NEW s \in shadow', s.at = p, s \notin shadow
               PROVE  s.offset \notin base + 1 .. base + Len(records) - 1
    BY DEF Stands
  <2>1. s.offset = Len(log[p])
    BY StoreGrows
  <2> QED
    BY <1>1, <2>1 DEF Stands
<1>4. base + Len(records) <= Len(log'[p]) /\ \A i \in 1 .. Len(records) : log'[p][base + i] = records[i]
  BY <1>1, <1>2 DEF Stands
<1> QED
  BY <1>3, <1>4 DEF Stands

\* No step announces what does not stand in the log, nor moves it.
LEMMA CommittedStep == TypeInv /\ CommittedInv /\ [Next]_vars => CommittedInv'
<1> SUFFICES ASSUME TypeInv, CommittedInv, [Next]_vars PROVE CommittedInv'
  OBVIOUS
<1>0. OtherType /\ RequestType /\ req \in [Clients -> Requests]
  BY DEF TypeInv, RequestType
<1>1. \A c \in Clients : req[c].pc = "publishAppended" =>
        Stands(log', shadow', req[c].at, req[c].base, Batch(req[c].id, req[c].n))
  <2> SUFFICES ASSUME NEW c \in Clients, req[c].pc = "publishAppended"
               PROVE  Stands(log', shadow', req[c].at, req[c].base, Batch(req[c].id, req[c].n))
    OBVIOUS
  <2>1. /\ req[c].at \in Partitions /\ req[c].base \in Nat /\ req[c].id \in Nat /\ req[c].n \in Nat
    BY <1>0 DEF RequestType, WellFormed, Requests
  <2>2. Batch(req[c].id, req[c].n) \in Seq(StoredRecords)
    BY <2>1, BatchProperties
  <2>3. Stands(log, shadow, req[c].at, req[c].base, Batch(req[c].id, req[c].n))
    BY DEF CommittedInv
  <2> QED
    BY <2>1, <2>2, <2>3, StandsStep
<1>2. \A i \in Events("RecordsAppended") : Stands(log', shadow', bus[i].at, bus[i].base, bus[i].records)
  BY <1>0, AppendedEvent, StandsStep DEF CommittedInv
<1> DEFINE Asked == \A c \in Clients : req'[c].pc = "publishAppended" =>
                      Stands(log', shadow', req'[c].at, req'[c].base, Batch(req'[c].id, req'[c].n))
           Announced == \A i \in Events("RecordsAppended")' :
                          Stands(log', shadow', bus'[i].at, bus'[i].base, bus'[i].records)
<1> SUFFICES Asked /\ Announced
  BY DEF CommittedInv
<1>3. CASE Rests
  BY <1>1, <1>2, <1>3 DEF Rests, Events
<1>4. ASSUME NEW c \in Clients, NEW r \in Requests, Issues(c, r) \/ Moves(c, r)
      PROVE  Asked /\ Announced
  <2>1. /\ req'[c] = r /\ (\A d \in Clients : d # c => req'[d] = req[d]) /\ bus' = bus
        /\ r.pc = "publishAppended" => Stands(log', shadow', r.at, r.base, Batch(r.id, r.n))
    BY <1>0, <1>4 DEF Issues, Moves
  <2> QED
    BY <1>1, <1>2, <2>1 DEF Events
<1>5. ASSUME NEW c \in Clients, Fails(c) PROVE Asked /\ Announced
  <2>1. req'[c].pc = "idle" /\ (\A d \in Clients : d # c => req'[d] = req[d]) /\ bus' = bus
    BY <1>0, <1>5, AnswerProperties DEF Fails
  <2> QED
    BY <1>1, <1>2, <2>1 DEF Events
<1>6. ASSUME NEW c \in Clients, PublishCreated(c) \/ PublishTruncated(c) PROVE Asked /\ Announced
  <2>1. req'[c].pc = "idle" /\ (\A d \in Clients : d # c => req'[d] = req[d])
    BY <1>0, <1>6, AnswerProperties DEF PublishCreated, PublishTruncated
  <2>2. PICK e \in LogEvents : Publish(e) /\ e.kind # "RecordsAppended"
    BY <1>6, PublishedEvents
  <2>3. /\ Events("RecordsAppended")' = Events("RecordsAppended")
        /\ \A i \in Events("RecordsAppended") : bus'[i] = bus[i]
    BY <1>0, <2>2, PublishEvents
  <2> QED
    BY <1>1, <1>2, <2>1, <2>3
<1>7. ASSUME NEW c \in Clients, PublishAppended(c) PROVE Asked /\ Announced
  <2>1. req'[c].pc # "publishAppended" /\ (\A d \in Clients : d # c => req'[d] = req[d])
    BY <1>0, <1>7, PublishAppendedCases, AnswerProperties
  <2>2. PICK e \in LogEvents : Publish(e) /\ e.kind = "RecordsAppended" /\ Announces(e, req[c])
    BY <1>7, PublishedEvents
  <2>3. /\ Events("RecordsAppended")' = Events("RecordsAppended") \cup {Len(bus) + 1}
        /\ \A i \in Events("RecordsAppended") : bus'[i] = bus[i]
        /\ bus'[Len(bus) + 1] = e
    BY <1>0, <2>2, PublishEvents
  <2>4. Stands(log', shadow', e.at, e.base, e.records)
    BY <1>1, <1>7, <2>2 DEF PublishAppended, Announces
  <2> QED
    BY <1>1, <1>2, <2>1, <2>3, <2>4
<1> HIDE DEF Asked, Announced
<1> QED
  BY <1>3, <1>4, <1>5, <1>6, <1>7, StepKinds

\* A batch that stands in the log is the stretch of it at its offsets.
LEMMA StandsAsSubSeq ==
    ASSUME NEW s \in Seq(StoredRecords), NEW base \in Nat, NEW records \in Seq(StoredRecords),
           base + Len(records) <= Len(s),
           \A i \in 1 .. Len(records) : s[base + i] = records[i]
    PROVE  SubSeq(s, base + 1, base + Len(records)) = records
<1> DEFINE n == Len(records)
           m == base + 1
           k == base + n
           q == SubSeq(s, m, k)
<1>1. n \in Nat /\ m \in Int /\ k \in Int /\ m .. k \subseteq 1 .. Len(s)
  OBVIOUS
<1>2. \A i \in m .. k : s[i] \in StoredRecords
  BY <1>1, ElementOfSeq
<1>3. /\ q \in Seq(StoredRecords) /\ Len(q) = IF m <= k THEN k - m + 1 ELSE 0
      /\ \A i \in 1 .. k - m + 1 : q[i] = s[m + i - 1]
  <2> HIDE DEF m, k
  <2> QED
    BY <1>1, <1>2, SubSeqProperties
<1>4. Len(q) = n
  <2> HIDE DEF n, q
  <2> QED
    BY <1>1, <1>3
<1>5. \A i \in 1 .. n : q[i] = s[base + i]
  <2> HIDE DEF n, q
  <2>1. \A i \in 1 .. n : m + i - 1 = base + i /\ i \in 1 .. k - m + 1
    BY <1>1
  <2> QED
    BY <1>3, <2>1
<1> HIDE DEF q
<1>6. q = records
  BY <1>3, <1>4, <1>5, SeqEqual
<1> QED
  BY <1>6 DEF q

\* What a RecordsAppended event says stands in the log, whatever failed attempts,
\* abandoned jobs and other producers stored before, in between or after; and a
\* frame that a failed attempt left under one of its offsets, if there is one,
\* stands ahead of the whole batch.
THEOREM EventsNameCommitted == Spec => []EventsAreCommitted
<1>1. Init => CommittedInv
  <2> SUFFICES ASSUME Init PROVE CommittedInv
    OBVIOUS
  <2>1. \A c \in Clients : req[c].pc = "idle"
    BY IdleRequest DEF Init
  <2>2. Events("RecordsAppended") = {}
    BY DEF Init, Events
  <2> QED
    BY <2>1, <2>2 DEF CommittedInv
<1>2. TypeInv /\ CommittedInv => EventsAreCommitted
  <2> SUFFICES ASSUME TypeInv, CommittedInv, NEW i \in Events("RecordsAppended")
               PROVE  /\ bus[i].base + Len(bus[i].records) <= Len(log[bus[i].at])
                      /\ SubSeq(log[bus[i].at], bus[i].base + 1,
                                bus[i].base + Len(bus[i].records)) = bus[i].records
                      /\ \A s \in shadow : s.at = bus[i].at =>
                           s.offset \notin bus[i].base + 1 .. bus[i].base + Len(bus[i].records) - 1
    BY DEF EventsAreCommitted
  <2>1. bus[i].at \in Partitions /\ bus[i].base \in Nat /\ bus[i].records \in Seq(StoredRecords)
    BY AppendedEvent DEF TypeInv
  <2>2. Stands(log, shadow, bus[i].at, bus[i].base, bus[i].records)
    BY DEF CommittedInv
  <2>3. log[bus[i].at] \in Seq(StoredRecords)
    BY <2>1 DEF TypeInv, StoreType
  <2>4. /\ bus[i].base + Len(bus[i].records) <= Len(log[bus[i].at])
        /\ \A j \in 1 .. Len(bus[i].records) :
             log[bus[i].at][bus[i].base + j] = bus[i].records[j]
        /\ \A s \in shadow : s.at = bus[i].at =>
             s.offset \notin bus[i].base + 1 .. bus[i].base + Len(bus[i].records) - 1
    BY <2>2 DEF Stands
  <2> QED
    BY <2>1, <2>3, <2>4, StandsAsSubSeq
<1> QED
  BY <1>1, <1>2, TypeInit, TypeStep, CommittedStep, PTL DEF Spec

-----------------------------------------------------------------------------
(* Who is answered, and what is announced of it                            *)

\* An answer ends one request and leaves the others alone.
LEMMA IdAnswer ==
    ASSUME TypeInv, IdInv, NEW c \in Clients, NEW result, Answer(c, result),
           req[c].pc # "idle", issued' = issued
    PROVE  IdInv'
<1>1. RequestType /\ req'[c].pc = "idle" /\ \A d \in Clients : d # c => req'[d] = req[d]
  BY AnswerProperties DEF TypeInv
<1>2. PICK a : answers' = answers \cup {a} /\ a.id = req[c].id
  BY <1>1, AnswerProperties
<1>3. /\ \A d \in Clients : req'[d].pc # "idle" => d # c /\ req'[d] = req[d] /\ req[d].pc # "idle"
  BY <1>1
<1>4. \A d \in Clients : req'[d].pc # "idle" => req'[d].id # a.id /\ req'[d].id \in 1 .. issued'
  BY <1>2, <1>3 DEF IdInv
<1>5. \A b \in answers : b.id # a.id
  BY <1>2 DEF IdInv
<1>6. \A b \in answers' : b.id \in 1 .. issued'
  BY <1>2 DEF IdInv
<1>7. \A b \in answers', d \in Clients : req'[d].pc # "idle" => b.id # req'[d].id
  BY <1>2, <1>3, <1>4 DEF IdInv
<1>8. \A b1, b2 \in answers' : b1.id = b2.id => b1 = b2
  BY <1>2, <1>5 DEF IdInv
<1>9. \A d1, d2 \in Clients :
        req'[d1].pc # "idle" /\ req'[d2].pc # "idle" /\ req'[d1].id = req'[d2].id => d1 = d2
  BY <1>3 DEF IdInv
<1> QED
  BY <1>4, <1>6, <1>7, <1>8, <1>9 DEF IdInv

\* A client goes on with the same request.
LEMMA IdSame ==
    ASSUME IdInv, NEW c \in Clients, req[c].pc # "idle",
           req'[c].id = req[c].id, \A d \in Clients : d # c => req'[d] = req[d],
           answers' = answers, issued' = issued
    PROVE  IdInv'
<1>1. \A d \in Clients : req'[d].pc # "idle" => req[d].pc # "idle" /\ req'[d].id = req[d].id
  OBVIOUS
<1> QED
  BY <1>1 DEF IdInv

\* The numbers of requests stay unique.
LEMMA IdStep == TypeInv /\ IdInv /\ [Next]_vars => IdInv'
<1> SUFFICES ASSUME TypeInv, IdInv, [Next]_vars PROVE IdInv'
  OBVIOUS
<1>0. RequestType /\ req \in [Clients -> Requests] /\ issued \in Nat
  BY EngineAssumption DEF TypeInv, RequestType, OtherType
<1>1. CASE Rests
  BY <1>1 DEF Rests, IdInv
<1>2. ASSUME NEW c \in Clients, NEW r \in Requests, Issues(c, r) PROVE IdInv'
  <2>1. /\ req'[c] = r /\ (\A d \in Clients : d # c => req'[d] = req[d])
        /\ r.id = issued + 1 /\ issued' = issued + 1 /\ answers' = answers
    BY <1>0, <1>2 DEF Issues
  <2>2. \A k \in 1 .. issued : k \in 1 .. issued' /\ k # issued + 1
    BY <1>0, <2>1
  <2>3. issued + 1 \in 1 .. issued'
    BY <1>0, <2>1
  <2>4. \A d \in Clients : req'[d].pc # "idle" =>
          req'[d].id \in 1 .. issued' /\ (d # c => req'[d].id # issued + 1)
    BY <2>1, <2>2, <2>3 DEF IdInv
  <2>5. \A d1, d2 \in Clients :
          req'[d1].pc # "idle" /\ req'[d2].pc # "idle" /\ req'[d1].id = req'[d2].id => d1 = d2
    BY <2>1, <2>4 DEF IdInv
  <2>6. \A a \in answers : a.id \in 1 .. issued' /\ a.id # issued + 1
    BY <2>2 DEF IdInv
  <2>7. \A a \in answers', d \in Clients : req'[d].pc # "idle" => a.id # req'[d].id
    BY <2>1, <2>6 DEF IdInv
  <2> QED
    BY <2>1, <2>4, <2>5, <2>6, <2>7 DEF IdInv
<1>3. ASSUME NEW c \in Clients, NEW r \in Requests, Moves(c, r) PROVE IdInv'
  <2>1. /\ req'[c].id = req[c].id /\ (\A d \in Clients : d # c => req'[d] = req[d])
        /\ answers' = answers /\ issued' = issued /\ req[c].pc # "idle"
    BY <1>0, <1>3 DEF Moves, StoreCalls
  <2> QED
    BY <2>1, IdSame
<1>4. ASSUME NEW c \in Clients, Fails(c) PROVE IdInv'
  BY <1>4, IdAnswer DEF Fails, StoreCalls
<1>5. ASSUME NEW c \in Clients, PublishCreated(c) \/ PublishTruncated(c) PROVE IdInv'
  BY <1>5, IdAnswer DEF PublishCreated, PublishTruncated
<1>6. ASSUME NEW c \in Clients, PublishAppended(c) PROVE IdInv'
  <2>1. issued' = issued /\ req[c].pc # "idle"
    BY <1>6 DEF PublishAppended
  <2> QED
    BY <1>6, <2>1, PublishAppendedCases, IdAnswer, IdSame
<1> QED
  BY <1>1, <1>2, <1>3, <1>4, <1>5, <1>6, StepKinds

\* The records of an event carry the number of the request it announces.
LEMMA AnnouncedId ==
    ASSUME NEW e, NEW x, Announces(e, x), x.id \in Nat, x.n \in Nat \ {0}
    PROVE  e.records[1].id = x.id
<1>1. 1 \in 1 .. x.n /\ x.n \in Nat
  OBVIOUS
<1>2. Batch(x.id, x.n)[1] = [id |-> x.id, i |-> 1]
  BY <1>1, BatchProperties
<1> QED
  BY <1>2 DEF Announces

\* The request a RecordsAppended event belongs to.
LEMMA EventOwner ==
    ASSUME TypeInv, IdInv, AnnouncedInv, NEW i \in Events("RecordsAppended")
    PROVE  \/ \E a \in answers : /\ a.result = "Produced" /\ Announces(bus[i], a)
                                 /\ bus[i].records[1].id = a.id
           \/ \E c \in Clients : /\ req[c].pc = "publishTruncated" /\ Announces(bus[i], req[c])
                                 /\ bus[i].records[1].id = req[c].id
<1>1. ASSUME NEW a \in answers, a.result = "Produced", Announces(bus[i], a)
      PROVE  bus[i].records[1].id = a.id
  <2>1. a.id \in 1 .. issued /\ a.n \in Nat \ {0}
    BY <1>1 DEF IdInv, AnnouncedInv
  <2>2. a.id \in Nat
    BY <2>1 DEF TypeInv, OtherType
  <2> QED
    BY <1>1, <2>1, <2>2, AnnouncedId
<1>2. ASSUME NEW c \in Clients, req[c].pc = "publishTruncated", Announces(bus[i], req[c])
      PROVE  bus[i].records[1].id = req[c].id
  <2>1. req[c] \in Requests /\ WellFormed(req[c])
    BY DEF TypeInv, RequestType
  <2>2. req[c].id \in Nat /\ req[c].n \in Nat \ {0}
    BY <1>2, <2>1 DEF Requests, WellFormed
  <2> QED
    BY <1>2, <2>2, AnnouncedId
<1> QED
  BY <1>1, <1>2 DEF AnnouncedInv

\* A step that announces no records, tells nobody Produced and leaves alone who
\* has still to publish a new head.
LEMMA AnnouncedQuiet ==
    ASSUME AnnouncedInv, Events("RecordsAppended")' = Events("RecordsAppended"),
           \A i \in Events("RecordsAppended") : bus'[i] = bus[i],
           \A c \in Clients :
             req[c].pc = "publishTruncated" \/ req'[c].pc = "publishTruncated" => req'[c] = req[c],
           answers \subseteq answers', \A a \in answers' : a \in answers \/ a.result # "Produced"
    PROVE  AnnouncedInv'
<1>1. \A a \in answers' : a.result = "Produced" =>
        a.n \in Nat \ {0} /\ \E i \in Events("RecordsAppended")' : Announces(bus'[i], a)
  BY DEF AnnouncedInv
<1>2. \A c \in Clients : req'[c].pc = "publishTruncated" =>
        \E i \in Events("RecordsAppended")' : Announces(bus'[i], req'[c])
  BY DEF AnnouncedInv
<1>3. \A i \in Events("RecordsAppended")' :
        \/ \E a \in answers' : a.result = "Produced" /\ Announces(bus'[i], a)
        \/ \E c \in Clients : req'[c].pc = "publishTruncated" /\ Announces(bus'[i], req'[c])
  BY DEF AnnouncedInv
<1>4. \A i, j \in Events("RecordsAppended")' :
        bus'[i].records[1].id = bus'[j].records[1].id => i = j
  BY DEF AnnouncedInv
<1> QED
  BY <1>1, <1>2, <1>3, <1>4 DEF AnnouncedInv

\* An append is announced once, and before its producer is told.
LEMMA AnnouncedStep == TypeInv /\ IdInv /\ AnnouncedInv /\ [Next]_vars => AnnouncedInv'
<1> SUFFICES ASSUME TypeInv, IdInv, AnnouncedInv, [Next]_vars PROVE AnnouncedInv'
  OBVIOUS
<1>0. RequestType /\ OtherType /\ req \in [Clients -> Requests]
  BY DEF TypeInv, RequestType
<1> DEFINE Appended == Events("RecordsAppended")
<1>1. ASSUME bus' = bus
      PROVE  Appended' = Appended /\ \A i \in Appended : bus'[i] = bus[i]
  BY <1>1 DEF Events
<1>2. CASE Rests
  BY <1>1, <1>2, AnnouncedQuiet DEF Rests
<1>3. ASSUME NEW c \in Clients, NEW r \in Requests, Issues(c, r) \/ Moves(c, r) PROVE AnnouncedInv'
  <2>1. /\ (\A d \in Clients : d # c => req'[d] = req[d]) /\ bus' = bus /\ answers' = answers
        /\ req[c].pc # "publishTruncated" /\ req'[c].pc # "publishTruncated"
    BY <1>0, <1>3 DEF Issues, Moves, StoreCalls
  <2> QED
    BY <1>1, <2>1, AnnouncedQuiet
<1>4. ASSUME NEW c \in Clients, Fails(c) PROVE AnnouncedInv'
  <2>1. PICK result \in Results \ {"Created", "Produced"} : Answer(c, result)
    BY <1>4 DEF Fails
  <2>2. req'[c].pc = "idle" /\ \A d \in Clients : d # c => req'[d] = req[d]
    BY <1>0, <2>1, AnswerProperties
  <2>3. PICK a : answers' = answers \cup {a} /\ a.result = result
    BY <1>0, <2>1, AnswerProperties
  <2>4. bus' = bus /\ req[c].pc # "publishTruncated"
    BY <1>4 DEF Fails, StoreCalls
  <2> QED
    BY <1>1, <2>2, <2>3, <2>4, AnnouncedQuiet
<1>5. ASSUME NEW c \in Clients, PublishCreated(c) PROVE AnnouncedInv'
  <2>1. Answer(c, "Created") /\ req[c].pc # "publishTruncated"
    BY <1>5 DEF PublishCreated
  <2>2. req'[c].pc = "idle" /\ \A d \in Clients : d # c => req'[d] = req[d]
    BY <1>0, <2>1, AnswerProperties
  <2>3. PICK a : answers' = answers \cup {a} /\ a.result = "Created"
    BY <1>0, <2>1, AnswerProperties
  <2>4. PICK e \in LogEvents : Publish(e) /\ e.kind = "TopicCreated"
    BY <1>5, PublishedEvents
  <2>5. Appended' = Appended /\ \A i \in Appended : bus'[i] = bus[i]
    BY <1>0, <2>4, PublishEvents
  <2> QED
    BY <2>1, <2>2, <2>3, <2>5, AnnouncedQuiet
<1>6. ASSUME NEW c \in Clients, PublishTruncated(c) PROVE AnnouncedInv'
  <2>1. Answer(c, "Produced") /\ req[c].pc = "publishTruncated"
    BY <1>6 DEF PublishTruncated
  <2>2. req'[c].pc = "idle" /\ \A d \in Clients : d # c => req'[d] = req[d]
    BY <1>0, <2>1, AnswerProperties
  <2>3. PICK a : /\ answers' = answers \cup {a} /\ a.result = "Produced" /\ a.id = req[c].id
                 /\ a.at = req[c].at /\ a.base = req[c].base /\ a.n = req[c].n
    BY <1>0, <2>1, AnswerProperties
  <2>4. PICK e \in LogEvents : Publish(e) /\ e.kind = "RecordsTruncated"
    BY <1>6, PublishedEvents
  <2>5. Appended' = Appended /\ \A i \in Appended : bus'[i] = bus[i]
    BY <1>0, <2>4, PublishEvents
  <2>6. a.n \in Nat \ {0}
    BY <1>0, <2>1, <2>3 DEF RequestType, WellFormed, Requests
  <2>7. \A e1 : Announces(e1, a) <=> Announces(e1, req[c])
    BY <2>3 DEF Announces
  <2>8. \A b \in answers' : b.result = "Produced" =>
          b.n \in Nat \ {0} /\ \E i \in Appended' : Announces(bus'[i], b)
    BY <2>1, <2>3, <2>5, <2>6, <2>7 DEF AnnouncedInv
  <2>9. \A d \in Clients : req'[d].pc = "publishTruncated" =>
          \E i \in Appended' : Announces(bus'[i], req'[d])
    BY <2>2, <2>5 DEF AnnouncedInv
  <2>10. \A i \in Appended' :
           \/ \E b \in answers' : b.result = "Produced" /\ Announces(bus'[i], b)
           \/ \E d \in Clients : req'[d].pc = "publishTruncated" /\ Announces(bus'[i], req'[d])
    BY <2>2, <2>3, <2>5, <2>7 DEF AnnouncedInv
  <2>11. \A i, j \in Appended' : bus'[i].records[1].id = bus'[j].records[1].id => i = j
    BY <2>5 DEF AnnouncedInv
  <2> QED
    BY <2>8, <2>9, <2>10, <2>11 DEF AnnouncedInv
<1>7. ASSUME NEW c \in Clients, PublishAppended(c) PROVE AnnouncedInv'
  <2> DEFINE new == Len(bus) + 1
  <2>1. req[c].pc = "publishAppended" /\ req[c].n \in Nat \ {0} /\ req[c].id \in Nat
    BY <1>0, <1>7 DEF PublishAppended, RequestType, WellFormed, Requests
  <2>2. PICK e \in LogEvents : Publish(e) /\ e.kind = "RecordsAppended" /\ Announces(e, req[c])
    BY <1>7, PublishedEvents
  <2>3. /\ Appended' = Appended \cup {new} /\ new \notin Appended /\ bus'[new] = e
        /\ \A i \in Appended : bus'[i] = bus[i]
    BY <1>0, <2>2, PublishEvents
  <2> HIDE DEF new
  <2>4. bus'[new].records[1].id = req[c].id
    BY <2>1, <2>2, <2>3, AnnouncedId
  <2>5. \A i \in Appended : bus[i].records[1].id # req[c].id
    BY <2>1, EventOwner DEF IdInv
  <2>6. \A i, j \in Appended' : bus'[i].records[1].id = bus'[j].records[1].id => i = j
    BY <2>3, <2>4, <2>5 DEF AnnouncedInv
  <2>7. CASE Answer(c, "Produced")
    <3>1. req'[c].pc = "idle" /\ \A d \in Clients : d # c => req'[d] = req[d]
      BY <1>0, <2>7, AnswerProperties
    <3>2. PICK a : /\ answers' = answers \cup {a} /\ a.result = "Produced" /\ a.id = req[c].id
                   /\ a.at = req[c].at /\ a.base = req[c].base /\ a.n = req[c].n
      BY <1>0, <2>7, AnswerProperties
    <3>3. Announces(bus'[new], a)
      BY <2>2, <2>3, <3>2 DEF Announces
    <3>4. \A b \in answers' : b.result = "Produced" =>
            b.n \in Nat \ {0} /\ \E i \in Appended' : Announces(bus'[i], b)
      BY <2>1, <2>3, <3>2, <3>3 DEF AnnouncedInv
    <3>5. \A d \in Clients : req'[d].pc = "publishTruncated" =>
            \E i \in Appended' : Announces(bus'[i], req'[d])
      BY <2>3, <3>1 DEF AnnouncedInv
    <3>6. \A i \in Appended' :
            \/ \E b \in answers' : b.result = "Produced" /\ Announces(bus'[i], b)
            \/ \E d \in Clients : req'[d].pc = "publishTruncated" /\ Announces(bus'[i], req'[d])
      BY <2>1, <2>3, <3>1, <3>2, <3>3 DEF AnnouncedInv
    <3> QED
      BY <2>6, <3>4, <3>5, <3>6 DEF AnnouncedInv
  <2>8. CASE /\ answers' = answers
             /\ \A d \in Clients : d # c => req'[d] = req[d]
             /\ req'[c].pc = "publishTruncated" /\ req'[c].id = req[c].id
             /\ req'[c].at = req[c].at /\ req'[c].base = req[c].base /\ req'[c].n = req[c].n
    <3>1. Announces(bus'[new], req'[c])
      BY <2>2, <2>3, <2>8 DEF Announces
    <3>2. \A b \in answers' : b.result = "Produced" =>
            b.n \in Nat \ {0} /\ \E i \in Appended' : Announces(bus'[i], b)
      BY <2>3, <2>8 DEF AnnouncedInv
    <3>3. \A d \in Clients : req'[d].pc = "publishTruncated" =>
            \E i \in Appended' : Announces(bus'[i], req'[d])
      BY <2>3, <2>8, <3>1 DEF AnnouncedInv
    <3>4. \A i \in Appended' :
            \/ \E b \in answers' : b.result = "Produced" /\ Announces(bus'[i], b)
            \/ \E d \in Clients : req'[d].pc = "publishTruncated" /\ Announces(bus'[i], req'[d])
      BY <2>1, <2>3, <2>8, <3>1 DEF AnnouncedInv
    <3> QED
      BY <2>6, <3>2, <3>3, <3>4 DEF AnnouncedInv
  <2> QED
    BY <1>7, <2>7, <2>8, PublishAppendedCases
<1> QED
  BY <1>2, <1>3, <1>4, <1>5, <1>6, <1>7, StepKinds

\* A produce that was told Ok was announced exactly once, as it was told.
LEMMA AnnouncedImpliesAcked == TypeInv /\ IdInv /\ AnnouncedInv => AckedIsPublished
<1> SUFFICES ASSUME TypeInv, IdInv, AnnouncedInv, NEW a \in answers, a.result = "Produced"
             PROVE  Cardinality({i \in Events("RecordsAppended") : bus[i].at = a.at
                       /\ bus[i].base = a.base /\ bus[i].records = Batch(a.id, a.n)}) = 1
  BY DEF AckedIsPublished
<1> DEFINE S == {i \in Events("RecordsAppended") : bus[i].at = a.at
                       /\ bus[i].base = a.base /\ bus[i].records = Batch(a.id, a.n)}
<1>1. PICK i \in Events("RecordsAppended") : Announces(bus[i], a)
  BY DEF AnnouncedInv
<1>2. \A j \in S : bus[j].records = bus[i].records
  BY <1>1 DEF Announces
<1>3. S = {i}
  BY <1>1, <1>2 DEF AnnouncedInv, Announces
<1> QED
  BY <1>3, FS_Singleton

\* A request that was answered with an error has no event.
LEMMA AnnouncedImpliesSilent == TypeInv /\ IdInv /\ AnnouncedInv => FailuresAreSilent
<1> SUFFICES ASSUME TypeInv, IdInv, AnnouncedInv, NEW a \in answers, a.result # "Produced",
                    NEW i \in Events("RecordsAppended")
             PROVE  bus[i].records[1].id # a.id
  BY DEF FailuresAreSilent
<1>1. ASSUME NEW b \in answers, b.result = "Produced" PROVE b.id # a.id
  BY <1>1 DEF IdInv
<1>2. ASSUME NEW c \in Clients, req[c].pc = "publishTruncated" PROVE req[c].id # a.id
  BY <1>2 DEF IdInv
<1> QED
  BY <1>1, <1>2, EventOwner

-----------------------------------------------------------------------------
(* One creator                                                             *)

\* A step that creates nothing and tells nobody Created.
LEMMA CreatorQuiet ==
    ASSUME CreatorInv, DOMAIN catalogue \subseteq DOMAIN catalogue',
           Events("TopicCreated")' = Events("TopicCreated"),
           \A i \in Events("TopicCreated") : bus'[i] = bus[i],
           \A c \in Clients : req'[c].pc = "publishCreated" => req'[c] = req[c],
           answers \subseteq answers', \A a \in answers' : a \in answers \/ a.result # "Created"
    PROVE  CreatorInv'
<1>1. /\ \A c \in Clients : req'[c].pc = "publishCreated" => req'[c].topic \in DOMAIN catalogue'
      /\ \A a \in answers' : a.result = "Created" => a.topic \in DOMAIN catalogue'
  BY DEF CreatorInv
<1>2. /\ \A c, d \in Clients :
           req'[c].pc = "publishCreated" /\ req'[d].pc = "publishCreated"
             /\ req'[c].topic = req'[d].topic => c = d
      /\ \A a \in answers', c \in Clients :
           a.result = "Created" /\ req'[c].pc = "publishCreated" => a.topic # req'[c].topic
      /\ \A a, b \in answers' :
           a.result = "Created" /\ b.result = "Created" /\ a.topic = b.topic => a = b
  BY DEF CreatorInv
<1>3. /\ \A a \in answers' : a.result = "Created" =>
           \E i \in Events("TopicCreated")' : bus'[i].topic = a.topic
      /\ \A i \in Events("TopicCreated")' :
           \E a \in answers' : a.result = "Created" /\ bus'[i].topic = a.topic
      /\ \A i, j \in Events("TopicCreated")' : bus'[i].topic = bus'[j].topic => i = j
  BY DEF CreatorInv
<1> QED
  BY <1>1, <1>2, <1>3 DEF CreatorInv

\* The store tells one create_topic that it made the topic, and it stays made.
LEMMA CreatorStep == TypeInv /\ CreatorInv /\ [Next]_vars => CreatorInv'
<1> SUFFICES ASSUME TypeInv, CreatorInv, [Next]_vars PROVE CreatorInv'
  OBVIOUS
<1>0. RequestType /\ OtherType /\ req \in [Clients -> Requests]
  BY DEF TypeInv, RequestType
<1> DEFINE Created == Events("TopicCreated")
<1>1. ASSUME bus' = bus
      PROVE  Created' = Created /\ \A i \in Created : bus'[i] = bus[i]
  BY <1>1 DEF Events
<1>2. DOMAIN catalogue \subseteq DOMAIN catalogue'
  BY StoreGrows
<1>3. CASE Rests
  BY <1>1, <1>2, <1>3, CreatorQuiet DEF Rests
<1>4. ASSUME NEW c \in Clients, NEW r \in Requests, Issues(c, r) \/ Moves(c, r) PROVE CreatorInv'
  <2>1. /\ req'[c] = r /\ (\A d \in Clients : d # c => req'[d] = req[d])
        /\ bus' = bus /\ answers' = answers
        /\ r.pc = "publishCreated" => r.topic \in DOMAIN catalogue' \ DOMAIN catalogue
    BY <1>0, <1>4 DEF Issues, Moves
  <2>2. CASE r.pc # "publishCreated"
    BY <1>1, <1>2, <2>1, <2>2, CreatorQuiet
  <2>3. CASE r.pc = "publishCreated"
    <3>1. \A d \in Clients : req'[d].pc = "publishCreated" =>
            d = c \/ (req[d].pc = "publishCreated" /\ req'[d] = req[d]
                      /\ req[d].topic \in DOMAIN catalogue)
      BY <2>1 DEF CreatorInv
    <3>2. \A d \in Clients : req'[d].pc = "publishCreated" => req'[d].topic \in DOMAIN catalogue'
      BY <1>2, <2>1, <2>3, <3>1
    <3>3. \A d1, d2 \in Clients :
            req'[d1].pc = "publishCreated" /\ req'[d2].pc = "publishCreated"
              /\ req'[d1].topic = req'[d2].topic => d1 = d2
      BY <2>1, <2>3, <3>1 DEF CreatorInv
    <3>4. \A a \in answers', d \in Clients :
            a.result = "Created" /\ req'[d].pc = "publishCreated" => a.topic # req'[d].topic
      BY <2>1, <2>3, <3>1 DEF CreatorInv
    <3>5. \A a \in answers' : a.result = "Created" => a.topic \in DOMAIN catalogue'
      BY <1>2, <2>1 DEF CreatorInv
    <3>6. Created' = Created /\ \A i \in Created : bus'[i] = bus[i]
      BY <1>1, <2>1
    <3>7. /\ \A a \in answers' : a.result = "Created" => \E i \in Created' : bus'[i].topic = a.topic
          /\ \A i \in Created' : \E a \in answers' : a.result = "Created" /\ bus'[i].topic = a.topic
          /\ \A i, j \in Created' : bus'[i].topic = bus'[j].topic => i = j
      BY <2>1, <3>6 DEF CreatorInv
    <3>8. \A a, b \in answers' :
            a.result = "Created" /\ b.result = "Created" /\ a.topic = b.topic => a = b
      BY <2>1 DEF CreatorInv
    <3> QED
      BY <3>2, <3>3, <3>4, <3>5, <3>7, <3>8 DEF CreatorInv
  <2> QED BY <2>2, <2>3
<1>5. ASSUME NEW c \in Clients, Fails(c) PROVE CreatorInv'
  <2>1. PICK result \in Results \ {"Created", "Produced"} : Answer(c, result)
    BY <1>5 DEF Fails
  <2>2. req'[c].pc = "idle" /\ \A d \in Clients : d # c => req'[d] = req[d]
    BY <1>0, <2>1, AnswerProperties
  <2>3. PICK a : answers' = answers \cup {a} /\ a.result = result
    BY <1>0, <2>1, AnswerProperties
  <2>4. bus' = bus
    BY <1>5 DEF Fails
  <2> QED
    BY <1>1, <1>2, <2>2, <2>3, <2>4, CreatorQuiet
<1>6. ASSUME NEW c \in Clients, PublishAppended(c) \/ PublishTruncated(c) PROVE CreatorInv'
  <2>1. PICK e \in LogEvents : Publish(e) /\ e.kind # "TopicCreated"
    BY <1>6, PublishedEvents
  <2>2. Created' = Created /\ \A i \in Created : bus'[i] = bus[i]
    BY <1>0, <2>1, PublishEvents
  <2>3. CASE Answer(c, "Produced")
    <3>1. req'[c].pc = "idle" /\ \A d \in Clients : d # c => req'[d] = req[d]
      BY <1>0, <2>3, AnswerProperties
    <3>2. PICK a : answers' = answers \cup {a} /\ a.result = "Produced"
      BY <1>0, <2>3, AnswerProperties
    <3> QED
      BY <1>2, <2>2, <3>1, <3>2, CreatorQuiet
  <2>4. CASE /\ answers' = answers /\ req'[c].pc = "publishTruncated"
             /\ \A d \in Clients : d # c => req'[d] = req[d]
    BY <1>2, <2>2, <2>4, CreatorQuiet
  <2> QED
    BY <1>6, <2>3, <2>4, PublishAppendedCases DEF PublishTruncated
<1>7. ASSUME NEW c \in Clients, PublishCreated(c) PROVE CreatorInv'
  <2> DEFINE new == Len(bus) + 1
  <2>1. Answer(c, "Created") /\ req[c].pc = "publishCreated"
    BY <1>7 DEF PublishCreated
  <2>2. req'[c].pc = "idle" /\ \A d \in Clients : d # c => req'[d] = req[d]
    BY <1>0, <2>1, AnswerProperties
  <2>3. PICK a : answers' = answers \cup {a} /\ a.result = "Created" /\ a.topic = req[c].topic
    BY <1>0, <2>1, AnswerProperties
  <2>4. PICK e \in LogEvents : Publish(e) /\ e.kind = "TopicCreated" /\ e.topic = req[c].topic
    BY <1>7, PublishedEvents
  <2>5. /\ Created' = Created \cup {new} /\ new \notin Created /\ bus'[new] = e
        /\ \A i \in Created : bus'[i] = bus[i]
    BY <1>0, <2>4, PublishEvents
  <2> HIDE DEF new
  <2>6. /\ \A b \in answers : b.result = "Created" => b.topic # a.topic
        /\ \A i \in Created : bus[i].topic # a.topic
    BY <2>1, <2>3 DEF CreatorInv
  <2>7. /\ \A d \in Clients : req'[d].pc = "publishCreated" =>
             d # c /\ req'[d] = req[d] /\ req[d].topic # a.topic
    BY <2>1, <2>2, <2>3 DEF CreatorInv
  <2>8. /\ \A d \in Clients : req'[d].pc = "publishCreated" => req'[d].topic \in DOMAIN catalogue'
        /\ \A b \in answers' : b.result = "Created" => b.topic \in DOMAIN catalogue'
    BY <1>2, <2>1, <2>3, <2>7 DEF CreatorInv
  <2>9. /\ \A d1, d2 \in Clients :
             req'[d1].pc = "publishCreated" /\ req'[d2].pc = "publishCreated"
               /\ req'[d1].topic = req'[d2].topic => d1 = d2
        /\ \A b \in answers', d \in Clients :
             b.result = "Created" /\ req'[d].pc = "publishCreated" => b.topic # req'[d].topic
        /\ \A b1, b2 \in answers' :
             b1.result = "Created" /\ b2.result = "Created" /\ b1.topic = b2.topic => b1 = b2
    BY <2>3, <2>6, <2>7 DEF CreatorInv
  <2>10. \A b \in answers' : b.result = "Created" => \E i \in Created' : bus'[i].topic = b.topic
    BY <2>3, <2>4, <2>5 DEF CreatorInv
  <2>11. \A i \in Created' : \E b \in answers' : b.result = "Created" /\ bus'[i].topic = b.topic
    BY <2>3, <2>4, <2>5 DEF CreatorInv
  <2>12. \A i, j \in Created' : bus'[i].topic = bus'[j].topic => i = j
    BY <2>3, <2>4, <2>5, <2>6 DEF CreatorInv
  <2> QED
    BY <2>8, <2>9, <2>10, <2>11, <2>12 DEF CreatorInv
<1> QED
  BY <1>3, <1>4, <1>5, <1>6, <1>7, StepKinds

\* One creator per topic, one event for it, and none for anybody else.
LEMMA CreatorImplies == CreatorInv => OneCreator
<1> SUFFICES ASSUME CreatorInv, NEW t \in Topics
             PROVE  LET winners == {a \in answers : a.result = "Created" /\ a.topic = t}
                        events == {i \in Events("TopicCreated") : bus[i].topic = t}
                    IN  Cardinality(winners) <= 1 /\ Cardinality(events) = Cardinality(winners)
  BY DEF OneCreator
<1> DEFINE winners == {a \in answers : a.result = "Created" /\ a.topic = t}
           events == {i \in Events("TopicCreated") : bus[i].topic = t}
<1>1. CASE winners = {}
  <2>1. events = {}
    BY <1>1 DEF CreatorInv
  <2> HIDE DEF winners, events
  <2>2. Cardinality(winners) = 0 /\ Cardinality(events) = 0
    BY <1>1, <2>1, FS_EmptySet
  <2>3. Cardinality(winners) <= 1 /\ Cardinality(events) = Cardinality(winners)
    BY <2>2
  <2> QED
    BY <2>3 DEF winners, events
<1>2. CASE winners # {}
  <2>1. PICK a \in answers : a.result = "Created" /\ a.topic = t
    BY <1>2
  <2>2. winners = {a}
    BY <2>1 DEF CreatorInv
  <2>3. PICK i \in Events("TopicCreated") : bus[i].topic = t
    BY <2>1 DEF CreatorInv
  <2>4. events = {i}
    BY <2>3 DEF CreatorInv
  <2> HIDE DEF winners, events
  <2>5. Cardinality(winners) = 1 /\ Cardinality(events) = 1
    BY <2>2, <2>4, FS_Singleton
  <2>6. Cardinality(winners) <= 1 /\ Cardinality(events) = Cardinality(winners)
    BY <2>5
  <2> QED
    BY <2>6 DEF winners, events
<1> QED BY <1>1, <1>2

-----------------------------------------------------------------------------
(* The theorems                                                            *)

\* Nothing is requested, announced or answered at the start.
LEMMA EngineInit == Init => IdInv /\ AnnouncedInv /\ CreatorInv
<1> SUFFICES ASSUME Init PROVE IdInv /\ AnnouncedInv /\ CreatorInv
  OBVIOUS
<1>1. (\A c \in Clients : req[c].pc = "idle") /\ answers = {}
  BY IdleRequest DEF Init
<1>2. \A kind : Events(kind) = {}
  BY DEF Init, Events
<1> QED
  BY <1>1, <1>2 DEF IdInv, AnnouncedInv, CreatorInv

\* For any number of clients, retries and abandoned appends: a produce that
\* returned Ok is on the bus exactly once, with the offset and records it was told.
THEOREM AckedAnnouncedOnce == Spec => []AckedIsPublished
BY TypeInit, TypeStep, EngineInit, IdStep, AnnouncedStep, AnnouncedImpliesAcked, PTL DEF Spec

\* A produce that returned an error is never on the bus, even when its records
\* are in the log.
THEOREM FailuresNeverAnnounced == Spec => []FailuresAreSilent
BY TypeInit, TypeStep, EngineInit, IdStep, AnnouncedStep, AnnouncedImpliesSilent, PTL DEF Spec

\* Of any number of clients that race to create a topic at most one is told
\* Created, and TopicCreated is published for that one alone.
THEOREM CreatorIsUnique == Spec => []OneCreator
BY TypeInit, TypeStep, EngineInit, CreatorStep, CreatorImplies, PTL DEF Spec

=============================================================================
