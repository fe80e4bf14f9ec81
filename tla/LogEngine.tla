------------------------------ MODULE LogEngine ------------------------------
(***************************************************************************)
(* The broker engine of connectforge-core (engine.rs): create_topic and    *)
(* produce, called by concurrent clients, over a log store that may fail,  *)
(* be slow, or finish its work after the caller gave up.                   *)
(*                                                                         *)
(* Every await of the code ends an action.  A store call runs under one    *)
(* timeout around a bounded retry (store_call).  The file store does its   *)
(* work in spawn_blocking, which a timeout does not stop: an abandoned     *)
(* append or create is kept in `late` until it runs.  A failing append has *)
(* stored a prefix of its batch, and may leave the frame it failed on, or  *)
(* a part of it, in the segment's buffer (FileLogStore's pending): that    *)
(* frame reaches the file ahead of the next record, under its offset.      *)
(* The queries (fetch, topics, stats, subscribe) change no engine state    *)
(* and are not actions; nor is a create_topic refused by TopicConfig::new. *)
(***************************************************************************)
EXTENDS Integers, Sequences, FiniteSets

CONSTANTS
    Clients,           \* concurrent callers
    Topics,            \* topic names
    Keys,              \* record keys
    NoKey,             \* a record without a key
    KeyHash,           \* fnv1a: Keys -> Nat
    AskedPartitions,   \* partition counts callers ask for; 0 asks for the default
    DefaultPartitions, \* LogConfig.default_partitions
    MaxTopics,         \* LogConfig.max_topics
    Burst,             \* LogConfig.produce_burst: the bucket holds max(Burst, 1)
    MaxRecords,        \* RetentionPolicy.max_records
    RetryAttempts,     \* RetryPolicy.max_attempts
    MaxBatch,          \* bound: records per produce
    MaxRequests,       \* bound: requests issued
    MaxFaults          \* bound: store errors, and jobs that outlive their callers

ASSUME EngineAssumption ==
    /\ KeyHash \in [Keys -> Nat] /\ NoKey \notin Keys
    /\ AskedPartitions \subseteq Nat
    /\ DefaultPartitions \in Nat \ {0}
    /\ MaxTopics \in Nat /\ Burst \in Nat /\ MaxRecords \in Nat
    /\ RetryAttempts \in Nat \ {0}
    /\ MaxBatch \in Nat /\ MaxRequests \in Nat /\ MaxFaults \in Nat

VARIABLES
    catalogue,    \* the store's topics: name -> partition count
    log,          \* the store's partitions, with the records retention removed
    start,        \* earliest retained offset of each partition
    stale,        \* frames of failed attempts that wait in each partition's buffer
    shadow,       \* frames in a file ahead of the record that has their offset
    late,         \* store jobs whose caller has timed out
    tokens,       \* the rate limiter's bucket, in whole tokens
    round_robin,  \* LogEngine.round_robin
    bus,          \* LogEvents in the order they were published
    req,          \* where each client is inside create_topic or produce
    issued,       \* requests so far; a request is known by its number
    answers,      \* what callers were answered
    faults

store == <<catalogue, log, start, stale, shadow>>
vars == <<store, late, tokens, round_robin, bus, req, issued, answers, faults>>

\* partitions == 0 asks for config.default_partitions
PartitionsFor(asked) == IF asked = 0 THEN DefaultPartitions ELSE asked

Counts == {PartitionsFor(n) : n \in AskedPartitions}
Partitions == {[topic |-> t, index |-> i] :
                  t \in Topics, i \in UNION {0 .. n - 1 : n \in Counts}}

NoPartition == [topic |-> "none", index |-> 0]

(***************************************************************************)
(* A client's request.  at: the partition produce was routed to; base and  *)
(* truncated: the outcome of the append, truncated = 0 when nothing was    *)
(* pruned (a head that moved is above 0).                                  *)
(***************************************************************************)
Idle == [pc |-> "idle", id |-> 0, topic |-> "none", partitions |-> 0, key |-> NoKey,
         n |-> 0, at |-> NoPartition, attempt |-> 0, base |-> 0, truncated |-> 0]

StoreCalls == {"list", "create", "count", "append"}

Capacity == IF Burst = 0 THEN 1 ELSE Burst

Init ==
    /\ catalogue = [t \in {} |-> 0]
    /\ log = [p \in Partitions |-> <<>>]
    /\ start = [p \in Partitions |-> 0]
    /\ stale = [p \in Partitions |-> {}]
    /\ shadow = {}
    /\ late = {}
    /\ tokens = Capacity
    /\ round_robin = 0
    /\ bus = <<>>
    /\ req = [c \in Clients |-> Idle]
    /\ issued = 0
    /\ answers = {}
    /\ faults = 0

\* The call returns to the client.
Answer(c, result) ==
    /\ req' = [req EXCEPT ![c] = Idle]
    /\ answers' = answers \cup
         {[id |-> req[c].id, result |-> result, topic |-> req[c].topic, at |-> req[c].at,
           base |-> req[c].base, n |-> req[c].n]}

\* The store call succeeded; the next one starts its attempts afresh.
Proceed(c, request) == /\ req' = [req EXCEPT ![c] = [request EXCEPT !.attempt = 0]]
                       /\ UNCHANGED answers

\* The variants of LogEvent.
EventKinds == {"TopicCreated", "RecordsAppended", "RecordsTruncated"}

Publish(event) == bus' = Append(bus, event)

-----------------------------------------------------------------------------
(* The store's side of append and create_topic                             *)

\* Record i of request id.
Batch(id, n) == [i \in 1 .. n |-> [id |-> id, i |-> i]]

\* Where the head of p may be once the log of p has grown to `length` records: the
\* file store removes whole segments and never the last, so it may also stay.
HeadsAfter(p, length) ==
    IF MaxRecords > 0 /\ length - start[p] > MaxRecords
    THEN start[p] .. length - 1 ELSE {start[p]}

\* The first k records of the batch are stored, behind the frames that waited in
\* the buffer; the record the append fails on may wait there in its turn.
\* Retention follows a complete batch.
StoreBatch(p, id, n, k) ==
    /\ log' = [log EXCEPT ![p] = @ \o SubSeq(Batch(id, n), 1, k)]
    /\ shadow' = IF k = 0 THEN shadow ELSE shadow \cup
         {[at |-> p, offset |-> Len(log[p]), frame |-> f] : f \in stale[p]}
    /\ \E left \in SUBSET (IF k = n THEN {} ELSE {[id |-> id, i |-> k + 1]}) :
          stale' = [stale EXCEPT ![p] = IF k = 0 THEN @ \cup left ELSE left]
    /\ \E h \in IF k = n THEN HeadsAfter(p, Len(log[p]) + n) ELSE {start[p]} :
          start' = [start EXCEPT ![p] = h]
    /\ UNCHANGED catalogue

StoreTopic(t, count) ==
    /\ catalogue' = [u \in DOMAIN catalogue \cup {t} |->
                       IF u \in DOMAIN catalogue THEN catalogue[u] ELSE count]
    /\ UNCHANGED <<log, start, stale, shadow>>

-----------------------------------------------------------------------------
(* create_topic                                                            *)

CreateTopic(c) ==
    /\ req[c].pc = "idle" /\ issued < MaxRequests
    /\ \E t \in Topics, asked \in AskedPartitions :
         req' = [req EXCEPT ![c] = [Idle EXCEPT !.pc = "list", !.id = issued + 1, !.topic = t,
                                                !.partitions = PartitionsFor(asked)]]
    /\ issued' = issued + 1
    /\ UNCHANGED <<store, late, tokens, round_robin, bus, answers, faults>>

\* topics(), and the comparison with max_topics.
ListTopics(c) ==
    /\ req[c].pc = "list"
    /\ IF Cardinality(DOMAIN catalogue) >= MaxTopics
       THEN Answer(c, "CapacityExceeded")
       ELSE Proceed(c, [req[c] EXCEPT !.pc = "create"])
    /\ UNCHANGED <<store, late, tokens, round_robin, bus, issued, faults>>

\* Deviation: the store does not say whether the topic existed already.
CreateInStore_AlwaysTrue(c) ==
    /\ req[c].pc = "create"
    /\ StoreTopic(req[c].topic, req[c].partitions)
    /\ Proceed(c, [req[c] EXCEPT !.pc = "publishCreated"])
    /\ UNCHANGED <<late, tokens, round_robin, bus, issued, faults>>

CreateInStore(c) ==
    /\ req[c].pc = "create"
    /\ StoreTopic(req[c].topic, req[c].partitions)
    /\ IF req[c].topic \in DOMAIN catalogue
       THEN Answer(c, "TopicExists")
       ELSE Proceed(c, [req[c] EXCEPT !.pc = "publishCreated"])
    /\ UNCHANGED <<late, tokens, round_robin, bus, issued, faults>>

PublishCreated(c) ==
    /\ req[c].pc = "publishCreated"
    /\ Publish([kind |-> "TopicCreated", topic |-> req[c].topic])
    /\ Answer(c, "Created")
    /\ UNCHANGED <<store, late, tokens, round_robin, issued, faults>>

-----------------------------------------------------------------------------
(* produce                                                                 *)

\* Deviation: one token admits the whole batch, which then takes n.
Admitted_AnyToken(n) == tokens > 0

\* try_acquire_n(n)
Admitted(n) == tokens >= n

Produce(c) ==
    /\ req[c].pc = "idle" /\ issued < MaxRequests
    /\ \E t \in Topics, key \in Keys \cup {NoKey}, n \in 1 .. MaxBatch :
         /\ Admitted(n)
         /\ tokens' = tokens - n
         /\ req' = [req EXCEPT ![c] = [Idle EXCEPT !.pc = "count", !.id = issued + 1,
                                                   !.topic = t, !.key = key, !.n = n]]
    /\ issued' = issued + 1
    /\ UNCHANGED <<store, late, round_robin, bus, answers, faults>>

\* A batch with an invalid record is refused after it has been paid for; an empty
\* batch, and one the bucket cannot pay for, are refused and change nothing.
RefuseProduce(c) ==
    /\ req[c].pc = "idle"
    /\ \E n \in 1 .. MaxBatch : Admitted(n) /\ tokens' = tokens - n
    /\ UNCHANGED <<store, late, round_robin, bus, req, issued, answers, faults>>

\* RateLimiter::refill: time adds tokens up to the capacity.
Refill ==
    /\ tokens < Capacity
    /\ tokens' = tokens + 1
    /\ UNCHANGED <<store, late, round_robin, bus, req, issued, answers, faults>>

\* route: the first record's key decides, or the round-robin counter.
Route(key, count) ==
    IF key = NoKey THEN round_robin % count ELSE KeyHash[key] % count

\* partition_count(), and the routing that follows it without an await.
CountPartitions(c) ==
    LET r == req[c]
        count == catalogue[r.topic]
    IN
    /\ r.pc = "count"
    /\ IF r.topic \in DOMAIN catalogue
       THEN /\ Proceed(c, [r EXCEPT !.pc = "append",
                             !.at = [topic |-> r.topic, index |-> Route(r.key, count)]])
            /\ round_robin' = IF r.key = NoKey THEN round_robin + 1 ELSE round_robin
       ELSE /\ Answer(c, "TopicNotFound")
            /\ UNCHANGED round_robin
    /\ UNCHANGED <<store, late, tokens, bus, issued, faults>>

\* Deviation: the base offset is the high watermark after the append.
AppendToStore_BaseAfter(c) ==
    LET r == req[c]
    IN
    /\ r.pc = "append"
    /\ StoreBatch(r.at, r.id, r.n, r.n)
    /\ Proceed(c, [r EXCEPT !.pc = "publishAppended", !.base = Len(log'[r.at]),
                            !.truncated = IF start' = start THEN 0 ELSE start'[r.at]])
    /\ UNCHANGED <<late, tokens, round_robin, bus, issued, faults>>

AppendToStore(c) ==
    LET r == req[c]
    IN
    /\ r.pc = "append"
    /\ StoreBatch(r.at, r.id, r.n, r.n)
    /\ Proceed(c, [r EXCEPT !.pc = "publishAppended", !.base = Len(log[r.at]),
                            !.truncated = IF start' = start THEN 0 ELSE start'[r.at]])
    /\ UNCHANGED <<late, tokens, round_robin, bus, issued, faults>>

\* Deviation: an append that pruned the head publishes the new head only.
PublishAppended_HeadOnly(c) ==
    LET r == req[c]
    IN
    /\ r.pc = "publishAppended"
    /\ IF r.truncated = 0
       THEN Publish([kind |-> "RecordsAppended", at |-> r.at, base |-> r.base,
                     records |-> Batch(r.id, r.n)])
       ELSE Publish([kind |-> "RecordsTruncated", at |-> r.at, new_start |-> r.truncated])
    /\ Answer(c, "Produced")
    /\ UNCHANGED <<store, late, tokens, round_robin, issued, faults>>

PublishAppended(c) ==
    LET r == req[c]
    IN
    /\ r.pc = "publishAppended"
    /\ Publish([kind |-> "RecordsAppended", at |-> r.at, base |-> r.base,
                records |-> Batch(r.id, r.n)])
    /\ IF r.truncated = 0
       THEN Answer(c, "Produced")
       ELSE Proceed(c, [r EXCEPT !.pc = "publishTruncated"])
    /\ UNCHANGED <<store, late, tokens, round_robin, issued, faults>>

PublishTruncated(c) ==
    /\ req[c].pc = "publishTruncated"
    /\ Publish([kind |-> "RecordsTruncated", at |-> req[c].at, new_start |-> req[c].truncated])
    /\ Answer(c, "Produced")
    /\ UNCHANGED <<store, late, tokens, round_robin, issued, faults>>

-----------------------------------------------------------------------------
(* store_call: errors, retries and the timeout                             *)

Fault == faults < MaxFaults /\ faults' = faults + 1

\* Deviation: a failed append that stored records is announced all the same.
StoreError_Announced(c) ==
    LET r == req[c]
    IN
    /\ r.pc = "append"
    /\ Fault
    /\ \E k \in 0 .. r.n : StoreBatch(r.at, r.id, r.n, k)
    /\ Publish([kind |-> "RecordsAppended", at |-> r.at, base |-> Len(log[r.at]),
                records |-> Batch(r.id, r.n)])
    /\ Answer(c, "Port")
    /\ UNCHANGED <<late, tokens, round_robin, issued>>

\* A retryable error: another attempt while there is one left.  A failing
\* append leaves what StoreBatch says, which the next attempt does not undo.
StoreError(c) ==
    LET r == req[c]
    IN
    /\ r.pc \in StoreCalls
    /\ Fault
    /\ IF r.pc = "append"
       THEN \E k \in 0 .. r.n : StoreBatch(r.at, r.id, r.n, k)
       ELSE UNCHANGED store
    /\ IF r.attempt + 1 < RetryAttempts
       THEN req' = [req EXCEPT ![c].attempt = @ + 1] /\ UNCHANGED answers
       ELSE Answer(c, "Port")
    /\ UNCHANGED <<late, tokens, round_robin, bus, issued>>

\* A permanent error ends the call.
StorePermanentError(c) ==
    /\ req[c].pc \in StoreCalls
    /\ Fault
    /\ Answer(c, "Port")
    /\ UNCHANGED <<store, late, tokens, round_robin, bus, issued>>

\* Deviation: only the calls that read run under the budget.
StoreTimeout_ReadsOnly(c) ==
    /\ req[c].pc \in {"list", "count"}
    /\ Answer(c, "Timeout")
    /\ UNCHANGED <<store, late, tokens, round_robin, bus, issued, faults>>

\* The budget is used up: between two attempts, or with a store job running
\* that nobody waits for any more.
StoreTimeout(c) ==
    /\ req[c].pc \in StoreCalls
    /\ \/ UNCHANGED <<late, faults>>
       \/ req[c].pc \in {"create", "append"} /\ late' = late \cup {req[c]} /\ Fault
    /\ Answer(c, "Timeout")
    /\ UNCHANGED <<store, tokens, round_robin, bus, issued>>

LateJob(j) ==
    /\ late' = late \ {j}
    /\ \/ j.pc = "create" /\ StoreTopic(j.topic, j.partitions)
       \/ j.pc = "append" /\ \E k \in 0 .. j.n : StoreBatch(j.at, j.id, j.n, k)
    /\ UNCHANGED <<tokens, round_robin, bus, req, issued, answers, faults>>

\* The steps of a call in progress.
Continue(c) ==
    \/ ListTopics(c)
    \/ CreateInStore(c)
    \/ PublishCreated(c)
    \/ CountPartitions(c)
    \/ AppendToStore(c)
    \/ PublishAppended(c)
    \/ PublishTruncated(c)
    \/ StoreError(c)
    \/ StorePermanentError(c)
    \/ StoreTimeout(c)

Next ==
    \/ \E c \in Clients : CreateTopic(c) \/ Produce(c) \/ RefuseProduce(c) \/ Continue(c)
    \/ \E j \in late : LateJob(j)
    \/ Refill

Spec == Init /\ [][Next]_vars

\* Nothing makes the store answer: a call may hang in it, or go on failing, for as
\* long as it likes.  The timer fires, and the executor runs a call that waits
\* for nobody.
FairSpec ==
    /\ Spec
    /\ \A c \in Clients :
         /\ WF_vars(StoreTimeout(c))
         /\ WF_vars(PublishCreated(c) \/ PublishAppended(c) \/ PublishTruncated(c))

-----------------------------------------------------------------------------
(* Properties                                                              *)

Events(kind) == {i \in DOMAIN bus : bus[i].kind = kind}

Results == {"Created", "CapacityExceeded", "TopicExists", "Produced", "TopicNotFound",
            "Port", "Timeout"}

\* Types of all variables; the bucket never goes below zero or above its capacity,
\* and every request is routed to a partition its topic has.
TypeOK ==
    /\ DOMAIN catalogue \subseteq Topics
    /\ \A t \in DOMAIN catalogue : catalogue[t] \in Counts
    /\ \A p \in Partitions : start[p] \in 0 .. Len(log[p])
    /\ tokens \in 0 .. Capacity
    /\ round_robin \in Nat
    /\ \A i \in DOMAIN bus : bus[i].kind \in EventKinds
    /\ \A c \in Clients :
         /\ req[c].pc \in StoreCalls \cup
              {"idle", "publishCreated", "publishAppended", "publishTruncated"}
         /\ req[c].attempt \in 0 .. RetryAttempts - 1
         /\ req[c].pc = "append" => req[c].at.index \in 0 .. catalogue[req[c].topic] - 1
    /\ issued \in 0 .. MaxRequests
    /\ \A a \in answers : a.result \in Results
    /\ faults \in 0 .. MaxFaults

\* A RecordsAppended event names the records the log holds at its offsets, whatever
\* earlier attempts, abandoned jobs and other producers stored.  Behind the first
\* record of the batch nothing a failed attempt left stands in between; in front of
\* the first it may, and a fetch of the base offset then reads that frame instead.
EventsAreCommitted ==
    \A i \in Events("RecordsAppended") :
        LET e == bus[i]
        IN  /\ e.base + Len(e.records) <= Len(log[e.at])
            /\ SubSeq(log[e.at], e.base + 1, e.base + Len(e.records)) = e.records
            /\ \A s \in shadow : s.at = e.at =>
                 s.offset \notin e.base + 1 .. e.base + Len(e.records) - 1

\* A produce that returned Ok was published exactly once, with the base offset
\* and the records the caller was told.
AckedIsPublished ==
    \A a \in answers : a.result = "Produced" =>
        Cardinality({i \in Events("RecordsAppended") :
            bus[i].at = a.at /\ bus[i].base = a.base /\ bus[i].records = Batch(a.id, a.n)}) = 1

\* A produce that returned an error is never announced on the bus, not even when
\* its records were stored by an attempt that failed or ran too late.
FailuresAreSilent ==
    \A a \in answers : a.result # "Produced" =>
        \A i \in Events("RecordsAppended") : bus[i].records[1].id # a.id

\* However many clients race to create a topic, and whatever is retried or runs
\* late, at most one is told Created, and TopicCreated is published only for it.
OneCreator ==
    \A t \in Topics :
        LET winners == {a \in answers : a.result = "Created" /\ a.topic = t}
            events == {i \in Events("TopicCreated") : bus[i].topic = t}
        IN  Cardinality(winners) <= 1 /\ Cardinality(events) = Cardinality(winners)

\* No call hangs, although the store may never answer one: every client is back
\* again and again, since the one timeout covers each store call with its retries.
Returns == \A c \in Clients : []<>(req[c].pc = "idle")

=============================================================================
