------------------------------- MODULE Tailing -------------------------------
(***************************************************************************)
(* Tailing a partition: producers append and publish (engine.rs), the      *)
(* BroadcastEventBus fans the events out (bus.rs), a subscriber filters    *)
(* them by topic and reads the records with `fetch`, from its position to  *)
(* the end of the log, whenever an event tells it to.                      *)
(*                                                                         *)
(* Append and publish are separate steps of a producer, so events may come *)
(* in another order than the records.  A source connector appends to the   *)
(* store and publishes nothing.  The channel keeps the last Capacity       *)
(* events (tokio's broadcast, external); a receiver that is further behind *)
(* skips to the oldest of them.  A subscriber may stop reading for good    *)
(* while its connection stays open.                                        *)
(***************************************************************************)
EXTENDS Integers, Sequences

CONSTANTS
    Producers,    \* concurrent produce calls
    Subscribers,  \* events subscriptions
    Buffer,       \* BroadcastEventBus::new(capacity)
    FetchMax,     \* LogConfig.fetch_max_records
    AskedMax,     \* the `max` arguments of clients' fetches
    MaxOffset,    \* bound: records ever appended
    MaxNoise      \* bound: events of other topics

ASSUME TailingAssumption ==
    /\ {Buffer, FetchMax, MaxOffset, MaxNoise} \subseteq Nat
    /\ FetchMax > 0
    /\ AskedMax \subseteq Nat

VARIABLES
    head,   \* earliest retained offset of the tailed partition
    high,   \* its high watermark
    prod,   \* where each producer is
    sent,   \* every event published; the channel holds the last of them
    noise,  \* events of other topics so far
    sub     \* the subscriptions

vars == <<head, high, prod, sent, noise, sub>>

Tailed == "tailed"
Other == "other"

Max2(a, b) == IF a >= b THEN a ELSE b
Min2(a, b) == IF a <= b THEN a ELSE b

\* broadcast::channel(capacity.max(1))
Capacity == Max2(Buffer, 1)

IdleProducer == [pc |-> "idle", base |-> 0, truncated |-> 0]

\* next: the offset of the next fetch; told: events received; lagged: the
\* connectforge_subscriber_lagged_total of this subscriber; first: where it began.
Off == [pc |-> "off", topics |-> {}, first |-> 0, pos |-> 0, told |-> {}, lagged |-> 0,
        next |-> 0, consumed |-> <<>>]

Reading(s) == sub[s].pc \in {"fetching", "waiting"}

Init ==
    /\ head = 0
    /\ high = 0
    /\ prod = [p \in Producers |-> IdleProducer]
    /\ sent = <<>>
    /\ noise = 0
    /\ sub = [s \in Subscribers |-> Off]

(***************************************************************************)
(* LogEvents, and the EventObject a GraphQL client sees of one.            *)
(***************************************************************************)
TopicCreated == [type |-> "TopicCreated", topic |-> Other]
RecordsAppended(base) == [type |-> "RecordsAppended", topic |-> Tailed, base_offset |-> base]
RecordsTruncated(start) == [type |-> "RecordsTruncated", topic |-> Tailed, new_start |-> start]

kind(e) == CASE e.type = "TopicCreated" -> "topic_created"
             [] e.type = "RecordsAppended" -> "records_appended"
             [] e.type = "RecordsTruncated" -> "records_truncated"

NoOffset == -1
EventObject(e) ==
    [kind |-> kind(e), topic |-> e.topic,
     offset |-> CASE e.type = "TopicCreated" -> NoOffset
                  [] e.type = "RecordsAppended" -> e.base_offset
                  [] e.type = "RecordsTruncated" -> e.new_start]

-----------------------------------------------------------------------------
(* produce: the append, RecordsAppended, and RecordsTruncated              *)

\* Retention never removes the record just appended.
StoreAppend ==
    /\ high < MaxOffset
    /\ high' = high + 1
    /\ head' \in head .. high

Produce(p) ==
    /\ prod[p].pc = "idle"
    /\ StoreAppend
    /\ prod' = [prod EXCEPT ![p] = [pc |-> "appended", base |-> high,
                                    truncated |-> IF head' = head THEN 0 ELSE head']]
    /\ UNCHANGED <<sent, noise, sub>>

\* SourceRuntime appends to the store, past the engine and its bus.
SourceAppend ==
    /\ StoreAppend
    /\ UNCHANGED <<prod, sent, noise, sub>>

\* The result of `send` is ignored: no subscriber is no failure.
Publish(event) == sent' = Append(sent, event)

PublishAppended(p) ==
    /\ prod[p].pc = "appended"
    /\ Publish(RecordsAppended(prod[p].base))
    /\ prod' = [prod EXCEPT ![p] = IF prod[p].truncated = 0 THEN IdleProducer
                                   ELSE [prod[p] EXCEPT !.pc = "truncated"]]
    /\ UNCHANGED <<head, high, noise, sub>>

PublishTruncated(p) ==
    /\ prod[p].pc = "truncated"
    /\ Publish(RecordsTruncated(prod[p].truncated))
    /\ prod' = [prod EXCEPT ![p] = IdleProducer]
    /\ UNCHANGED <<head, high, noise, sub>>

\* An event of another topic: it is created, or has events as the tailed one has.
PublishOther ==
    /\ noise < MaxNoise
    /\ noise' = noise + 1
    /\ Publish(TopicCreated)
    /\ UNCHANGED <<head, high, prod, sub>>

-----------------------------------------------------------------------------
(* subscribe, and the stream it returns                                    *)

\* The subscriber first reads what is there, from offset 0.
Subscribe(s, topics) ==
    /\ sub[s].pc = "off"
    /\ sub' = [sub EXCEPT ![s] = [Off EXCEPT !.pc = "fetching", !.topics = topics,
                                             !.first = Len(sent), !.pos = Len(sent)]]
    /\ UNCHANGED <<head, high, prod, sent, noise>>

Passes(topics, event) == topics = {} \/ event.topic \in topics

Oldest == Max2(Len(sent) - Capacity, 0)

\* Deviation: the gap is skipped without being counted.
Lag_Uncounted(s) ==
    /\ sub[s].pc = "waiting"
    /\ sub[s].pos < Oldest
    /\ sub' = [sub EXCEPT ![s].pos = Oldest]
    /\ UNCHANGED <<head, high, prod, sent, noise>>

\* Deviation: a gap ends the stream.
Lag_Ends(s) ==
    /\ sub[s].pc = "waiting"
    /\ sub[s].pos < Oldest
    /\ sub' = [sub EXCEPT ![s].lagged = @ + 1, ![s].pos = Len(sent)]
    /\ UNCHANGED <<head, high, prod, sent, noise>>

\* Err(Lagged): counted, and the stream goes on with the oldest event kept.
Lag(s) ==
    /\ sub[s].pc = "waiting"
    /\ sub[s].pos < Oldest
    /\ sub' = [sub EXCEPT ![s].lagged = @ + 1, ![s].pos = Oldest]
    /\ UNCHANGED <<head, high, prod, sent, noise>>

\* Ok(event): passed on or filtered out.
Receive(s) ==
    LET index == sub[s].pos + 1
    IN
    /\ sub[s].pc = "waiting"
    /\ sub[s].pos >= Oldest /\ index <= Len(sent)
    /\ sub' = [sub EXCEPT ![s] =
                 IF Passes(sub[s].topics, sent[index])
                 THEN [sub[s] EXCEPT !.pos = index, !.told = sub[s].told \cup {index},
                                     !.pc = "fetching"]
                 ELSE [sub[s] EXCEPT !.pos = index]]
    /\ UNCHANGED <<head, high, prod, sent, noise>>

-----------------------------------------------------------------------------
(* fetch                                                                   *)

\* max.clamp(1, fetch_max_records)
Clamp(max) == Max2(1, Min2(max, FetchMax))

\* Deviation: the result positions the reader at the high watermark.
NextOffset_HighWatermark(from, max) == Max2(from, high)

\* next_offset: one past the last record returned, or where the read began.
NextOffset(from, max) == Max2(Max2(from, head), Min2(Max2(from, head) + Clamp(max), high))

FetchResult(from, max) ==
    LET begin == Max2(from, head)
        end == Min2(begin + Clamp(max), high)
    IN  [records |-> [i \in 1 .. Max2(end - begin, 0) |-> [offset |-> begin + i - 1]],
         next_offset |-> NextOffset(from, max)]

\* A client sees of a record what matters here, its offset.
FetchResultObject(r) ==
    [records |-> [i \in DOMAIN r.records |-> r.records[i].offset],
     next_offset |-> r.next_offset]

\* The subscriber reads on until a fetch returns nothing.
Fetch(s, max) ==
    LET result == FetchResultObject(FetchResult(sub[s].next, max))
    IN
    /\ sub[s].pc = "fetching"
    /\ sub' = [sub EXCEPT ![s].next = result.next_offset,
                          ![s].consumed = @ \o result.records,
                          ![s].pc = IF result.records = <<>> THEN "waiting" ELSE "fetching"]
    /\ UNCHANGED <<head, high, prod, sent, noise>>

\* The client stops reading; its subscription stays.  What it read before no
\* longer matters.
Stall(s) ==
    /\ Reading(s)
    /\ sub' = [sub EXCEPT ![s] = [Off EXCEPT !.pc = "stalled", !.first = sub[s].pos,
                                             !.pos = sub[s].pos]]
    /\ UNCHANGED <<head, high, prod, sent, noise>>

Continue(p) == PublishAppended(p) \/ PublishTruncated(p)
Follow(s) == Receive(s) \/ Lag(s) \/ \E max \in AskedMax : Fetch(s, max)

Next ==
    \/ \E p \in Producers : Produce(p) \/ Continue(p)
    \/ SourceAppend
    \/ PublishOther
    \/ \E s \in Subscribers : \/ \E topics \in {{}, {Tailed}} : Subscribe(s, topics)
                              \/ Follow(s) \/ Stall(s)

Spec == Init /\ [][Next]_vars

\* A produce call in progress goes on, and a client that has not stalled reads
\* what its stream offers.  Nobody has to produce, subscribe or leave.
FairSpec == /\ Spec
            /\ \A p \in Producers : WF_vars(Continue(p))
            /\ \A s \in Subscribers : WF_vars(Follow(s))

-----------------------------------------------------------------------------
(* Properties                                                              *)

\* A subscriber that reads with `fetch` gets the records in offset order, each
\* once, and everything below its position that retention left, although the
\* events that drive it may come out of order, late or not at all.
ConsumedInOrder ==
    \A s \in Subscribers :
        LET c == sub[s].consumed
        IN  /\ \A i, j \in DOMAIN c : i < j => c[i] < c[j]
            /\ \A o \in 0 .. sub[s].next - 1 : o < head \/ \E i \in DOMAIN c : c[i] = o

\* A subscriber has missed an event that passes its filter only if its lag
\* was counted.
MissedIsCounted ==
    \A s \in Subscribers : sub[s].lagged = 0 =>
        sub[s].told = {i \in sub[s].first + 1 .. sub[s].pos : Passes(sub[s].topics, sent[i])}

\* Every record announced on the bus is read in the end by every subscriber that
\* goes on reading, or pruned: lagging costs events, never the last one.  Only a
\* filtered subscriber that lagged may wait for ever, since the events it kept
\* may all be of other topics.
AnnouncedIsRead ==
    \A s \in Subscribers, o \in 0 .. MaxOffset - 1 :
        (/\ Reading(s)
         /\ \E i \in DOMAIN sent : LET e == EventObject(sent[i])
                                  IN  e.kind = "records_appended" /\ e.offset = o)
        ~> \/ o < head
           \/ \E i \in DOMAIN sub[s].consumed : sub[s].consumed[i] = o
           \/ ~Reading(s)
           \/ sub[s].topics # {} /\ sub[s].lagged > 0

=============================================================================
