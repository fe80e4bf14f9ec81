---------------------------- MODULE Tailing_proofs ----------------------------
(***************************************************************************)
(* Proofs about Tailing, for every set of producers and subscribers, every *)
(* channel capacity and every fetch limit.                                 *)
(***************************************************************************)
EXTENDS Tailing, SequenceTheorems, TLAPS

-----------------------------------------------------------------------------
(* Types                                                                   *)

Events == {TopicCreated} \cup {RecordsAppended(base) : base \in Nat}
            \cup {RecordsTruncated(start) : start \in Nat}

Subscription ==
    [pc : {"off", "fetching", "waiting", "stalled"}, topics : {{}, {Tailed}}, first : Nat,
     pos : Nat, told : SUBSET Nat, lagged : Nat, next : Nat, consumed : Seq(Nat)]

TypeInv ==
    /\ head \in Nat
    /\ high \in Nat
    /\ prod \in [Producers -> [pc : {"idle", "appended", "truncated"}, base : Nat,
                               truncated : Nat]]
    /\ sent \in Seq(Events)
    /\ sub \in [Subscribers -> Subscription]

\* A subscription that has not started has read nothing.
LEMMA OffType == Off \in Subscription
BY EmptySeq DEF Off, Subscription

\* The bounds of a read: clamp and the high watermark, for any request.
LEMMA ReadBounds ==
    ASSUME TypeInv, NEW from \in Nat, NEW max \in AskedMax
    PROVE  \E begin, n \in Nat :
             /\ from <= begin /\ head <= begin /\ (begin = from \/ begin = head)
             /\ LET result == FetchResultObject(FetchResult(from, max))
                IN  /\ result.next_offset = begin + n
                    /\ result.records \in Seq(Nat) /\ Len(result.records) = n
                    /\ \A i \in 1 .. n : result.records[i] = begin + i - 1
<1> DEFINE begin == Max2(from, head)
           end == Min2(begin + Clamp(max), high)
           n == Max2(end - begin, 0)
<1>1. max \in Nat /\ FetchMax \in Nat /\ head \in Nat /\ high \in Nat
  BY TailingAssumption DEF TypeInv
<1>2. Clamp(max) \in Nat
  BY <1>1 DEF Clamp, Max2, Min2
<1>3. /\ begin \in Nat /\ from <= begin /\ head <= begin /\ (begin = from \/ begin = head)
  BY <1>1 DEF Max2
<1>4. end \in Int /\ n \in Nat
  BY <1>1, <1>2, <1>3 DEF Min2, Max2
<1>5. NextOffset(from, max) = begin + n
  BY <1>1, <1>3, <1>4 DEF NextOffset, Max2
<1>6. FetchResult(from, max) = [records |-> [i \in 1 .. n |-> [offset |-> begin + i - 1]],
                               next_offset |-> begin + n]
  BY <1>5 DEF FetchResult
<1> DEFINE r == FetchResult(from, max)
<1> HIDE DEF begin, end, n, r
<1>7. /\ r.next_offset = begin + n /\ DOMAIN r.records = 1 .. n
      /\ \A i \in 1 .. n : r.records[i].offset = begin + i - 1
  BY <1>3, <1>4, <1>6 DEF r
<1>8. [i \in DOMAIN r.records |-> r.records[i].offset] = [i \in 1 .. n |-> begin + i - 1]
  BY <1>7
<1> DEFINE q == [i \in 1 .. n |-> begin + i - 1]
<1>9. FetchResultObject(r) = [records |-> q, next_offset |-> begin + n]
  BY <1>7, <1>8 DEF FetchResultObject
<1>10. q \in [1 .. n -> Nat] /\ \A i \in 1 .. n : q[i] = begin + i - 1
  BY <1>3, <1>4
<1> HIDE DEF q
<1>11. q \in Seq(Nat) /\ Len(q) = n
  BY <1>4, <1>10, SeqDef
<1>12. /\ FetchResultObject(r).next_offset = begin + n
       /\ FetchResultObject(r).records = q
  BY <1>9
<1> USE <1>3, <1>4
<1> WITNESS begin \in Nat, n \in Nat
<1> QED
  BY <1>3, <1>10, <1>11, <1>12 DEF r

-----------------------------------------------------------------------------
(* What a subscriber has read                                              *)

\* What was read is below the position and in order, and everything below the
\* position was read or pruned.  ConsumedInOrder is not inductive without the
\* first part.
InOrder(c, next, start) ==
    /\ \A i \in 1 .. Len(c) : c[i] < next
    /\ \A i, j \in 1 .. Len(c) : i < j => c[i] < c[j]
    /\ \A o \in Nat : o < next => o < start \/ \E i \in 1 .. Len(c) : c[i] = o

ReadInv == \A s \in Subscribers : InOrder(sub[s].consumed, sub[s].next, head)

\* One subscription: until a lag is counted, told holds every event that passes
\* the filter since the subscription began.
AllTold(w, events) ==
    /\ w.first <= w.pos
    /\ w.pos <= Len(events)
    /\ w.lagged = 0 =>
         w.told = {i \in w.first + 1 .. w.pos : Passes(w.topics, events[i])}

ToldInv == \A s \in Subscribers : AllTold(sub[s], sent)

\* A read of n records that begins at the position, or at the head of the log
\* when retention has passed the position, keeps them in order.
LEMMA ReadOn ==
    ASSUME NEW c \in Seq(Nat), NEW r \in Seq(Nat), NEW next \in Nat, NEW start \in Nat,
           NEW begin \in Nat, NEW n \in Nat,
           next <= begin, begin = next \/ begin = start,
           Len(r) = n, \A i \in 1 .. n : r[i] = begin + i - 1,
           InOrder(c, next, start)
    PROVE  InOrder(c \o r, begin + n, start)
<1> DEFINE v == c \o r
           m == Len(c)
<1>1. m \in Nat /\ \A i \in 1 .. m : c[i] \in Nat /\ c[i] < next
  BY DEF InOrder
<1>2. v \in Seq(Nat) /\ Len(v) = m + n
  BY ConcatProperties
<1>3. /\ \A i \in 1 .. m : v[i] = c[i]
      /\ \A i \in m + 1 .. m + n : v[i] = begin + (i - m) - 1
  <2>1. \A i \in 1 .. m + n : v[i] = IF i <= m THEN c[i] ELSE r[i - m]
    BY ConcatProperties
  <2> QED
    BY <1>1, <2>1
<1>4. /\ \A i, j \in 1 .. m : i < j => c[i] < c[j]
      /\ \A o \in Nat : o < next => o < start \/ \E i \in 1 .. m : c[i] = o
  BY DEF InOrder
<1> HIDE DEF v, m
<1>5. \A i \in 1 .. m + n : v[i] < begin + n
  BY <1>1, <1>3
<1>6. ASSUME NEW i \in 1 .. m + n, NEW j \in 1 .. m + n, i < j PROVE v[i] < v[j]
  <2>1. CASE j <= m
    <3>1. i \in 1 .. m /\ j \in 1 .. m
      BY <1>1, <1>6, <2>1
    <3> QED
      BY <1>3, <1>4, <1>6, <3>1
  <2>2. CASE i <= m /\ j > m
    <3>1. v[i] < next /\ v[i] \in Nat
      BY <1>1, <1>3, <2>2
    <3>2. v[j] = begin + (j - m) - 1
      BY <1>1, <1>3, <2>2
    <3> QED
      BY <1>1, <2>2, <3>1, <3>2
  <2>3. CASE i > m
    BY <1>1, <1>3, <1>6, <2>3
  <2> QED BY <1>1, <1>6, <2>1, <2>2, <2>3
<1>7. ASSUME NEW o \in Nat, o < begin + n
      PROVE  o < start \/ \E i \in 1 .. m + n : v[i] = o
  <2>1. CASE o < next
    <3>1. CASE \E i \in 1 .. m : c[i] = o
      <4>1. PICK i \in 1 .. m : c[i] = o
        BY <3>1
      <4>2. i \in 1 .. m + n /\ v[i] = o
        BY <1>1, <1>3, <4>1
      <4> QED BY <4>2
    <3> QED
      BY <1>4, <2>1, <3>1
  <2>2. CASE o >= next /\ o < begin
    BY <2>2
  <2>3. CASE o >= begin
    <3>1. m + (o - begin) + 1 \in m + 1 .. m + n
      BY <1>1, <1>7, <2>3
    <3>2. v[m + (o - begin) + 1] = o
      BY <1>1, <1>3, <3>1
    <3> QED
      BY <1>1, <3>1, <3>2
  <2> QED BY <2>1, <2>2, <2>3
<1> QED
  BY <1>2, <1>5, <1>6, <1>7 DEF InOrder, v

-----------------------------------------------------------------------------
(* Every step                                                              *)

TailingInv == TypeInv /\ ReadInv /\ ToldInv

\* Nobody has produced or subscribed yet.
LEMMA TailingInit == Init => TailingInv
<1> SUFFICES ASSUME Init PROVE TailingInv
  OBVIOUS
<1>1. TypeInv
  BY OffType, EmptySeq DEF Init, TypeInv, IdleProducer
<1>2. ReadInv /\ ToldInv
  BY EmptySeq DEF Init, ReadInv, InOrder, ToldInv, AllTold, Off
<1> QED
  BY <1>1, <1>2 DEF TailingInv

\* Publishing leaves what was published, and everybody's view of it, as it was.
LEMMA PublishKeeps ==
    ASSUME TailingInv, NEW e \in Events, sent' = Append(sent, e), sub' = sub
    PROVE  sent' \in Seq(Events) /\ ToldInv'
<1>1. /\ sent' \in Seq(Events) /\ Len(sent) \in Nat /\ Len(sent') = Len(sent) + 1
      /\ \A i \in 1 .. Len(sent) : sent'[i] = sent[i]
  BY AppendProperties DEF TailingInv, TypeInv
<1>2. ASSUME NEW s \in Subscribers PROVE AllTold(sub[s], sent)'
  <2>1. /\ sub[s].pos \in Nat /\ sub[s].first \in Nat /\ sub[s].pos <= Len(sent)
    BY DEF TailingInv, TypeInv, Subscription, ToldInv, AllTold
  <2>2. \A i \in sub[s].first + 1 .. sub[s].pos : sent'[i] = sent[i]
    BY <1>1, <2>1
  <2>3. {i \in sub[s].first + 1 .. sub[s].pos : Passes(sub[s].topics, sent'[i])}
          = {i \in sub[s].first + 1 .. sub[s].pos : Passes(sub[s].topics, sent[i])}
    BY <2>2
  <2> QED
    BY <1>1, <2>1, <2>3 DEF TailingInv, ToldInv, AllTold
<1> QED
  BY <1>1, <1>2 DEF ToldInv

\* A step of one subscription, given what it does to that subscription.
LEMMA SubscriptionStep ==
    ASSUME TailingInv, NEW s \in Subscribers, NEW w \in Subscription,
           sub' = [sub EXCEPT ![s] = w], UNCHANGED <<head, high, prod, sent>>,
           InOrder(w.consumed, w.next, head), AllTold(w, sent)
    PROVE  TailingInv'
<1>1. sub'[s] = w /\ \A u \in Subscribers : u # s => sub'[u] = sub[u]
  BY DEF TailingInv, TypeInv
<1>2. TypeInv'
  BY DEF TailingInv, TypeInv
<1>3. ReadInv'
  BY <1>1 DEF TailingInv, ReadInv
<1>4. ToldInv'
  BY <1>1 DEF TailingInv, ToldInv
<1> QED
  BY <1>2, <1>3, <1>4 DEF TailingInv

\* Every step of a producer, of retention and of a subscriber keeps the invariant.
LEMMA TailingStep == TailingInv /\ [Next]_vars => TailingInv'
<1> SUFFICES ASSUME TailingInv, [Next]_vars PROVE TailingInv'
  OBVIOUS
<1>0. ASSUME StoreAppend, sub' = sub
      PROVE  head' \in Nat /\ high' \in Nat /\ ReadInv'
  <2>1. head \in Nat /\ head' \in Nat /\ high' \in Nat /\ head <= head'
    BY <1>0 DEF StoreAppend, TailingInv, TypeInv
  <2> QED
    BY <1>0, <2>1 DEF TailingInv, ReadInv, InOrder
<1>1. ASSUME NEW p \in Producers, Produce(p) PROVE TailingInv'
  <2>1. head' \in Nat /\ high' \in Nat /\ ReadInv'
    BY <1>0, <1>1 DEF Produce
  <2> QED
    BY <1>1, <2>1 DEF Produce, TailingInv, TypeInv, ToldInv
<1>2. CASE SourceAppend
  <2>1. head' \in Nat /\ high' \in Nat /\ ReadInv'
    BY <1>0, <1>2 DEF SourceAppend
  <2> QED
    BY <1>2, <2>1 DEF SourceAppend, TailingInv, TypeInv, ToldInv
<1>3. ASSUME NEW e \in Events, Publish(e), UNCHANGED <<head, high, sub>>,
             prod' \in [Producers -> [pc : {"idle", "appended", "truncated"}, base : Nat,
                                      truncated : Nat]]
      PROVE  TailingInv'
  <2>1. sent' \in Seq(Events) /\ ToldInv'
    BY <1>3, PublishKeeps DEF Publish
  <2> QED
    BY <1>3, <2>1 DEF TailingInv, TypeInv, ReadInv
<1>4. ASSUME NEW p \in Producers, PublishAppended(p) PROVE TailingInv'
  BY <1>3, <1>4 DEF PublishAppended, TailingInv, TypeInv, Events, IdleProducer
<1>5. ASSUME NEW p \in Producers, PublishTruncated(p) PROVE TailingInv'
  BY <1>3, <1>5 DEF PublishTruncated, TailingInv, TypeInv, Events, IdleProducer
<1>6. CASE PublishOther
  BY <1>3, <1>6 DEF PublishOther, TailingInv, TypeInv, Events
<1>a. Len(sent) \in Nat /\ Capacity \in Nat /\ Oldest \in Nat /\ Oldest <= Len(sent)
  <2>1. Len(sent) \in Nat /\ Buffer \in Nat
    BY TailingAssumption, EmptySeq DEF TailingInv, TypeInv
  <2> QED
    BY <2>1 DEF Capacity, Oldest, Max2
<1>7. ASSUME NEW s \in Subscribers, NEW topics \in {{}, {Tailed}}, Subscribe(s, topics)
      PROVE  TailingInv'
  <2> DEFINE w == [Off EXCEPT !.pc = "fetching", !.topics = topics,
                              !.first = Len(sent), !.pos = Len(sent)]
  <2>1. /\ w \in Subscription /\ w.consumed = <<>> /\ w.next = 0 /\ w.told = {}
        /\ w.first = Len(sent) /\ w.pos = Len(sent)
    BY <1>a, OffType DEF Off, Subscription
  <2>2. InOrder(w.consumed, w.next, head)
    BY <2>1, EmptySeq DEF InOrder
  <2>3. AllTold(w, sent)
    BY <1>a, <2>1 DEF AllTold
  <2> QED
    BY <1>7, <2>1, <2>2, <2>3, SubscriptionStep DEF Subscribe
<1>8. ASSUME NEW s \in Subscribers, Lag(s) PROVE TailingInv'
  <2> DEFINE w == [sub[s] EXCEPT !.lagged = @ + 1, !.pos = Oldest]
  <2>1. sub[s] \in Subscription /\ InOrder(sub[s].consumed, sub[s].next, head)
    BY DEF TailingInv, TypeInv, ReadInv
  <2>a. sub[s].lagged \in Nat /\ sub[s].lagged + 1 # 0 /\ sub[s].first \in Nat
        /\ sub[s].pos \in Nat /\ sub[s].first <= Oldest
    BY <1>8, <1>a, <2>1 DEF Subscription, TailingInv, ToldInv, AllTold, Lag
  <2>2. /\ w \in Subscription /\ w.consumed = sub[s].consumed /\ w.next = sub[s].next
        /\ w.lagged = sub[s].lagged + 1 /\ w.pos = Oldest /\ w.first = sub[s].first
    <3> DEFINE l == sub[s].lagged + 1
               o == Oldest
    <3>1. l \in Nat /\ o \in Nat
      BY <1>a, <2>a
    <3> HIDE DEF l, o
    <3>2. w = [sub[s] EXCEPT !.lagged = l, !.pos = o]
      BY DEF l, o
    <3>3. /\ w \in Subscription /\ w.consumed = sub[s].consumed /\ w.next = sub[s].next
          /\ w.lagged = l /\ w.pos = o /\ w.first = sub[s].first
      BY <2>1, <3>1, <3>2 DEF Subscription
    <3> QED
      BY <3>3 DEF l, o
  <2>3. sub' = [sub EXCEPT ![s] = w]
    BY <1>8 DEF Lag, TailingInv, TypeInv
  <2> HIDE DEF w
  <2>4. AllTold(w, sent)
    BY <1>a, <2>a, <2>2 DEF AllTold
  <2> QED
    BY <1>8, <2>1, <2>2, <2>3, <2>4, SubscriptionStep DEF Lag
<1>9. ASSUME NEW s \in Subscribers, Receive(s) PROVE TailingInv'
  <2> DEFINE index == sub[s].pos + 1
             w == IF Passes(sub[s].topics, sent[index])
                  THEN [sub[s] EXCEPT !.pos = index, !.told = sub[s].told \cup {index},
                                      !.pc = "fetching"]
                  ELSE [sub[s] EXCEPT !.pos = index]
  <2>1. /\ sub[s] \in Subscription /\ InOrder(sub[s].consumed, sub[s].next, head)
        /\ AllTold(sub[s], sent)
    BY DEF TailingInv, TypeInv, ReadInv, ToldInv
  <2>2. sub[s].pos \in Nat /\ sub[s].first \in Nat /\ index \in Nat /\ index <= Len(sent)
    BY <1>9, <2>1 DEF Receive, Subscription
  <2>3. /\ w \in Subscription /\ w.consumed = sub[s].consumed /\ w.next = sub[s].next
        /\ w.pos = index /\ w.first = sub[s].first /\ w.topics = sub[s].topics
        /\ w.lagged = sub[s].lagged
        /\ w.told = IF Passes(sub[s].topics, sent[index]) THEN sub[s].told \cup {index}
                                                          ELSE sub[s].told
    <3>1. CASE Passes(sub[s].topics, sent[index])
      BY <2>1, <2>2, <3>1 DEF Subscription
    <3>2. CASE ~Passes(sub[s].topics, sent[index])
      BY <2>1, <2>2, <3>2 DEF Subscription
    <3> QED BY <3>1, <3>2
  <2>4. sub' = [sub EXCEPT ![s] = w]
    <3>1. CASE Passes(sub[s].topics, sent[index])
      BY <1>9, <3>1 DEF Receive, TailingInv, TypeInv
    <3>2. CASE ~Passes(sub[s].topics, sent[index])
      BY <1>9, <3>2 DEF Receive, TailingInv, TypeInv
    <3> QED BY <3>1, <3>2
  <2> HIDE DEF w
  <2>5. AllTold(w, sent)
    <3> DEFINE Told(pos) == {i \in sub[s].first + 1 .. pos : Passes(sub[s].topics, sent[i])}
    <3>1. sub[s].first <= sub[s].pos
      BY <2>1 DEF AllTold
    <3>2. Told(index) = IF Passes(sub[s].topics, sent[index])
                        THEN Told(sub[s].pos) \cup {index} ELSE Told(sub[s].pos)
      BY <2>2, <3>1
    <3>3. sub[s].lagged = 0 => sub[s].told = Told(sub[s].pos)
      BY <2>1 DEF AllTold
    <3>4. w.lagged = 0 => w.told = Told(index)
      BY <2>3, <3>2, <3>3
    <3> QED
      BY <2>2, <2>3, <3>1, <3>4 DEF AllTold
  <2> QED
    BY <1>9, <2>1, <2>3, <2>4, <2>5, SubscriptionStep DEF Receive
<1>10. ASSUME NEW s \in Subscribers, NEW max \in AskedMax, Fetch(s, max) PROVE TailingInv'
  <2> DEFINE result == FetchResultObject(FetchResult(sub[s].next, max))
             w == [sub[s] EXCEPT !.next = result.next_offset,
                                 !.consumed = @ \o result.records,
                                 !.pc = IF result.records = <<>> THEN "waiting" ELSE "fetching"]
  <2>1. /\ sub[s] \in Subscription /\ InOrder(sub[s].consumed, sub[s].next, head)
        /\ AllTold(sub[s], sent) /\ head \in Nat
    BY DEF TailingInv, TypeInv, ReadInv, ToldInv
  <2>2. sub[s].next \in Nat /\ sub[s].consumed \in Seq(Nat)
    BY <2>1 DEF Subscription
  <2>3. PICK begin \in Nat, n \in Nat :
          /\ sub[s].next <= begin /\ (begin = sub[s].next \/ begin = head)
          /\ result.next_offset = begin + n
          /\ result.records \in Seq(Nat) /\ Len(result.records) = n
          /\ \A i \in 1 .. n : result.records[i] = begin + i - 1
    BY <2>2, ReadBounds DEF TailingInv
  <2>4. sub' = [sub EXCEPT ![s] = w]
    BY <1>10 DEF Fetch, TailingInv, TypeInv
  <2> HIDE DEF result
  <2>5. sub[s].consumed \o result.records \in Seq(Nat)
    BY <2>2, <2>3, ConcatProperties
  <2>6. /\ w \in Subscription /\ w.consumed = sub[s].consumed \o result.records
        /\ w.next = begin + n /\ w.pos = sub[s].pos /\ w.first = sub[s].first
        /\ w.topics = sub[s].topics /\ w.lagged = sub[s].lagged /\ w.told = sub[s].told
    <3> DEFINE next == result.next_offset
               consumed == sub[s].consumed \o result.records
               pc == IF result.records = <<>> THEN "waiting" ELSE "fetching"
    <3>1. next \in Nat /\ next = begin + n /\ consumed \in Seq(Nat)
          /\ pc \in {"waiting", "fetching"}
      BY <2>3, <2>5
    <3> HIDE DEF next, consumed, pc
    <3>2. w = [sub[s] EXCEPT !.next = next, !.consumed = consumed, !.pc = pc]
      BY DEF next, consumed, pc
    <3>3. /\ w \in Subscription /\ w.consumed = consumed
          /\ w.next = next /\ w.pos = sub[s].pos /\ w.first = sub[s].first
          /\ w.topics = sub[s].topics /\ w.lagged = sub[s].lagged /\ w.told = sub[s].told
      BY <2>1, <3>1, <3>2 DEF Subscription
    <3> QED
      BY <3>1, <3>3 DEF consumed
  <2> HIDE DEF w
  <2>7. InOrder(w.consumed, w.next, head)
    BY <2>1, <2>2, <2>3, <2>6, ReadOn
  <2>8. AllTold(w, sent)
    BY <2>1, <2>6 DEF AllTold
  <2> QED
    BY <1>10, <2>4, <2>6, <2>7, <2>8, SubscriptionStep DEF Fetch
<1>11. ASSUME NEW s \in Subscribers, Stall(s) PROVE TailingInv'
  <2> DEFINE w == [Off EXCEPT !.pc = "stalled", !.first = sub[s].pos, !.pos = sub[s].pos]
  <2>1. sub[s].pos \in Nat /\ sub[s].pos <= Len(sent)
    BY DEF TailingInv, TypeInv, Subscription, ToldInv, AllTold
  <2>2. /\ w \in Subscription /\ w.consumed = <<>> /\ w.next = 0 /\ w.told = {}
        /\ w.first = sub[s].pos /\ w.pos = sub[s].pos
    BY <2>1, OffType DEF Off, Subscription
  <2>3. InOrder(w.consumed, w.next, head)
    BY <2>2, EmptySeq DEF InOrder
  <2>4. AllTold(w, sent)
    BY <2>1, <2>2 DEF AllTold
  <2> QED
    BY <1>11, <2>2, <2>3, <2>4, SubscriptionStep DEF Stall
<1>12. CASE UNCHANGED vars
  BY <1>12 DEF vars, TailingInv, TypeInv, ReadInv, ToldInv
<1> QED
  BY <1>1, <1>2, <1>4, <1>5, <1>6, <1>7, <1>8, <1>9, <1>10, <1>11, <1>12
     DEF Next, Continue, Follow

\* Every reachable state satisfies the invariant.
LEMMA TailingInvariant == Spec => []TailingInv
BY TailingInit, TailingStep, PTL DEF Spec

\* A subscriber that reads with `fetch` gets the records in offset order, each
\* once, and misses none that retention left, whatever the order, delay or loss
\* of the events that wake it and whatever `max` it asks for.
THEOREM ReadInOffsetOrder == Spec => []ConsumedInOrder
<1>1. TailingInv => ConsumedInOrder
  <2> SUFFICES ASSUME TailingInv, NEW s \in Subscribers
               PROVE  LET c == sub[s].consumed
                      IN  /\ \A i, j \in DOMAIN c : i < j => c[i] < c[j]
                          /\ \A o \in 0 .. sub[s].next - 1 :
                               o < head \/ \E i \in DOMAIN c : c[i] = o
    BY DEF ConsumedInOrder
  <2> DEFINE c == sub[s].consumed
  <2>1. c \in Seq(Nat) /\ sub[s].next \in Nat
    BY DEF TailingInv, TypeInv, Subscription
  <2>2. DOMAIN c = 1 .. Len(c)
    BY <2>1
  <2> QED
    BY <2>1, <2>2 DEF TailingInv, ReadInv, InOrder
<1> QED
  BY <1>1, TailingInvariant, PTL

\* The bus never loses an event silently: a subscriber that missed one that
\* passes its filter has counted a lag, whatever the capacity of the channel.
THEOREM LagIsCounted == Spec => []MissedIsCounted
<1>1. TailingInv => MissedIsCounted
  BY DEF TailingInv, ToldInv, AllTold, MissedIsCounted
<1> QED
  BY <1>1, TailingInvariant, PTL

=============================================================================
