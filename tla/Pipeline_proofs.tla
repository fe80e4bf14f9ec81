---------------------------- MODULE Pipeline_proofs ----------------------------
(***************************************************************************)
(* Proofs about Pipeline, for every source, batch size, period of the      *)
(* failing sink, bound of the topic and number of errors, restarts and     *)
(* other producers.                                                        *)
(***************************************************************************)
EXTENDS Pipeline, FiniteSetTheorems, SequenceTheorems, TLAPS

-----------------------------------------------------------------------------
(* The source's side                                                       *)

Places == {"create", "poll", "append", "sink", "source", "status", "dead", "done", "stopped"}

SourceType ==
    /\ command \in {"serve", "demo"} /\ dataDir \in BOOLEAN /\ max_records \in Nat
    /\ sup \in Places
    /\ topic \in BOOLEAN
    /\ content \in Seq(Nat)
    /\ remaining \in Nat /\ counter \in Nat /\ produced \in Nat
    /\ batch \in Seq(Nat)

\* What was polled and is not stored yet are the last records the generator made.
BatchInv ==
    /\ remaining + counter = Total
    /\ sup # "append" => batch = <<>>
    /\ Len(batch) <= counter
    /\ \A i \in 1 .. Len(batch) : batch[i] = counter - Len(batch) + i
    /\ sup = "create" => counter = 0 /\ produced = 0

\* LogFollowsSource, of any partition.
Follows(c) ==
    \A i \in 1 .. Len(c) : c[i] > 1 =>
        \E j \in 1 .. i - 1 : /\ c[j] = c[i] - 1
                              /\ \A k \in j + 1 .. i - 1 : c[k] = Client

\* The last record of the source in a partition is its n-th.
LastSource(c, n) ==
    \/ n = 0
    \/ \E j \in 1 .. Len(c) : c[j] = n /\ \A k \in j + 1 .. Len(c) : c[k] = Client

\* As long as the supervisor goes on, everything before the batch is stored.
FollowInv ==
    /\ Follows(content)
    /\ sup # "stopped" => LastSource(content, counter - Len(batch))

\* Retention leaves the last record, and prunes only a log that outgrew its bound.
HeadInv ==
    /\ head \in Nat /\ head <= Len(content) /\ (head = Len(content) => head = 0)
    /\ head > 0 => max_records # 0 /\ max_records < Len(content)

-----------------------------------------------------------------------------
(* The sink's side                                                         *)

Locals == [pc : S!PCs, from : Nat, pos : Nat, next : Nat, attempt : Nat]

SinkType ==
    /\ ckpt \in Nat /\ cursor \in Nat \cup {S!Unset}
    /\ task \in [{T} -> Locals]
    /\ processed \in Nat /\ dead \in Nat

\* The task is alone, and any error ends it: the cached cursor is the checkpoint,
\* and a batch begins there.
TaskInv ==
    LET q == task[T]
    IN  /\ q.pc \notin {"statusLoad", "statusLoaded"}
        /\ ckpt <= Len(content)
        /\ q.pc \in {"loaded", "fetch"} => q.from = ckpt
        /\ q.pc \in {"deliver", "dead"} => ckpt <= q.pos /\ q.pos < q.next
        /\ q.pc \in {"deliver", "dead", "save"} => ckpt <= q.next /\ q.next <= Len(content)
        /\ q.pc = "saved" => ckpt = q.next
        /\ q.pc = "dead" => Poison(q.pos)
        /\ cursor # S!Unset /\ q.pc # "saved" => cursor = ckpt
        /\ q.pc \in {"fetch", "deliver", "dead", "save", "saved"} => cursor # S!Unset
        /\ sup # "sink" => q.pc = "idle"
        /\ sup \in {"source", "status", "dead", "done"} => cursor # S!Unset

\* How far the sink has come: in a batch, to the record it is at.
Reached(q, saved) ==
    IF q.pc \in {"deliver", "dead"} THEN q.pos
    ELSE IF q.pc \in {"save", "saved"} THEN q.next ELSE saved

\* What the sink makes of a set of records: the poison ones become dead letters.
Good(H) == {o \in H : ~Poison(o)}
Bad(H) == {o \in H : Poison(o)}
Letters(H) == {S!DeadLetterRecord(o) : o \in Bad(H)}

\* The records H were handled once, and the counters count them.
Handles(H) ==
    /\ redelivered = {} /\ delivered = Good(H) /\ dlq = Letters(H)
    /\ IsFiniteSet(H) /\ processed + dead = Cardinality(H)
    /\ IsFiniteSet(delivered) /\ processed = Cardinality(delivered)
    /\ IsFiniteSet(dlq) /\ dead = Cardinality(dlq)

\* H are records before offset n, and the others before n were pruned by head h.
Covers(H, n, h) == H \subseteq 0 .. n - 1 /\ \A o \in 0 .. n - 1 : o \in H \/ o < h

\* Everything before the point reached was handled or pruned.
HandledInv == Handles(S!Handled) /\ Covers(S!Handled, Reached(task[T], ckpt), head)

-----------------------------------------------------------------------------
(* What queries see                                                        *)

Stored(c) == Cardinality({i \in DOMAIN c : c[i] # Client})

Below(H, n) == {o \in H : o < n}

Statuses == [running : BOOLEAN, processed : Nat, dead_lettered : Nat, checkpoint : Nat]
Registries == [source : Statuses, sink : Statuses, dead_letters : SUBSET [offset : Nat, attempts : Nat]]

\* The registry follows the source and the sink; the dead letters it shows are
\* those below the checkpoint it shows, except between the two calls that set them.
RegistryInv ==
    LET shown == registry.sink.checkpoint
    IN  /\ registry \in Registries
        /\ registry.source.processed <= produced /\ produced <= Stored(content)
        /\ registry.sink.processed + registry.sink.dead_lettered
             = Cardinality(Below(S!Handled, shown))
        /\ shown <= ckpt
        /\ sup # "dead" => registry.dead_letters = Letters(Below(S!Handled, shown))
        /\ sup = "dead" => /\ shown = ckpt
                           /\ \E k \in 0 .. shown :
                                registry.dead_letters = Letters(Below(S!Handled, k))

-----------------------------------------------------------------------------
(* The demo                                                                *)

\* A demo that got past create_topic works on a log of its own, and its sink starts
\* when nothing is appended, or pruned, any more.
DemoInv ==
    /\ ~topic => content = <<>>
    /\ command = "demo" /\ sup \in {"create", "poll", "append"} => S!Handled = {}
    /\ command = "demo" /\ sup \in {"sink", "done"} =>
         /\ \A o \in S!Handled : head <= o
         /\ task[T].pc \in {"deliver", "dead"} => head <= task[T].pos
    /\ sup = "done" => command = "demo"
    /\ sup \in {"source", "status", "dead"} => command = "serve"
    /\ command = "demo" /\ sup \notin {"create", "stopped"} =>
         /\ produced = counter - Len(batch) /\ Len(content) = produced
         /\ sup \notin {"poll", "append"} => remaining = 0
         /\ sup = "done" => ckpt = Len(content)

-----------------------------------------------------------------------------
(* Facts about the operators of the model                                  *)

\* One poll takes at most what is left, and nothing only when nothing is left.
LEMMA TakeProperties ==
    ASSUME remaining \in Nat
    PROVE  Take \in Nat /\ Take <= remaining /\ (Take = 0 => remaining = 0)
BY PipelineAssumption DEF Take, S!Min2

\* The next records of the source continue a partition that ends with the one
\* before them.
LEMMA AppendFollows ==
    ASSUME NEW c \in Seq(Nat), NEW b \in Seq(Nat), NEW n \in Nat, Follows(c), LastSource(c, n),
           \A i \in 1 .. Len(b) : b[i] = n + i
    PROVE  c \o b \in Seq(Nat) /\ Follows(c \o b) /\ LastSource(c \o b, n + Len(b))
<1> DEFINE d == c \o b
           l == Len(c)
           m == Len(b)
<1>1. l \in Nat /\ m \in Nat
  OBVIOUS
<1>2. d \in Seq(Nat) /\ Len(d) = l + m
  BY ConcatProperties
<1>3. \A i \in 1 .. l : i \in 1 .. Len(d) /\ d[i] = c[i]
  BY <1>1, ConcatProperties
<1>4. \A i \in 1 .. m : d[l + i] = n + i
  <2> SUFFICES ASSUME NEW i \in 1 .. m PROVE d[l + i] = n + i
    OBVIOUS
  <2>1. l + i \in 1 .. l + m /\ ~(l + i <= l) /\ l + i - l = i
    BY <1>1
  <2>2. d[l + i] = b[l + i - l]
    BY <2>1, ConcatProperties
  <2> QED BY <2>1, <2>2
<1>5. /\ \A i \in 1 .. l : c[i] > 1 =>
           \E j \in 1 .. i - 1 : c[j] = c[i] - 1 /\ \A k \in j + 1 .. i - 1 : c[k] = Client
      /\ n = 0 \/ \E j \in 1 .. l : c[j] = n /\ \A k \in j + 1 .. l : c[k] = Client
  BY DEF Follows, LastSource
<1> HIDE DEF d, l, m
<1>6. Follows(d)
  <2> SUFFICES ASSUME NEW i \in 1 .. Len(d), d[i] > 1
               PROVE  \E j \in 1 .. i - 1 : d[j] = d[i] - 1 /\ \A k \in j + 1 .. i - 1 : d[k] = Client
    BY DEF Follows
  <2>1. CASE i <= l
    <3>1. i \in 1 .. l /\ d[i] = c[i]
      BY <1>1, <1>2, <1>3, <2>1
    <3>2. PICK j \in 1 .. i - 1 : c[j] = c[i] - 1 /\ \A k \in j + 1 .. i - 1 : c[k] = Client
      BY <1>5, <3>1
    <3>3. j \in 1 .. l /\ \A k \in j + 1 .. i - 1 : k \in 1 .. l
      BY <1>1, <3>1
    <3> QED
      BY <1>3, <3>1, <3>2, <3>3
  <2>2. CASE i = l + 1
    <3>1. d[i] = n + 1
      <4>1. 1 \in 1 .. m
        BY <1>1, <1>2, <2>2
      <4> QED BY <1>4, <2>2, <4>1
    <3>2. n # 0 /\ d[i] - 1 = n
      BY <3>1
    <3>3. PICK j \in 1 .. l : c[j] = n /\ \A k \in j + 1 .. l : c[k] = Client
      BY <1>5, <3>2
    <3>4. i - 1 = l /\ \A k \in j + 1 .. l : k \in 1 .. l
      BY <1>1, <2>2
    <3> QED
      BY <1>3, <3>2, <3>3, <3>4
  <2>3. CASE i > l + 1
    <3> DEFINE e == i - l
    <3>1. e \in 1 .. m /\ e - 1 \in 1 .. m /\ i = l + e /\ i - 1 = l + (e - 1) /\ i - 1 \in 1 .. i - 1
      BY <1>1, <1>2, <2>3
    <3> HIDE DEF e
    <3>2. d[i] = n + e /\ d[i - 1] = n + (e - 1)
      BY <1>4, <3>1
    <3>3. d[i - 1] = d[i] - 1
      BY <3>1, <3>2
    <3>4. \A k \in (i - 1) + 1 .. i - 1 : FALSE
      BY <1>1
    <3> QED
      BY <3>1, <3>3, <3>4
  <2> QED
    BY <1>1, <2>1, <2>2, <2>3
<1>7. LastSource(d, n + m)
  <2>1. CASE m = 0
    <3>1. n + m = n /\ Len(d) = l
      BY <1>1, <1>2, <2>1
    <3>2. CASE n # 0
      <4>1. PICK j \in 1 .. l : c[j] = n /\ \A k \in j + 1 .. l : c[k] = Client
        BY <1>5, <3>2
      <4>2. \A k \in j + 1 .. l : k \in 1 .. l
        BY <1>1
      <4> QED
        BY <1>3, <3>1, <4>1, <4>2 DEF LastSource
    <3> QED
      BY <3>1, <3>2 DEF LastSource
  <2>2. CASE m > 0
    <3>1. m \in 1 .. m /\ l + m \in 1 .. Len(d) /\ \A k \in l + m + 1 .. Len(d) : FALSE
      BY <1>1, <1>2, <2>2
    <3> QED
      BY <1>4, <3>1 DEF LastSource
  <2> QED BY <1>1, <2>1, <2>2
<1> QED
  BY <1>2, <1>6, <1>7 DEF d, m

\* A prefix of the batch is a batch.
LEMMA PrefixOfBatch ==
    ASSUME NEW b \in Seq(Nat), NEW n \in 0 .. Len(b)
    PROVE  /\ SubSeq(b, 1, n) \in Seq(Nat) /\ Len(SubSeq(b, 1, n)) = n
           /\ \A i \in 1 .. n : SubSeq(b, 1, n)[i] = b[i]
<1>1. n \in Int /\ 1 \in Int /\ Len(b) \in Nat
  OBVIOUS
<1>2. \A i \in 1 .. n : b[i] \in Nat
  BY <1>1, ElementOfSeq
<1> DEFINE s == SubSeq(b, 1, n)
<1>3. /\ s \in Seq(Nat) /\ Len(s) = IF 1 <= n THEN n - 1 + 1 ELSE 0
      /\ \A i \in 1 .. n - 1 + 1 : s[i] = b[1 + i - 1]
  BY <1>1, <1>2, SubSeqProperties
<1> HIDE DEF s
<1>4. Len(s) = n
  BY <1>1, <1>3
<1>5. \A i \in 1 .. n : i \in 1 .. n - 1 + 1 /\ 1 + i - 1 = i
  BY <1>1
<1>6. \A i \in 1 .. n : s[i] = b[i]
  BY <1>3, <1>5
<1> QED
  BY <1>3, <1>4, <1>6 DEF s

\* Appending never makes a log shorter.
LEMMA ConcatLength ==
    ASSUME NEW c \in Seq(Nat), NEW b \in Seq(Nat)
    PROVE  Len(c) \in Nat /\ Len(b) \in Nat /\ Len(c \o b) = Len(c) + Len(b) /\ Len(c) <= Len(c \o b)
<1>1. Len(c) \in Nat /\ Len(b) \in Nat /\ Len(c \o b) = Len(c) + Len(b)
  BY ConcatProperties
<1>2. Len(c) <= Len(c) + Len(b)
  BY <1>1
<1> QED
  BY <1>1, <1>2

\* An append that succeeds stores the whole batch.
LEMMA WholeBatch ==
    ASSUME batch \in Seq(Nat), StorePrefix(Len(batch))
    PROVE  content' = content \o batch /\ head' \in Heads(Len(content) + Len(batch))
<1>1. SubSeq(batch, 1, Len(batch)) = batch
  BY SubSeqFull
<1> QED
  BY <1>1 DEF StorePrefix

\* The record of another producer leaves the source's records as they are.
LEMMA ClientFollows ==
    ASSUME NEW c \in Seq(Nat), Follows(c)
    PROVE  /\ Append(c, Client) \in Seq(Nat) /\ Follows(Append(c, Client))
           /\ \A n : LastSource(c, n) => LastSource(Append(c, Client), n)
<1> DEFINE d == Append(c, Client)
           l == Len(c)
<1>1. l \in Nat /\ Client \in Nat
  BY DEF Client
<1>2. d \in Seq(Nat) /\ Len(d) = l + 1 /\ d[l + 1] = Client /\ \A i \in 1 .. l : d[i] = c[i]
  BY <1>1, AppendProperties
<1>3. /\ \A i \in 1 .. l : c[i] > 1 =>
           \E j \in 1 .. i - 1 : c[j] = c[i] - 1 /\ \A k \in j + 1 .. i - 1 : c[k] = Client
      /\ \A n : LastSource(c, n) =>
           n = 0 \/ \E j \in 1 .. l : c[j] = n /\ \A k \in j + 1 .. l : c[k] = Client
  BY DEF Follows, LastSource
<1> HIDE DEF d, l
<1>4. Follows(d)
  <2> SUFFICES ASSUME NEW i \in 1 .. Len(d), d[i] > 1
               PROVE  \E j \in 1 .. i - 1 : d[j] = d[i] - 1 /\ \A k \in j + 1 .. i - 1 : d[k] = Client
    BY DEF Follows
  <2>1. i # l + 1
    BY <1>2 DEF Client
  <2>2. i \in 1 .. l /\ d[i] = c[i]
    BY <1>1, <1>2, <2>1
  <2>3. PICK j \in 1 .. i - 1 : c[j] = c[i] - 1 /\ \A k \in j + 1 .. i - 1 : c[k] = Client
    BY <1>3, <2>2
  <2>4. j \in 1 .. l /\ \A k \in j + 1 .. i - 1 : k \in 1 .. l
    BY <1>1, <2>2
  <2> QED
    BY <1>2, <2>2, <2>3, <2>4
<1>5. ASSUME NEW n, LastSource(c, n), n # 0 PROVE LastSource(d, n)
  <2>1. PICK j \in 1 .. l : c[j] = n /\ \A k \in j + 1 .. l : c[k] = Client
    BY <1>3, <1>5
  <2>2. j \in 1 .. Len(d) /\ d[j] = n
    BY <1>1, <1>2, <2>1
  <2>3. \A k \in j + 1 .. Len(d) : d[k] = Client
    <3> SUFFICES ASSUME NEW k \in j + 1 .. Len(d) PROVE d[k] = Client
      OBVIOUS
    <3>1. k = l + 1 \/ (k \in j + 1 .. l /\ k \in 1 .. l)
      BY <1>1, <1>2
    <3> QED BY <1>2, <2>1, <3>1
  <2> QED
    BY <2>2, <2>3 DEF LastSource
<1>6. LastSource(d, 0)
  BY DEF LastSource
<1> QED
  BY <1>2, <1>4, <1>5, <1>6 DEF d

-----------------------------------------------------------------------------
(* The log follows the source                                              *)

SourceInv == SourceType /\ BatchInv /\ FollowInv

\* An empty log follows every source.
LEMMA EmptyFollows == Follows(<<>>) /\ <<>> \in Seq(Nat)
<1>1. <<>> \in Seq(Nat) /\ Len(<<>>) = 0
  OBVIOUS
<1>2. \A i \in 1 .. Len(<<>>) : FALSE
  BY <1>1
<1> QED
  BY <1>1, <1>2 DEF Follows

\* main.rs starts with a new generator and an empty log.
LEMMA SourceInit == Init => SourceInv
<1> SUFFICES ASSUME Init PROVE SourceInv
  OBVIOUS
<1>0. Total \in Nat
  BY PipelineAssumption
<1>1. SourceType
  BY <1>0, EmptyFollows, PipelineAssumption
     DEF Init, NewGenerator, NewSourceRuntime, SourceType, Places
<1>2. BatchInv
  BY <1>0 DEF Init, NewGenerator, NewSourceRuntime, BatchInv
<1>3. FollowInv
  <2>1. content = <<>> /\ counter = 0
    BY DEF Init, NewGenerator
  <2>2. Len(batch) = 0
    BY DEF Init, NewSourceRuntime
  <2>3. counter - Len(batch) = 0
    BY <2>1, <2>2
  <2>4. LastSource(content, 0)
    BY DEF LastSource
  <2> QED
    BY <2>1, <2>3, <2>4, EmptyFollows DEF FollowInv
<1> QED
  BY <1>1, <1>2, <1>3 DEF SourceInv

\* A step that leaves the source and the log alone and is not a restart.
LEMMA SourceLeftAlone ==
    ASSUME SourceInv, UNCHANGED <<setting, content, sourceVars>>, topic' \in BOOLEAN,
           sup' \in Places \ {"create"}, sup # "append", sup # "stopped", sup' # "append"
    PROVE  SourceInv'
BY DEF SourceInv, SourceType, BatchInv, FollowInv, Follows, LastSource, setting, sourceVars

\* Every step keeps the log behind the generator.
LEMMA SourceStep == SourceInv /\ [Next]_vars => SourceInv'
<1> SUFFICES ASSUME SourceInv, [Next]_vars PROVE SourceInv'
  OBVIOUS
<1>0. /\ content \in Seq(Nat) /\ batch \in Seq(Nat) /\ Follows(content) /\ topic \in BOOLEAN
      /\ counter \in Nat /\ remaining \in Nat /\ produced \in Nat /\ Len(batch) \in Nat
      /\ Len(batch) <= counter /\ counter - Len(batch) \in Nat
      /\ remaining + counter = Total /\ sup \in Places
      /\ command \in {"serve", "demo"} /\ dataDir \in BOOLEAN /\ max_records \in Nat
      /\ \A i \in 1 .. Len(batch) : batch[i] = counter - Len(batch) + i
  BY DEF SourceInv, SourceType, BatchInv, FollowInv
<1>1. CASE CreateTopic
  <2>1. topic' \in BOOLEAN /\ sup = "create" /\ sup' \in {"poll", "stopped"}
    BY <1>0, <1>1 DEF CreateTopic, AfterCreateError
  <2>2. UNCHANGED <<setting, content, sourceVars>>
    BY <1>1 DEF CreateTopic
  <2> QED
    BY <2>1, <2>2, SourceLeftAlone DEF Places
<1>2. CASE Poll
  <2>1. Take \in Nat /\ Take <= remaining /\ (Take = 0 => remaining = 0)
    BY <1>0, TakeProperties
  <2>2. /\ sup = "poll" /\ remaining' = remaining - Take /\ counter' = counter + Take
        /\ batch' = NextRecords(Take) /\ sup' = IF Take = 0 THEN "sink" ELSE "append"
        /\ UNCHANGED <<setting, logVars, produced>>
    BY <1>2 DEF Poll
  <2>3. batch = <<>> /\ LastSource(content, counter - Len(batch))
    BY <2>2 DEF SourceInv, BatchInv, FollowInv
  <2> DEFINE k == Take
             b == batch'
  <2>4. b = [i \in 1 .. k |-> counter + i]
    BY <2>2 DEF NextRecords
  <2>5. k \in Nat /\ k <= remaining
    BY <2>1
  <2> HIDE DEF k
  <2>6. b \in Seq(Nat) /\ Len(b) = k /\ \A i \in 1 .. k : b[i] = counter + i
    <3>1. \A i \in 1 .. k : counter + i \in Nat
      BY <1>0, <2>5
    <3> QED BY <2>4, <2>5, <3>1
  <2>7. SourceType'
    BY <1>0, <2>1, <2>2, <2>6 DEF SourceType, Places, setting, logVars
  <2>8. counter' = counter + k /\ remaining' = remaining - k
    BY <2>2 DEF k
  <2>9. counter' - Len(b) = counter /\ Len(b) <= counter' /\ remaining' + counter' = Total
    BY <1>0, <2>5, <2>6, <2>8
  <2>10. sup' # "append" => b = <<>>
    <3> SUFFICES ASSUME k = 0 PROVE b = <<>>
      BY <2>2 DEF k
    <3> QED BY <2>6
  <2>11. BatchInv'
    BY <2>2, <2>6, <2>9, <2>10 DEF BatchInv
  <2>12. LastSource(content, counter)
    BY <1>0, <2>3
  <2>13. FollowInv'
    BY <1>0, <2>2, <2>9, <2>12 DEF FollowInv, Follows, LastSource, logVars
  <2> QED
    BY <2>7, <2>11, <2>13 DEF SourceInv
<1>3. CASE AppendBatch
  <2>1. /\ sup = "append" /\ content' = content \o batch /\ batch' = <<>>
        /\ produced' = produced + Len(batch) /\ sup' \in {"poll", "sink"}
        /\ UNCHANGED <<setting, topic, remaining, counter>>
    BY <1>0, <1>3, WholeBatch DEF AppendBatch, AfterBatch
  <2> DEFINE n == counter - Len(batch)
  <2>2. LastSource(content, n)
    BY <2>1 DEF SourceInv, FollowInv
  <2>3. n \in Nat /\ n + Len(batch) = counter /\ \A i \in 1 .. Len(batch) : batch[i] = n + i
    BY <1>0
  <2> HIDE DEF n
  <2>4. content' \in Seq(Nat) /\ Follows(content)' /\ LastSource(content', counter)
    <3>1. content \o batch \in Seq(Nat) /\ Follows(content \o batch) /\ LastSource(content \o batch, counter)
      BY <1>0, <2>2, <2>3, AppendFollows
    <3> QED BY <2>1, <3>1 DEF Follows, LastSource
  <2>5. batch' \in Seq(Nat) /\ Len(batch') = 0 /\ counter' - Len(batch') = counter /\ produced' \in Nat
    BY <1>0, <2>1
  <2>6. SourceType'
    BY <1>0, <2>1, <2>4, <2>5 DEF SourceType, Places, setting
  <2>7. BatchInv'
    BY <1>0, <2>1, <2>5 DEF BatchInv
  <2>8. FollowInv'
    BY <2>4, <2>5 DEF FollowInv
  <2> QED
    BY <2>6, <2>7, <2>8 DEF SourceInv
<1>4. ASSUME NEW n \in 0 .. Len(batch), sup = "append"
      PROVE  /\ content \o SubSeq(batch, 1, n) \in Seq(Nat)
             /\ Follows(content \o SubSeq(batch, 1, n))
  <2> DEFINE m == counter - Len(batch)
             b == SubSeq(batch, 1, n)
  <2>1. LastSource(content, m) /\ m \in Nat /\ \A i \in 1 .. Len(batch) : batch[i] = m + i
    BY <1>0, <1>4 DEF SourceInv, FollowInv
  <2> HIDE DEF m
  <2>2. b \in Seq(Nat) /\ Len(b) = n /\ \A i \in 1 .. n : b[i] = batch[i]
    BY <1>0, PrefixOfBatch
  <2>3. \A i \in 1 .. n : i \in 1 .. Len(batch)
    BY <1>0
  <2> HIDE DEF b
  <2>4. \A i \in 1 .. Len(b) : b[i] = m + i
    BY <2>1, <2>2, <2>3
  <2>5. content \o b \in Seq(Nat) /\ Follows(content \o b)
    BY <1>0, <2>1, <2>2, <2>4, AppendFollows
  <2> QED
    BY <2>5 DEF b
<1>5. CASE AppendFails
  <2>1. /\ sup = "append" /\ batch' = <<>> /\ sup' = "stopped"
        /\ UNCHANGED <<setting, topic, remaining, counter, produced>>
    BY <1>5 DEF AppendFails, Stop
  <2>2. content' \in Seq(Nat) /\ Follows(content')
    <3>1. CASE content' = content
      BY <1>0, <3>1
    <3>2. CASE \E n \in 0 .. Len(batch) : content' = content \o SubSeq(batch, 1, n)
      BY <1>4, <2>1, <3>2
    <3> QED
      BY <1>5, <3>1, <3>2 DEF AppendFails, StorePrefix
  <2>3. SourceType'
    BY <1>0, <2>1, <2>2 DEF SourceType, Places, setting
  <2>4. Len(batch') = 0
    BY <2>1
  <2>5. BatchInv'
    BY <1>0, <2>1, <2>4 DEF BatchInv
  <2> QED
    BY <2>1, <2>2, <2>3, <2>5 DEF SourceInv, FollowInv
<1>6. CASE SinkStep \/ SinkIdle \/ SinkFails
  <2>1. UNCHANGED <<setting, logVars, sourceVars>> /\ sup = "sink" /\ sup' \in {"sink", "done", "source", "stopped"}
    BY <1>6 DEF SinkStep, SinkIdle, SinkFails, Stop, AfterSink
  <2> QED
    BY <1>0, <2>1, SourceLeftAlone DEF Places, logVars
<1>7. CASE PublishSource \/ PublishSink \/ PublishDead
  <2>1. UNCHANGED <<setting, logVars, sourceVars>> /\ sup \in {"source", "status", "dead"}
        /\ sup' \in {"status", "dead", "poll"}
    BY <1>7 DEF PublishSource, PublishSink, PublishDead
  <2> QED
    BY <1>0, <2>1, SourceLeftAlone DEF Places, logVars
<1>8. CASE ClientProduce
  <2>1. content' = Append(content, Client) /\ UNCHANGED <<setting, sup, topic, sourceVars>>
    BY <1>8 DEF ClientProduce
  <2>2. /\ Append(content, Client) \in Seq(Nat) /\ Follows(Append(content, Client))
        /\ \A n : LastSource(content, n) => LastSource(Append(content, Client), n)
    BY <1>0, ClientFollows
  <2>3. content' \in Seq(Nat) /\ Follows(content') /\ \A n : LastSource(content, n) => LastSource(content', n)
    BY <2>1, <2>2
  <2>4. SourceType'
    BY <1>0, <2>1, <2>3 DEF SourceType, setting, sourceVars
  <2>5. BatchInv'
    BY <2>1 DEF SourceInv, BatchInv, sourceVars
  <2>6. counter' = counter /\ batch' = batch /\ sup' = sup
    BY <2>1 DEF sourceVars
  <2>7. FollowInv'
    BY <2>3, <2>6 DEF SourceInv, FollowInv
  <2> QED
    BY <2>4, <2>5, <2>7 DEF SourceInv
<1>9. CASE Crash
  <2>1. /\ sup' = "create" /\ counter' = 0 /\ remaining' = Total /\ batch' = <<>> /\ produced' = 0
        /\ UNCHANGED setting
    BY <1>9 DEF Crash, NewGenerator, NewSourceRuntime
  <2>2. content' \in Seq(Nat) /\ Follows(content') /\ topic' \in BOOLEAN
    <3>1. CASE ~dataDir
      <4>1. content' = <<>> /\ topic' = FALSE
        BY <1>9, <3>1 DEF Crash
      <4> QED BY <4>1, EmptyFollows
    <3>2. CASE dataDir /\ sup = "append"
      <4>1. PICK m \in {0, Len(batch)} : topic' = topic /\ \E n \in 0 .. m : content' = content \o SubSeq(batch, 1, n)
        BY <1>9, <3>2 DEF Crash, StorePrefix
      <4>2. PICK n \in 0 .. m : content' = content \o SubSeq(batch, 1, n)
        BY <4>1
      <4>3. n \in 0 .. Len(batch)
        BY <1>0, <4>1
      <4> QED BY <1>0, <1>4, <3>2, <4>1, <4>2, <4>3
    <3>3. CASE dataDir /\ sup # "append"
      <4>1. batch = <<>> /\ Len(batch) = 0
        BY <3>3 DEF SourceInv, BatchInv
      <4>2. topic' = topic /\ \E n \in 0 .. 0 : content' = content \o SubSeq(batch, 1, n)
        BY <1>9, <3>3, <4>1 DEF Crash, StorePrefix
      <4>3. content' = content \o SubSeq(batch, 1, 0)
        BY <4>2
      <4>4. SubSeq(batch, 1, 0) = <<>>
        BY <4>1
      <4>5. content' = content
        BY <1>0, <4>3, <4>4, ConcatEmptySeq
      <4> QED BY <1>0, <4>2, <4>5
    <3> QED
      BY <1>0, <3>1, <3>2, <3>3
  <2>3. SourceType'
    BY <1>0, <2>1, <2>2, PipelineAssumption DEF SourceType, Places, setting
  <2>4. Len(batch') = 0
    BY <2>1
  <2>5. BatchInv'
    BY <2>1, <2>4, PipelineAssumption DEF BatchInv
  <2>6. counter' - Len(batch') = 0
    <3>1. counter' = 0
      BY <2>1
    <3> QED BY <2>4, <3>1
  <2>7. LastSource(content', 0)
    BY DEF LastSource
  <2>8. FollowInv'
    BY <2>2, <2>6, <2>7 DEF FollowInv
  <2> QED
    BY <2>3, <2>5, <2>8 DEF SourceInv
<1>10. CASE UNCHANGED vars
  BY <1>10 DEF SourceInv, SourceType, BatchInv, FollowInv, Follows, LastSource,
               vars, setting, logVars, sourceVars
<1> QED
  BY <1>1, <1>2, <1>3, <1>5, <1>6, <1>7, <1>8, <1>9, <1>10 DEF Next, Supervise

\* The records of the source are in the log in the order the generator made
\* them and without a gap, whatever fails and whenever the process restarts
\* (SourceRuntime::run_once, GeneratorSource::poll, run_supervisor).
THEOREM LogWithoutGaps == Spec => []LogFollowsSource
<1>1. SourceInv => LogFollowsSource
  <2> SUFFICES ASSUME SourceInv PROVE LogFollowsSource
    OBVIOUS
  <2>1. DOMAIN content = 1 .. Len(content) /\ Follows(content)
    BY DEF SourceInv, SourceType, FollowInv
  <2> QED
    BY <2>1 DEF Follows, LogFollowsSource, IsSource
<1> QED
  BY SourceInit, SourceStep, <1>1, PTL DEF Spec

-----------------------------------------------------------------------------
(* The head of the log                                                     *)

\* Where retention may leave the head.
LEMMA HeadsProperties ==
    ASSUME HeadInv, Len(content) \in Nat, max_records \in Nat, NEW n \in Nat, Len(content) <= n,
           NEW h \in Heads(n)
    PROVE  /\ h \in Nat /\ head <= h /\ h <= n /\ (h = n => h = 0)
           /\ h > 0 => max_records # 0 /\ max_records < n
<1>1. head \in Nat /\ head <= Len(content) /\ (head = Len(content) => head = 0)
      /\ (head > 0 => max_records # 0 /\ max_records < Len(content))
  BY DEF HeadInv
<1>2. /\ h \in head .. n
      /\ h > head => Len(content) < n /\ h < n /\ max_records # 0 /\ n - head > max_records
  BY DEF Heads
<1>3. CASE h = head
  BY <1>1, <1>2, <1>3
<1>4. CASE h > head
  BY <1>1, <1>2, <1>4
<1> QED BY <1>1, <1>2, <1>3, <1>4

\* A new log has its head at 0.
LEMMA HeadInit == Init => HeadInv
<1>1. Len(<<>>) = 0
  OBVIOUS
<1> QED
  BY <1>1 DEF Init, HeadInv

\* Between restarts the log grows and its head moves forward.
LEMMA HeadStep ==
    SourceInv /\ HeadInv /\ [Next]_vars /\ SourceInv' =>
        /\ HeadInv'
        /\ Crash \/ (Len(content) <= Len(content') /\ head <= head')
<1> SUFFICES ASSUME SourceInv, HeadInv, [Next]_vars, SourceInv'
             PROVE  HeadInv' /\ (Crash \/ (Len(content) <= Len(content') /\ head <= head'))
  OBVIOUS
<1>0. /\ content \in Seq(Nat) /\ batch \in Seq(Nat) /\ Len(content) \in Nat /\ Len(batch) \in Nat
      /\ max_records \in Nat /\ head \in Nat
  BY DEF SourceInv, SourceType, HeadInv
<1>1. ASSUME UNCHANGED <<content, head, max_records>>
      PROVE  HeadInv' /\ Len(content) <= Len(content') /\ head <= head'
  BY <1>0, <1>1 DEF HeadInv
<1>2. ASSUME NEW n \in Nat, Len(content) <= n, Len(content') = n, head' \in Heads(n),
             UNCHANGED max_records
      PROVE  HeadInv' /\ Len(content) <= Len(content') /\ head <= head'
  <2>1. /\ head' \in Nat /\ head <= head' /\ head' <= n /\ (head' = n => head' = 0)
        /\ head' > 0 => max_records # 0 /\ max_records < n
    BY <1>0, <1>2, HeadsProperties
  <2> QED BY <1>2, <2>1 DEF HeadInv
<1>3. ASSUME NEW n \in 0 .. Len(batch), StorePrefix(n), UNCHANGED max_records
      PROVE  HeadInv' /\ Len(content) <= Len(content') /\ head <= head'
  <2>1. SubSeq(batch, 1, n) \in Seq(Nat) /\ Len(SubSeq(batch, 1, n)) = n
    BY <1>0, PrefixOfBatch
  <2>2. n \in Nat /\ content' = content \o SubSeq(batch, 1, n) /\ Len(content') = Len(content) + n
    BY <1>0, <1>3, <2>1, ConcatLength DEF StorePrefix
  <2>3. head' \in Heads(Len(content) + n) \/ head' = head
    BY <1>3 DEF StorePrefix
  <2>4. head \in Heads(Len(content) + n)
    BY <1>0, <2>2 DEF Heads, HeadInv
  <2>5. Len(content) + n \in Nat /\ Len(content) <= Len(content) + n
    BY <1>0, <2>2
  <2> QED BY <1>2, <1>3, <2>2, <2>3, <2>4, <2>5
<1>4. CASE CreateTopic \/ Poll \/ SinkStep \/ SinkIdle \/ SinkFails \/ PublishSource
           \/ PublishSink \/ PublishDead \/ UNCHANGED vars
  BY <1>1, <1>4 DEF CreateTopic, Poll, SinkStep, SinkIdle, SinkFails, PublishSource, PublishSink,
                    PublishDead, vars, setting, logVars
<1>5. CASE AppendBatch
  <2>1. Len(batch) \in 0 .. Len(batch)
    BY <1>0
  <2> QED BY <1>3, <1>5, <2>1 DEF AppendBatch, setting
<1>6. CASE AppendFails
  BY <1>1, <1>3, <1>6 DEF AppendFails, setting
<1>7. CASE ClientProduce
  <2>1. Len(content') = Len(content) + 1 /\ head' \in Heads(Len(content) + 1)
        /\ UNCHANGED max_records
    BY <1>0, <1>7, AppendProperties DEF ClientProduce, Client, setting
  <2>2. Len(content) + 1 \in Nat /\ Len(content) <= Len(content) + 1
    BY <1>0
  <2> QED BY <1>2, <2>1, <2>2
<1>8. CASE Crash
  <2>1. CASE dataDir
    <3>1. PICK n \in 0 .. (IF topic THEN Len(batch) ELSE 0) : StorePrefix(n)
      BY <1>8, <2>1 DEF Crash
    <3>2. n \in 0 .. Len(batch)
      BY <1>0
    <3> QED BY <1>3, <1>8, <3>1, <3>2 DEF Crash, setting
  <2>2. CASE ~dataDir
    <3>1. content' = <<>> /\ head' = 0
      BY <1>8, <2>2 DEF Crash
    <3>2. Len(content') = 0
      BY <3>1
    <3> QED BY <1>8, <3>1, <3>2 DEF HeadInv
  <2> QED BY <2>1, <2>2
<1> QED
  BY <1>4, <1>5, <1>6, <1>7, <1>8 DEF Next, Supervise

-----------------------------------------------------------------------------
(* Every record is handled once                                            *)

SinkInv == SinkType /\ TaskInv /\ HandledInv

\* Nothing is expected of no records.
LEMMA NothingExpected == Good({}) = {} /\ Letters({}) = {}
BY DEF Good, Letters, Bad

\* The offsets of the letters of some records are the poison ones.
LEMMA LetterOffsets ==
    ASSUME NEW H
    PROVE  {e.offset : e \in Letters(H)} = Bad(H)
<1>1. \A o \in Bad(H) : S!DeadLetterRecord(o).offset = o
  BY DEF S!DeadLetterRecord
<1> QED
  BY <1>1 DEF Letters

\* One record more: what it adds depends on the sink's answer.
LEMMA OneMoreExpected ==
    ASSUME NEW H, NEW n, n \notin H
    PROVE  /\ ~Poison(n) => Good(H \cup {n}) = Good(H) \cup {n} /\ Letters(H \cup {n}) = Letters(H)
           /\ Poison(n) => /\ Good(H \cup {n}) = Good(H)
                           /\ Letters(H \cup {n}) = Letters(H) \cup {S!DeadLetterRecord(n)}
           /\ n \notin Good(H) /\ S!DeadLetterRecord(n) \notin Letters(H)
<1>1. S!DeadLetterRecord(n) \notin Letters(H)
  <2>1. \A o \in H : S!DeadLetterRecord(o) # S!DeadLetterRecord(n)
    <3> SUFFICES ASSUME NEW o \in H, S!DeadLetterRecord(o) = S!DeadLetterRecord(n) PROVE FALSE
      OBVIOUS
    <3>1. S!DeadLetterRecord(o).offset = o /\ S!DeadLetterRecord(n).offset = n
      BY DEF S!DeadLetterRecord
    <3> QED BY <3>1
  <2> QED
    BY <2>1 DEF Letters, Bad
<1> HIDE DEF Poison
<1>2. CASE Poison(n)
  <2>1. Good(H \cup {n}) = Good(H)
    BY <1>2 DEF Good
  <2>2. Bad(H \cup {n}) = Bad(H) \cup {n}
    BY <1>2 DEF Bad
  <2>3. Letters(H \cup {n}) = Letters(H) \cup {S!DeadLetterRecord(n)}
    BY <2>2 DEF Letters
  <2> QED BY <1>1, <1>2, <2>1, <2>3 DEF Good
<1>3. CASE ~Poison(n)
  <2>1. Good(H \cup {n}) = Good(H) \cup {n}
    BY <1>3 DEF Good
  <2>2. Bad(H \cup {n}) = Bad(H)
    BY <1>3 DEF Bad
  <2> QED BY <1>1, <1>3, <2>1, <2>2 DEF Good, Letters
<1> QED
  BY <1>2, <1>3

\* A step that has no effect: what it passes over, and what it forgets, was pruned.
LEMMA HandledKept ==
    ASSUME HandledInv, UNCHANGED <<delivered, redelivered, dlq, processed, dead>>,
           Reached(task[T], ckpt) \in Nat, Reached(task'[T], ckpt') \in Nat,
           head \in Nat, head' \in Nat, head <= head',
           Reached(task[T], ckpt) <= Reached(task'[T], ckpt'),
           \A o \in Reached(task[T], ckpt) .. Reached(task'[T], ckpt') - 1 : o < head'
    PROVE  HandledInv'
<1> DEFINE n == Reached(task[T], ckpt)
           m == Reached(task'[T], ckpt')
           H == S!Handled
<1>1. S!Handled' = H
  BY DEF S!Handled
<1>2. Handles(H)'
  BY <1>1 DEF HandledInv, Handles, S!Handled
<1>3. Covers(H, n, head)
  BY DEF HandledInv
<1>4. n \in Nat /\ m \in Nat /\ n <= m /\ \A o \in n .. m - 1 : o < head'
  OBVIOUS
<1> HIDE DEF n, m, H
<1>5. Covers(H, m, head')
  <2>1. H \subseteq 0 .. m - 1
    BY <1>3, <1>4 DEF Covers
  <2>2. ASSUME NEW o \in 0 .. m - 1 PROVE o \in H \/ o < head'
    <3>1. CASE o < n
      <4>1. o \in 0 .. n - 1
        BY <1>4, <3>1
      <4>2. o \in H \/ o < head
        BY <1>3, <4>1 DEF Covers
      <4> QED BY <4>2
    <3>2. CASE ~(o < n)
      <4>1. o \in n .. m - 1
        BY <1>4, <3>2
      <4> QED BY <1>4, <4>1
    <3> QED BY <3>1, <3>2
  <2> QED BY <2>1, <2>2 DEF Covers
<1> QED
  BY <1>1, <1>2, <1>5 DEF HandledInv, m, H

\* A delivery, or a dead letter, adds its record to the handled ones.
LEMMA HandledAdds ==
    ASSUME NEW n,
           \/ S!TakeEffect(n) /\ UNCHANGED dlq
           \/ dlq' = dlq \cup {S!DeadLetterRecord(n)} /\ UNCHANGED delivered
    PROVE  S!Handled' = S!Handled \cup {n}
<1>1. S!Handled' = delivered' \cup {e.offset : e \in dlq'} /\ S!Handled = delivered \cup {e.offset : e \in dlq}
  BY DEF S!Handled
<1>2. CASE S!TakeEffect(n) /\ UNCHANGED dlq
  BY <1>1, <1>2 DEF S!TakeEffect
<1>3. CASE dlq' = dlq \cup {S!DeadLetterRecord(n)} /\ UNCHANGED delivered
  <2>1. S!DeadLetterRecord(n).offset = n
    BY DEF S!DeadLetterRecord
  <2>2. {e.offset : e \in dlq \cup {S!DeadLetterRecord(n)}} = {e.offset : e \in dlq} \cup {n}
    BY <2>1
  <2> QED BY <1>1, <1>3, <2>2
<1> QED BY <1>2, <1>3

\* A step that handles the record at hand, by delivery or as a dead letter.
LEMMA HandledOneMore ==
    ASSUME HandledInv, NEW n \in Nat, Reached(task[T], ckpt) = n, Reached(task'[T], ckpt') = n + 1,
           processed \in Nat, dead \in Nat, UNCHANGED head,
           \/ /\ ~Poison(n) /\ S!TakeEffect(n) /\ processed' = processed + 1
              /\ UNCHANGED <<dlq, dead>>
           \/ /\ Poison(n) /\ dlq' = dlq \cup {S!DeadLetterRecord(n)} /\ dead' = dead + 1
              /\ UNCHANGED <<delivered, redelivered, processed>>
    PROVE  HandledInv'
<1> HIDE DEF Poison
<1> DEFINE H == S!Handled
           G == H \cup {n}
<1>0. S!Handled' = G
  BY HandledAdds
<1>1. /\ redelivered = {} /\ delivered = Good(H) /\ dlq = Letters(H)
      /\ IsFiniteSet(H) /\ processed + dead = Cardinality(H)
      /\ IsFiniteSet(delivered) /\ processed = Cardinality(delivered)
      /\ IsFiniteSet(dlq) /\ dead = Cardinality(dlq)
      /\ H \subseteq 0 .. n - 1 /\ \A o \in 0 .. n - 1 : o \in H \/ o < head
  BY DEF HandledInv, Handles, Covers
<1> HIDE DEF H
<1>2. n \notin H
  BY <1>1
<1>3. n \notin delivered /\ S!DeadLetterRecord(n) \notin dlq
  BY <1>1, <1>2, OneMoreExpected
<1>4. IsFiniteSet(G) /\ Cardinality(G) = Cardinality(H) + 1
  BY <1>1, <1>2, FS_AddElement
<1>5. Covers(G, n + 1, head')
  BY <1>1 DEF Covers
<1>6. /\ redelivered' = {} /\ delivered' = Good(G) /\ dlq' = Letters(G)
      /\ processed' + dead' = Cardinality(G)
      /\ IsFiniteSet(delivered') /\ processed' = Cardinality(delivered')
      /\ IsFiniteSet(dlq') /\ dead' = Cardinality(dlq')
  <2>1. CASE ~Poison(n)
    <3>1. S!TakeEffect(n) /\ processed' = processed + 1 /\ dlq' = dlq /\ dead' = dead
      BY <2>1
    <3>2. redelivered' = {} /\ delivered' = delivered \cup {n}
      BY <1>1, <1>3, <3>1 DEF S!TakeEffect
    <3>3. delivered' = Good(G) /\ dlq' = Letters(G)
      BY <1>1, <1>2, <2>1, <3>1, <3>2, OneMoreExpected
    <3>4. processed' + dead' = Cardinality(G)
      BY <1>1, <1>4, <3>1
    <3>5. IsFiniteSet(delivered') /\ Cardinality(delivered') = Cardinality(delivered) + 1
      BY <1>1, <1>3, <3>2, FS_AddElement
    <3> QED
      BY <1>1, <3>1, <3>2, <3>3, <3>4, <3>5
  <2>2. CASE Poison(n)
    <3> DEFINE e == S!DeadLetterRecord(n)
    <3> HIDE DEF e
    <3>1. /\ dlq' = dlq \cup {e} /\ dead' = dead + 1 /\ e \notin dlq
          /\ delivered' = delivered /\ redelivered' = redelivered /\ processed' = processed
      BY <1>3, <2>2 DEF e
    <3>a. Good(G) = Good(H) /\ Letters(G) = Letters(H) \cup {e}
      BY <1>2, <2>2, OneMoreExpected DEF e
    <3>2. delivered' = Good(G) /\ dlq' = Letters(G)
      BY <1>1, <3>1, <3>a
    <3>3. processed' + dead' = Cardinality(G)
      BY <1>1, <1>4, <3>1
    <3>4. IsFiniteSet(dlq') /\ Cardinality(dlq') = Cardinality(dlq) + 1
      BY <1>1, <3>1, FS_AddElement
    <3> QED
      BY <1>1, <3>1, <3>2, <3>3, <3>4
  <2> QED BY <2>1, <2>2
<1> DEFINE m == Reached(task'[T], ckpt')
<1>7. m = n + 1
  OBVIOUS
<1> HIDE DEF m, G
<1>8. Covers(S!Handled', m, head')
  BY <1>0, <1>5, <1>7
<1>9. Handles(S!Handled)'
  BY <1>0, <1>4, <1>6 DEF Handles
<1> QED
  BY <1>0, <1>8, <1>9 DEF HandledInv, m, G, H

\* How far the sink has come is an offset, whatever it is at.
LEMMA ReachedType ==
    ASSUME NEW q \in Locals, NEW c \in Nat
    PROVE  Reached(q, c) \in Nat
BY DEF Reached, Locals

\* The sink has come at least as far as it has committed.
LEMMA ReachedForward ==
    ASSUME SinkType, TaskInv
    PROVE  Reached(task[T], ckpt) \in Nat /\ ckpt <= Reached(task[T], ckpt)
<1>1. task[T] \in Locals /\ ckpt \in Nat
  BY DEF SinkType
<1>2. Reached(task[T], ckpt) \in Nat /\ task[T].next \in Nat
  BY <1>1, ReachedType DEF Locals
<1>3. ckpt <= Reached(task[T], ckpt)
  BY <1>1, <1>2 DEF TaskInv, Reached
<1> QED BY <1>2, <1>3

\* Nothing handled, nothing counted: the start of a process.
LEMMA NothingHandled ==
    /\ delivered = {} /\ redelivered = {} /\ dlq = {} /\ processed = 0 /\ dead = 0
    /\ Reached(task[T], ckpt) = 0
    => HandledInv /\ S!Handled = {}
<1> SUFFICES ASSUME delivered = {}, redelivered = {}, dlq = {}, processed = 0, dead = 0,
                    Reached(task[T], ckpt) = 0
             PROVE  HandledInv /\ S!Handled = {}
  OBVIOUS
<1>1. S!Handled = {}
  BY DEF S!Handled
<1>2. IsFiniteSet({}) /\ Cardinality({}) = 0
  BY FS_EmptySet
<1>3. Handles(S!Handled)
  BY <1>1, <1>2, NothingExpected DEF Handles
<1>4. Covers(S!Handled, 0, head)
  BY <1>1 DEF Covers
<1> QED BY <1>1, <1>3, <1>4 DEF HandledInv

\* The sink starts with an empty checkpoint store and nothing delivered.
LEMMA SinkInit == Init => SinkInv
<1> SUFFICES ASSUME Init PROVE SinkInv
  OBVIOUS
<1>1. /\ ckpt = 0 /\ cursor = S!Unset /\ task = [t \in {T} \cup {} |-> S!Idle]
      /\ delivered = {} /\ redelivered = {} /\ dlq = {} /\ processed = 0 /\ dead = 0
      /\ sup = "create"
  BY DEF Init, S!Init, S!Tasks
<1>2. task \in [{T} -> Locals] /\ task[T] = S!Idle /\ task[T].pc = "idle"
  BY <1>1 DEF S!Idle, Locals, S!PCs
<1>3. SinkType
  BY <1>1, <1>2 DEF SinkType
<1>4. ckpt <= Len(content)
  <2>1. Len(content) = 0
    BY DEF Init
  <2> QED BY <1>1, <2>1
<1>5. TaskInv
  BY <1>1, <1>2, <1>4 DEF TaskInv
<1>6. Reached(task[T], ckpt) = 0
  BY <1>1, <1>2 DEF Reached
<1>8. HandledInv
  BY <1>1, <1>6, NothingHandled
<1> QED
  BY <1>3, <1>5, <1>8 DEF SinkInv

\* A step of another part of the node: the log may grow, and the sink's loop is
\* neither entered in the middle nor left.
LEMMA SinkLeftAlone ==
    ASSUME SinkInv, UNCHANGED <<ckpt, cursor, task, delivered, redelivered, dlq, processed, dead>>,
           Len(content) \in Nat, Len(content') \in Nat, Len(content) <= Len(content'),
           head \in Nat, head' \in Nat, head <= head', sup = "sink" => sup' = "sink",
           sup' \in {"source", "status", "dead", "done"} => sup \in {"source", "status", "dead", "done"}
    PROVE  SinkInv'
<1>1. SinkType'
  BY DEF SinkInv, SinkType
<1>2. task[T] \in Locals /\ ckpt \in Nat
  BY DEF SinkInv, SinkType
<1>3. task[T].next \in Nat
  BY <1>2 DEF Locals
<1>4. ckpt <= Len(content') /\ (task[T].next <= Len(content) => task[T].next <= Len(content'))
  BY <1>2, <1>3 DEF SinkInv, TaskInv
<1>5. TaskInv'
  BY <1>4 DEF SinkInv, TaskInv
<1>6. HandledInv'
  <2>1. Reached(task[T], ckpt) \in Nat
    BY <1>2, ReachedType
  <2> DEFINE n == Reached(task[T], ckpt)
  <2>2. Reached(task'[T], ckpt') = n /\ n <= n /\ \A o \in n .. n - 1 : FALSE
    BY <2>1
  <2> QED
    BY <2>1, <2>2, HandledKept DEF SinkInv
<1> QED
  BY <1>1, <1>5, <1>6 DEF SinkInv

\* The loop of run_once goes on behind the record it has handled.
LEMMA NextRecordStep ==
    ASSUME SinkType, TaskInv, Len(content) \in Nat, sup = "sink", sup' = "sink",
           task[T].pc \in {"deliver", "dead"}, S!NextRecord(T), UNCHANGED <<ckpt, cursor, content>>,
           processed' \in Nat, dead' \in Nat
    PROVE  /\ SinkType' /\ TaskInv'
           /\ task[T].pos \in Nat
           /\ Reached(task[T], ckpt) = task[T].pos /\ Reached(task'[T], ckpt') = task[T].pos + 1
<1> DEFINE q == task[T]
           p == task'[T]
<1>1. q \in Locals /\ task \in [{T} -> Locals] /\ ckpt \in Nat /\ cursor \in Nat \cup {S!Unset}
  BY DEF SinkType
<1>2. q.pos \in Nat /\ q.next \in Nat /\ q.from \in Nat
  BY <1>1 DEF Locals
<1>3. /\ ckpt <= q.pos /\ q.pos < q.next /\ ckpt <= q.next /\ q.next <= Len(content)
      /\ cursor # S!Unset /\ cursor = ckpt /\ ckpt <= Len(content)
  BY <1>1 DEF TaskInv
<1>4. S!AtLeastOnce = "AtLeastOnce"
  BY DEF S!AtLeastOnce
<1>5. CASE q.pos + 1 < q.next
  <2>1. task' = [task EXCEPT ![T].pc = "deliver", ![T].pos = @ + 1, ![T].attempt = 0]
    BY <1>5 DEF S!NextRecord
  <2>2. task' \in [{T} -> Locals] /\ p.pc = "deliver" /\ p.pos = q.pos + 1 /\ p.next = q.next
    BY <1>1, <1>2, <2>1 DEF Locals, S!PCs
  <2>3. ckpt <= p.pos /\ p.pos < p.next
    BY <1>1, <1>2, <1>3, <1>5, <2>2
  <2>4. TaskInv'
    BY <1>3, <2>2, <2>3 DEF TaskInv
  <2>5. Reached(q, ckpt) = q.pos /\ Reached(p, ckpt') = q.pos + 1
    BY <2>2 DEF Reached
  <2> QED
    BY <1>1, <1>2, <2>2, <2>4, <2>5 DEF SinkType
<1>6. CASE ~(q.pos + 1 < q.next)
  <2>1. task' = [task EXCEPT ![T].pc = "save", ![T].attempt = 0]
    BY <1>4, <1>6 DEF S!NextRecord
  <2>2. task' \in [{T} -> Locals] /\ p.pc = "save" /\ p.next = q.next
    BY <1>1, <1>2, <2>1 DEF Locals, S!PCs
  <2>3. TaskInv'
    BY <1>3, <2>2 DEF TaskInv
  <2>4. q.pos + 1 = q.next
    BY <1>2, <1>3, <1>6
  <2>5. Reached(q, ckpt) = q.pos /\ Reached(p, ckpt') = q.pos + 1
    BY <2>2, <2>4 DEF Reached
  <2> QED
    BY <1>1, <1>2, <2>2, <2>3, <2>5 DEF SinkType
<1> QED
  BY <1>5, <1>6

\* Every await of the sink's run_once.
LEMMA SinkRuns == SinkInv /\ HeadInv /\ Len(content) \in Nat /\ SinkStep => SinkInv'
<1> SUFFICES ASSUME SinkInv, HeadInv, Len(content) \in Nat, SinkStep PROVE SinkInv'
  OBVIOUS
<1> DEFINE q == task[T]
           p == task'[T]
<1>0. /\ UNCHANGED <<content, head>> /\ sup = "sink" /\ sup' = "sink"
      /\ head \in Nat /\ head <= Len(content)
      /\ SinkType /\ TaskInv /\ HandledInv
      /\ task \in [{T} -> Locals] /\ q \in Locals
      /\ ckpt \in Nat /\ cursor \in Nat \cup {S!Unset} /\ processed \in Nat /\ dead \in Nat
  BY DEF SinkInv, SinkType, SinkStep, logVars, HeadInv
<1>1. q.from \in Nat /\ q.pos \in Nat /\ q.next \in Nat /\ q.attempt \in Nat
  BY <1>0 DEF Locals
<1>2. S!Unset \notin Nat
  BY DEF S!Unset
<1>3. ASSUME SinkType', TaskInv', Reached(p, ckpt') = Reached(q, ckpt),
             UNCHANGED <<delivered, redelivered, dlq, processed, dead>>
      PROVE  SinkInv'
  <2> DEFINE n == Reached(q, ckpt)
  <2>1. n \in Nat
    BY <1>0, ReachedType
  <2>2. Reached(p, ckpt') = n /\ n <= n /\ \A o \in n .. n - 1 : FALSE
    BY <1>3, <2>1
  <2>3. HandledInv'
    BY <1>0, <1>3, <2>1, <2>2, HandledKept
  <2> QED BY <1>3, <2>3 DEF SinkInv
<1> USE DEF S!effects, S!counters
<1>4. CASE S!RunOnce(T)
  <2>1. CASE cursor # S!Unset
    <3>1. /\ q.pc = "idle" /\ task' = [task EXCEPT ![T].pc = "fetch", ![T].from = cursor]
          /\ UNCHANGED <<ckpt, cursor, delivered, redelivered, dlq, processed, dead>>
      BY <1>4, <2>1 DEF S!RunOnce
    <3>2. task' \in [{T} -> Locals] /\ p.pc = "fetch" /\ p.from = cursor
      BY <1>0, <1>1, <2>1, <3>1 DEF Locals, S!PCs
    <3>3. SinkType' /\ TaskInv' /\ Reached(p, ckpt') = Reached(q, ckpt)
      BY <1>0, <2>1, <3>1, <3>2 DEF SinkType, TaskInv, Reached
    <3> QED BY <1>3, <3>1, <3>3
  <2>2. CASE cursor = S!Unset
    <3>1. /\ q.pc = "idle" /\ task' = [task EXCEPT ![T].pc = "load"]
          /\ UNCHANGED <<ckpt, cursor, delivered, redelivered, dlq, processed, dead>>
      BY <1>4, <2>2 DEF S!RunOnce, S!Goto
    <3>2. task' \in [{T} -> Locals] /\ p.pc = "load"
      BY <1>0, <1>1, <3>1 DEF Locals, S!PCs
    <3>3. SinkType' /\ TaskInv' /\ Reached(p, ckpt') = Reached(q, ckpt)
      BY <1>0, <2>2, <3>1, <3>2 DEF SinkType, TaskInv, Reached
    <3> QED BY <1>3, <3>1, <3>3
  <2> QED BY <2>1, <2>2
<1>5. CASE MemoryLoad
  <2>1. q.pc \in {"load", "statusLoad"} /\ q.pc # "statusLoad"
    BY <1>0, <1>5 DEF MemoryLoad, S!LoadCheckpoint, TaskInv
  <2>2. /\ q.pc = "load" /\ task' = [task EXCEPT ![T].pc = "loaded", ![T].from = ckpt]
        /\ UNCHANGED <<ckpt, cursor, delivered, redelivered, dlq, processed, dead>>
    BY <1>5, <2>1 DEF MemoryLoad, S!LoadCheckpoint
  <2>3. task' \in [{T} -> Locals] /\ p.pc = "loaded" /\ p.from = ckpt
    BY <1>0, <1>1, <2>2 DEF Locals, S!PCs
  <2>4. SinkType' /\ TaskInv' /\ Reached(p, ckpt') = Reached(q, ckpt)
    BY <1>0, <2>2, <2>3 DEF SinkType, TaskInv, Reached
  <2> QED BY <1>3, <2>2, <2>4
<1>6. CASE S!CacheCheckpoint(T)
  <2>1. q.pc \in {"loaded", "statusLoaded"} /\ q.pc # "statusLoaded"
    BY <1>0, <1>6 DEF S!CacheCheckpoint, TaskInv
  <2>2. /\ q.pc = "loaded" /\ task' = [task EXCEPT ![T].pc = "fetch"] /\ cursor' = q.from
        /\ UNCHANGED <<ckpt, delivered, redelivered, dlq, processed, dead>>
    BY <1>6, <2>1 DEF S!CacheCheckpoint, S!Goto
  <2>3. task' \in [{T} -> Locals] /\ p.pc = "fetch" /\ p.from = q.from
    BY <1>0, <1>1, <2>2 DEF Locals, S!PCs
  <2>4. q.from = ckpt /\ cursor' = ckpt /\ cursor' # S!Unset
    BY <1>0, <1>2, <2>2 DEF TaskInv
  <2>5. SinkType' /\ TaskInv' /\ Reached(p, ckpt') = Reached(q, ckpt)
    BY <1>0, <2>2, <2>3, <2>4 DEF SinkType, TaskInv, Reached
  <2> QED BY <1>3, <2>2, <2>5
<1>7. CASE S!FetchBatch(T)
  <2> DEFINE e == S!FetchEnd(T)
  <2>1. q.pc = "fetch" /\ q.from = ckpt /\ cursor = ckpt /\ cursor # S!Unset /\ ckpt <= Len(content)
    BY <1>0, <1>7 DEF S!FetchBatch, TaskInv
  <2> DEFINE f == S!FetchFrom(T)
  <2>2. f \in Nat /\ ckpt <= f /\ \A o \in ckpt .. f - 1 : o < head
    BY <1>0, <1>1, <2>1 DEF S!FetchFrom, S!Max2
  <2>3. BatchSize \in Nat
    BY PipelineAssumption
  <2>5. S!AfterFetch = "deliver"
    BY DEF S!AfterFetch, S!AtMostOnce
  <2> HIDE DEF f
  <2>4. e \in Nat /\ e <= Len(content)
    BY <1>1, <2>2, <2>3 DEF S!FetchEnd, S!Min2, f
  <2> HIDE DEF e
  <2>6. /\ f < e
        /\ task' = [task EXCEPT ![T] = [pc |-> "deliver", from |-> q.from, pos |-> f,
                                        next |-> e, attempt |-> 0]]
        /\ UNCHANGED <<ckpt, cursor, delivered, redelivered, dlq, processed, dead>>
    BY <1>7, <2>5 DEF S!FetchBatch, e, f
  <2>7. task' \in [{T} -> Locals] /\ p.pc = "deliver" /\ p.pos = f /\ p.next = e
    BY <1>0, <1>1, <2>2, <2>4, <2>6 DEF Locals, S!PCs
  <2>8. ckpt <= p.pos /\ p.pos < p.next /\ ckpt <= p.next /\ p.next <= Len(content)
    BY <1>0, <2>1, <2>2, <2>4, <2>6, <2>7
  <2>9. SinkType' /\ TaskInv'
    BY <1>0, <2>1, <2>6, <2>7, <2>8 DEF SinkType, TaskInv
  <2>10. Reached(q, ckpt) = ckpt /\ Reached(p, ckpt') = f
    BY <2>1, <2>7 DEF Reached
  <2>11. HandledInv'
    BY <1>0, <2>2, <2>6, <2>10, HandledKept
  <2> QED BY <2>9, <2>11 DEF SinkInv
<1>8. CASE SinkDelivers
  <2>1. /\ ~Poison(q.pos) /\ q.pc = "deliver" /\ S!TakeEffect(q.pos) /\ processed' = processed + 1
        /\ S!NextRecord(T) /\ UNCHANGED <<ckpt, cursor, dlq, dead>>
    BY <1>8 DEF SinkDelivers, S!Deliver
  <2>2. processed' \in Nat /\ dead' \in Nat
    BY <1>0, <2>1
  <2>3. /\ SinkType' /\ TaskInv'
        /\ Reached(q, ckpt) = q.pos /\ Reached(p, ckpt') = q.pos + 1
    BY <1>0, <2>1, <2>2, NextRecordStep
  <2>4. HandledInv'
    BY <1>0, <1>1, <2>1, <2>3, HandledOneMore
  <2> QED BY <2>3, <2>4 DEF SinkInv
<1>9. CASE SinkRejects
  <2>1. /\ Poison(q.pos) /\ q.pc = "deliver" /\ p.pc = "dead"
        /\ UNCHANGED <<ckpt, cursor, delivered, redelivered, dlq, processed, dead>>
    BY <1>9 DEF SinkRejects, S!DeliverFails
  <2>2. \/ task' = [task EXCEPT ![T].attempt = @ + 1]
        \/ task' = [task EXCEPT ![T].attempt = @ + 1, ![T].pc = "dead"]
    BY <1>9 DEF SinkRejects, S!DeliverFails
  <2>3. task' \in [{T} -> Locals] /\ p.pos = q.pos /\ p.next = q.next
    BY <1>0, <1>1, <2>2 DEF Locals, S!PCs
  <2>4. Poison(p.pos)
    BY <2>1, <2>3
  <2>5. SinkType' /\ TaskInv' /\ Reached(p, ckpt') = Reached(q, ckpt)
    BY <1>0, <2>1, <2>3, <2>4 DEF SinkType, TaskInv, Reached
  <2> QED BY <1>3, <2>1, <2>5
<1>10. CASE MemoryDeadLetter
  <2>1. /\ q.pc = "dead" /\ dlq' = dlq \cup {S!DeadLetterRecord(q.pos)} /\ dead' = dead + 1
        /\ S!NextRecord(T) /\ UNCHANGED <<ckpt, cursor, delivered, redelivered, processed>>
    BY <1>10 DEF MemoryDeadLetter, S!DeadLetter
  <2>2. processed' \in Nat /\ dead' \in Nat /\ Poison(q.pos)
    BY <1>0, <2>1 DEF TaskInv
  <2>3. /\ SinkType' /\ TaskInv'
        /\ Reached(q, ckpt) = q.pos /\ Reached(p, ckpt') = q.pos + 1
    BY <1>0, <2>1, <2>2, NextRecordStep
  <2>4. HandledInv'
    BY <1>0, <1>1, <2>1, <2>2, <2>3, HandledOneMore
  <2> QED BY <2>3, <2>4 DEF SinkInv
<1>11. CASE MemorySave
  <2>1. /\ q.pc = "save" /\ ckpt' = q.next /\ task' = [task EXCEPT ![T].pc = "saved"]
        /\ UNCHANGED <<cursor, delivered, redelivered, dlq, processed, dead>>
    BY <1>11 DEF MemorySave, S!SaveCheckpoint, S!Goto
  <2>2. task' \in [{T} -> Locals] /\ p.pc = "saved" /\ p.next = q.next
    BY <1>0, <1>1, <2>1 DEF Locals, S!PCs
  <2>3. q.next <= Len(content) /\ cursor # S!Unset
    BY <1>0, <2>1 DEF TaskInv
  <2>4. SinkType' /\ TaskInv' /\ Reached(p, ckpt') = Reached(q, ckpt)
    BY <1>0, <1>1, <2>1, <2>2, <2>3 DEF SinkType, TaskInv, Reached
  <2> QED BY <1>3, <2>1, <2>4
<1>12. CASE S!AdvanceCursor(T)
  <2>1. /\ q.pc = "saved" /\ cursor' = q.next /\ task' = [task EXCEPT ![T] = S!Idle]
        /\ UNCHANGED <<ckpt, delivered, redelivered, dlq, processed, dead>>
    BY <1>12 DEF S!AdvanceCursor, S!Return, S!AtMostOnce, S!AtLeastOnce
  <2>2. task' \in [{T} -> Locals] /\ p.pc = "idle"
    BY <1>0, <2>1 DEF Locals, S!PCs, S!Idle
  <2>3. ckpt = q.next /\ cursor' = ckpt /\ cursor' # S!Unset
    BY <1>0, <1>1, <1>2, <2>1 DEF TaskInv
  <2>4. SinkType' /\ TaskInv' /\ Reached(p, ckpt') = Reached(q, ckpt)
    BY <1>0, <2>1, <2>2, <2>3 DEF SinkType, TaskInv, Reached
  <2> QED BY <1>3, <2>1, <2>4
<1> QED
  BY <1>4, <1>5, <1>6, <1>7, <1>8, <1>9, <1>10, <1>11, <1>12 DEF SinkStep

\* The end of the loop, and a fetch that fails.
LEMMA SinkReturns == SinkInv /\ HeadInv /\ (SinkIdle \/ SinkFails) => SinkInv'
<1> SUFFICES ASSUME SinkInv, HeadInv, SinkIdle \/ SinkFails PROVE SinkInv'
  OBVIOUS
<1> DEFINE q == task[T]
           p == task'[T]
<1>1. /\ content' = content /\ head' = head /\ sup' \in {"done", "source", "stopped"}
      /\ q.pc = "fetch" /\ task' = [task EXCEPT ![T] = S!Idle]
      /\ UNCHANGED <<ckpt, cursor, delivered, redelivered, dlq, processed, dead>>
  BY DEF SinkIdle, SinkFails, S!FetchNothing, S!PortError, S!Return, Stop, AfterSink,
         S!effects, S!counters, logVars
<1>2. SinkType /\ TaskInv /\ HandledInv /\ task \in [{T} -> Locals]
  BY DEF SinkInv, SinkType
<1>3. task' \in [{T} -> Locals] /\ p.pc = "idle"
  BY <1>1, <1>2 DEF Locals, S!PCs, S!Idle
<1>4. SinkType' /\ TaskInv' /\ Reached(p, ckpt') = Reached(q, ckpt)
  BY <1>1, <1>2, <1>3 DEF SinkType, TaskInv, Reached
<1>5. Reached(q, ckpt) \in Nat /\ head \in Nat
  BY <1>2, ReachedType DEF SinkType, HeadInv
<1> DEFINE n == Reached(q, ckpt)
<1>6. Reached(p, ckpt') = n /\ n <= n /\ head <= head' /\ \A o \in n .. n - 1 : FALSE
  BY <1>1, <1>4, <1>5
<1> QED
  BY <1>1, <1>2, <1>4, <1>5, <1>6, HandledKept DEF SinkInv

\* A restart begins with nothing handled.
LEMMA SinkRestarts == SinkInv /\ Crash /\ Len(content') \in Nat => SinkInv'
<1> SUFFICES ASSUME SinkInv, Crash, Len(content') \in Nat PROVE SinkInv'
  OBVIOUS
<1>1. /\ ckpt' = 0 /\ cursor' = S!Unset /\ task' = [task EXCEPT ![T] = S!Idle]
      /\ delivered' = {} /\ redelivered' = {} /\ dlq' = {} /\ processed' = 0 /\ dead' = 0
      /\ sup' = "create"
  BY DEF Crash, NewMemoryStores
<1>2. task \in [{T} -> Locals]
  BY DEF SinkInv, SinkType
<1>3. task' \in [{T} -> Locals] /\ task'[T].pc = "idle"
  BY <1>1, <1>2 DEF S!Idle, Locals, S!PCs
<1>4. SinkType'
  BY <1>1, <1>3 DEF SinkType
<1>5. ckpt' <= Len(content')
  BY <1>1
<1>6. TaskInv'
  BY <1>1, <1>3, <1>5 DEF TaskInv
<1>7. Reached(task'[T], ckpt') = 0
  BY <1>1, <1>3 DEF Reached
<1>8. /\ (delivered = {})' /\ (redelivered = {})' /\ (dlq = {})' /\ (processed = 0)'
      /\ (dead = 0)' /\ (Reached(task[T], ckpt) = 0)'
  BY <1>1, <1>7
<1>9. HandledInv'
  BY <1>8, NothingHandled, PTL
<1> QED
  BY <1>4, <1>6, <1>9 DEF SinkInv

\* Every step keeps what the sink has handled exact.
LEMMA SinkInvStep ==
    SourceInv /\ HeadInv /\ SinkInv /\ [Next]_vars /\ SourceInv' /\ HeadInv' => SinkInv'
<1> SUFFICES ASSUME SourceInv, HeadInv, SinkInv, [Next]_vars, SourceInv', HeadInv' PROVE SinkInv'
  OBVIOUS
<1>0. Len(content) \in Nat /\ Len(content') \in Nat /\ head \in Nat /\ head' \in Nat
  BY DEF SourceInv, SourceType, HeadInv
<1>1. ASSUME UNCHANGED <<ckpt, cursor, task, delivered, redelivered, dlq, processed, dead>>,
             ~Crash, sup = "sink" => sup' = "sink",
             sup' \in {"source", "status", "dead", "done"} => sup \in {"source", "status", "dead", "done"}
      PROVE  SinkInv'
  <2>1. Len(content) <= Len(content') /\ head <= head'
    BY <1>1, HeadStep
  <2> QED BY <1>0, <1>1, <2>1, SinkLeftAlone
<1>8. CASE Crash
  BY <1>0, <1>8, SinkRestarts
<1>2. CASE CreateTopic \/ Poll \/ AppendBatch \/ AppendFails
  BY <1>1, <1>2, <1>8 DEF CreateTopic, Poll, AfterCreateError, AppendBatch, AfterBatch, AppendFails, Stop,
                    sinkVars
<1>4. CASE SinkStep
  BY <1>0, <1>4, SinkRuns
<1>5. CASE SinkIdle \/ SinkFails
  BY <1>5, SinkReturns
<1>6. CASE PublishSource \/ PublishSink \/ PublishDead \/ ClientProduce \/ UNCHANGED vars
  BY <1>1, <1>6, <1>8 DEF PublishSource, PublishSink, PublishDead, ClientProduce, vars, sinkVars
<1> QED
  BY <1>2, <1>4, <1>5, <1>6, <1>8 DEF Next, Supervise

\* Between two restarts no record is delivered or dead-lettered twice, and the
\* sink's counters are the sizes of what it handled (SinkRuntime::run_once as
\* run_supervisor and run_demo drive it).
THEOREM HandledOnce == Spec => []DeliveredOnce
<1>1. SinkInv => DeliveredOnce
  BY DEF SinkInv, HandledInv, Handles, DeliveredOnce
<1> QED
  BY SourceInit, SourceStep, HeadInit, HeadStep, SinkInit, SinkInvStep, <1>1, PTL DEF Spec

-----------------------------------------------------------------------------
(* What queries see                                                        *)

\* The records of the source in a log are finitely many; one more record never
\* makes them fewer, and a batch of the source adds its length.
LEMMA StoredGrows ==
    ASSUME NEW c \in Seq(Nat), NEW b \in Seq(Nat)
    PROVE  /\ Stored(c) \in Nat /\ Stored(c \o b) \in Nat /\ Stored(c) <= Stored(c \o b)
           /\ (\A i \in 1 .. Len(b) : b[i] # Client) => Stored(c \o b) = Stored(c) + Len(b)
<1> DEFINE d == c \o b
           l == Len(c)
           m == Len(b)
           C == {i \in 1 .. l : c[i] # Client}
           D == {i \in 1 .. l + m : d[i] # Client}
           N == l + 1 .. l + m
<1>1. l \in Nat /\ m \in Nat /\ DOMAIN c = 1 .. l
  OBVIOUS
<1>2. d \in Seq(Nat) /\ Len(d) = l + m /\ DOMAIN d = 1 .. l + m
  BY ConcatProperties
<1>3. \A i \in 1 .. l : d[i] = c[i]
  BY <1>1, ConcatProperties
<1>4. \A i \in N : i - l \in 1 .. m /\ d[i] = b[i - l]
  <2> SUFFICES ASSUME NEW i \in N PROVE i - l \in 1 .. m /\ d[i] = b[i - l]
    OBVIOUS
  <2>1. i \in 1 .. l + m /\ ~(i <= l) /\ i - l \in 1 .. m
    BY <1>1
  <2> QED BY <2>1, ConcatProperties
<1>5. Stored(c) = Cardinality(C) /\ Stored(d) = Cardinality(D)
  BY <1>1, <1>2 DEF Stored
<1> HIDE DEF d, l, m
<1>6. C \subseteq D
  <2>1. 1 .. l \subseteq 1 .. l + m
    BY <1>1
  <2> QED BY <1>3, <2>1
<1>7. IsFiniteSet(1 .. l + m)
  BY <1>1, FS_Interval
<1>8. IsFiniteSet(D)
  <2>1. D \subseteq 1 .. l + m
    OBVIOUS
  <2> QED BY <1>7, <2>1, FS_Subset
<1>9. IsFiniteSet(C) /\ Cardinality(C) <= Cardinality(D)
  BY <1>6, <1>8, FS_Subset
<1>10. Cardinality(C) \in Nat /\ Cardinality(D) \in Nat
  BY <1>8, <1>9, FS_CardinalityType
<1>11. ASSUME \A i \in 1 .. m : b[i] # Client PROVE Cardinality(D) = Cardinality(C) + m
  <2>1. \A i \in N : d[i] # Client
    BY <1>4, <1>11
  <2>2. (1 .. l + m) = (1 .. l) \cup N /\ (1 .. l) \cap N = {}
    BY <1>1
  <2>3. D = C \cup N
    BY <1>3, <2>1, <2>2
  <2>4. C \cap N = {}
    BY <2>2
  <2>5. l + 1 \in Int /\ l + m \in Int
    BY <1>1
  <2>6. IsFiniteSet(N) /\ Cardinality(N) = IF l + 1 > l + m THEN 0 ELSE (l + m) - (l + 1) + 1
    BY <2>5, FS_Interval
  <2>7. Cardinality(N) = m
    BY <1>1, <2>6
  <2>8. Cardinality(C \cup N) = Cardinality(C) + Cardinality(N) - Cardinality(C \cap N)
    BY <1>9, <2>6, FS_Union
  <2>9. Cardinality(C \cap N) = 0
    BY <2>4, FS_EmptySet
  <2> HIDE DEF C, D, N
  <2> QED
    BY <1>1, <1>10, <2>3, <2>7, <2>8, <2>9
<1> QED
  BY <1>5, <1>9, <1>10, <1>11 DEF d, m

\* The letters of some records are of the kind the registry shows.
LEMMA LettersType ==
    ASSUME NEW H \in SUBSET Nat
    PROVE  Letters(H) \in SUBSET [offset : Nat, attempts : Nat]
<1>1. S!Attempts = 3
  BY DEF S!Attempts
<1>2. \A o \in Bad(H) : o \in Nat
  BY DEF Bad
<1>3. \A o \in Bad(H) : S!DeadLetterRecord(o) \in [offset : Nat, attempts : Nat]
  BY <1>1, <1>2 DEF S!DeadLetterRecord
<1> QED
  BY <1>3 DEF Letters

\* A registry nobody has reported to shows nothing.
LEMMA NothingShown ==
    /\ EmptyRegistry \in Registries
    /\ EmptyRegistry.source.processed = 0 /\ EmptyRegistry.sink.processed = 0
    /\ EmptyRegistry.sink.dead_lettered = 0 /\ EmptyRegistry.sink.checkpoint = 0
    /\ EmptyRegistry.dead_letters = {}
<1>1. NoStatus \in Statuses /\ NoStatus.processed = 0 /\ NoStatus.dead_lettered = 0 /\ NoStatus.checkpoint = 0
  BY DEF NoStatus, Status, Statuses
<1> QED
  BY <1>1 DEF EmptyRegistry, Registries

\* Of no records, none is shown.
LEMMA NothingBelow == Below({}, 0) = {} /\ Cardinality({}) = 0
BY FS_EmptySet DEF Below

\* The registry is empty in a new process.
LEMMA RegistryInit == Init /\ SourceInv => RegistryInv
<1> SUFFICES ASSUME Init, SourceInv PROVE RegistryInv
  OBVIOUS
<1>1. /\ registry = EmptyRegistry /\ produced = 0 /\ ckpt = 0 /\ sup = "create" /\ content \in Seq(Nat)
      /\ delivered = {} /\ dlq = {}
  BY DEF Init, NewSourceRuntime, S!Init, SourceInv, SourceType
<1>2. Stored(content) \in Nat
  BY <1>1, StoredGrows
<1>3. S!Handled = {}
  BY <1>1 DEF S!Handled
<1>4. /\ registry.sink.checkpoint = 0 /\ registry.dead_letters = {} /\ registry \in Registries
      /\ registry.source.processed = 0 /\ registry.sink.processed = 0 /\ registry.sink.dead_lettered = 0
  BY <1>1, NothingShown
<1>5. /\ Cardinality(Below(S!Handled, registry.sink.checkpoint)) = 0
      /\ Letters(Below(S!Handled, registry.sink.checkpoint)) = {}
  BY <1>3, <1>4, NothingBelow, NothingExpected
<1> QED
  BY <1>1, <1>2, <1>4, <1>5 DEF RegistryInv

\* A step that leaves the registry alone and after which no less is produced,
\* stored and committed, and the same is handled below the checkpoint.
LEMMA RegistryLeftAlone ==
    ASSUME RegistryInv, UNCHANGED registry, sup' = "dead" <=> sup = "dead",
           sup = "dead" => ckpt' = ckpt,
           produced \in Nat, produced' \in Nat, produced <= produced', produced' <= Stored(content'),
           Stored(content') \in Nat, ckpt \in Nat, ckpt' \in Nat, ckpt <= ckpt',
           \A k \in 0 .. ckpt : Below(S!Handled', k) = Below(S!Handled, k)
    PROVE  RegistryInv'
<1> DEFINE shown == registry.sink.checkpoint
           H == S!Handled
           G == S!Handled'
<1>1. registry \in Registries /\ registry' = registry
  BY DEF RegistryInv
<1>2. registry.source.processed \in Nat /\ shown \in Nat
  BY <1>1 DEF Registries, Statuses
<1>3. registry.source.processed <= produced'
  BY <1>2 DEF RegistryInv
<1>4. shown <= ckpt /\ shown <= ckpt' /\ (sup = "dead" => shown = ckpt')
  BY <1>2 DEF RegistryInv
<1>5. registry'.sink.checkpoint = shown
  BY <1>1
<1>a. \A k \in 0 .. shown : k \in 0 .. ckpt
  BY <1>2, <1>4
<1>b. \A k \in 0 .. shown : Below(G, k) = Below(H, k)
  BY <1>a
<1>c. shown \in 0 .. shown
  BY <1>2
<1>6. sup' # "dead" => registry'.dead_letters = Letters(Below(G, shown))
  <2>1. sup' # "dead" => registry.dead_letters = Letters(Below(H, shown))
    BY DEF RegistryInv
  <2> QED BY <1>1, <1>b, <1>c, <2>1
<1>7. sup' = "dead" => \E k \in 0 .. shown : registry'.dead_letters = Letters(Below(G, k))
  <2>1. sup' = "dead" => \E k \in 0 .. shown : registry.dead_letters = Letters(Below(H, k))
    BY DEF RegistryInv
  <2> QED BY <1>1, <1>b, <2>1
<1>8. registry'.sink.processed + registry'.sink.dead_lettered = Cardinality(Below(G, shown))
  <2>1. registry.sink.processed + registry.sink.dead_lettered = Cardinality(Below(H, shown))
    BY DEF RegistryInv
  <2> QED BY <1>1, <1>b, <1>c, <2>1
<1> HIDE DEF shown
<1> QED
  BY <1>1, <1>3, <1>4, <1>5, <1>6, <1>7, <1>8 DEF RegistryInv

\* A step of the sink handles at most the record at hand, beyond the checkpoint.
LEMMA SinkHandles ==
    ASSUME SinkInv, SinkStep \/ SinkIdle \/ SinkFails
    PROVE  \/ S!Handled' = S!Handled
           \/ /\ S!Handled' = S!Handled \cup {task[T].pos} /\ ckpt <= task[T].pos
              /\ task[T].pc \in {"deliver", "dead"}
<1>1. CASE SinkDelivers
  <2>1. task[T].pc = "deliver" /\ S!TakeEffect(task[T].pos) /\ UNCHANGED dlq
    BY <1>1 DEF SinkDelivers, S!Deliver
  <2>2. ckpt <= task[T].pos
    BY <2>1 DEF SinkInv, TaskInv
  <2> QED BY <2>1, <2>2, HandledAdds
<1>2. CASE MemoryDeadLetter
  <2>1. /\ task[T].pc = "dead" /\ dlq' = dlq \cup {S!DeadLetterRecord(task[T].pos)}
        /\ UNCHANGED delivered
    BY <1>2 DEF MemoryDeadLetter, S!DeadLetter
  <2>2. ckpt <= task[T].pos
    BY <2>1 DEF SinkInv, TaskInv
  <2> QED BY <2>1, <2>2, HandledAdds
<1>3. CASE UNCHANGED <<delivered, dlq>>
  BY <1>3 DEF S!Handled
<1>4. SinkStep => SinkDelivers \/ MemoryDeadLetter \/ UNCHANGED <<delivered, dlq>>
  BY DEF SinkStep, S!RunOnce, MemoryLoad, S!LoadCheckpoint, S!CacheCheckpoint, S!FetchBatch,
         MemorySave, S!SaveCheckpoint, SinkRejects, S!DeliverFails, S!AdvanceCursor, S!effects
<1>5. SinkIdle \/ SinkFails => UNCHANGED <<delivered, dlq>>
  BY DEF SinkIdle, SinkFails, S!FetchNothing, S!PortError, S!effects
<1> QED
  BY <1>1, <1>2, <1>3, <1>4, <1>5

\* The saved checkpoint only moves forward.
LEMMA CommitsForward == SinkInv /\ (SinkStep \/ SinkIdle \/ SinkFails) => ckpt <= ckpt'
<1> SUFFICES ASSUME SinkInv, SinkStep \/ SinkIdle \/ SinkFails PROVE ckpt <= ckpt'
  OBVIOUS
<1>1. ckpt \in Nat
  BY DEF SinkInv, SinkType
<1>2. CASE MemorySave
  BY <1>2 DEF MemorySave, S!SaveCheckpoint, SinkInv, TaskInv
<1>3. CASE ckpt' = ckpt
  BY <1>1, <1>3
<1>4. SinkStep => MemorySave \/ ckpt' = ckpt
  BY DEF SinkStep, S!RunOnce, MemoryLoad, S!LoadCheckpoint, S!CacheCheckpoint, S!FetchBatch,
         SinkDelivers, S!Deliver, SinkRejects, S!DeliverFails, MemoryDeadLetter, S!DeadLetter,
         S!AdvanceCursor
<1>5. SinkIdle \/ SinkFails => ckpt' = ckpt
  BY DEF SinkIdle, SinkFails, S!FetchNothing, S!PortError
<1> QED
  BY <1>2, <1>3, <1>4, <1>5

\* The registry's calls, and every step between them.
LEMMA RegistryStep ==
    SourceInv /\ SinkInv /\ RegistryInv /\ [Next]_vars /\ SourceInv' /\ SinkInv' => RegistryInv'
<1> SUFFICES ASSUME SourceInv, SinkInv, RegistryInv, [Next]_vars, SourceInv', SinkInv' PROVE RegistryInv'
  OBVIOUS
<1> DEFINE shown == registry.sink.checkpoint
<1>0. /\ content \in Seq(Nat) /\ batch \in Seq(Nat) /\ content' \in Seq(Nat)
      /\ produced \in Nat /\ produced' \in Nat /\ ckpt \in Nat /\ ckpt' \in Nat
  BY DEF SourceInv, SourceType, SinkInv, SinkType
<1>1. /\ Stored(content) \in Nat /\ Stored(content') \in Nat
  BY <1>0, StoredGrows
<1>2. /\ registry \in Registries /\ shown \in Nat /\ shown <= ckpt
      /\ registry.source \in Statuses /\ registry.sink \in Statuses
      /\ registry.source.processed \in Nat
      /\ registry.source.processed <= produced /\ produced <= Stored(content)
      /\ registry.sink.processed + registry.sink.dead_lettered = Cardinality(Below(S!Handled, shown))
      /\ registry.dead_letters \in SUBSET [offset : Nat, attempts : Nat]
  BY DEF RegistryInv, Registries, Statuses
<1>a. S!Handled \in SUBSET Nat
  <2>1. Reached(task[T], ckpt) \in Nat
    BY ReachedType DEF SinkInv, SinkType
  <2> QED BY <2>1 DEF SinkInv, HandledInv, Covers
<1>b. ASSUME UNCHANGED <<delivered, dlq>>
      PROVE  S!Handled' = S!Handled /\ \A k \in 0 .. ckpt : Below(S!Handled', k) = Below(S!Handled, k)
  BY <1>b DEF S!Handled
<1>c. ASSUME Reached(task[T], ckpt) = ckpt PROVE Below(S!Handled, ckpt) = S!Handled
  <2>1. S!Handled \subseteq 0 .. ckpt - 1
    BY <1>c DEF SinkInv, HandledInv, Covers
  <2>2. \A o \in 0 .. ckpt - 1 : o < ckpt
    BY <1>0
  <2> QED BY <2>1, <2>2 DEF Below
<1>3. ASSUME UNCHANGED <<registry, produced, content, ckpt, delivered, dlq>>, sup' = "dead" <=> sup = "dead"
      PROVE  RegistryInv'
  <2>1. Stored(content') = Stored(content)
    BY <1>3
  <2>2. produced <= produced' /\ produced' <= Stored(content') /\ ckpt <= ckpt'
    BY <1>0, <1>1, <1>2, <1>3, <2>1
  <2> QED BY <1>0, <1>1, <1>3, <1>b, <2>2, RegistryLeftAlone
<1>4. CASE CreateTopic \/ Poll \/ UNCHANGED vars
  <2>1. /\ UNCHANGED <<registry, produced, content, ckpt, delivered, dlq>>
        /\ sup' = "dead" <=> sup = "dead"
    BY <1>4 DEF CreateTopic, Poll, AfterCreateError, vars, logVars, sourceVars, sinkVars
  <2> QED BY <1>3, <2>1
<1>5. CASE AppendBatch
  <2>1. /\ sup = "append" /\ sup' \in {"poll", "sink"} /\ content' = content \o batch
        /\ produced' = produced + Len(batch) /\ UNCHANGED <<registry, ckpt, delivered, dlq>>
    BY <1>0, <1>5, WholeBatch DEF AppendBatch, AfterBatch, sinkVars
  <2>2. Len(batch) \in Nat /\ counter \in Nat /\ Len(batch) <= counter
        /\ \A i \in 1 .. Len(batch) : batch[i] = counter - Len(batch) + i
    BY DEF SourceInv, SourceType, BatchInv
  <2>3. \A i \in 1 .. Len(batch) : batch[i] # Client
    BY <2>2 DEF Client
  <2>4. Stored(content') = Stored(content) + Len(batch)
    BY <1>0, <2>1, <2>3, StoredGrows
  <2>5. produced <= produced' /\ produced' <= Stored(content')
    BY <1>0, <1>1, <1>2, <2>1, <2>2, <2>4
  <2>6. ckpt <= ckpt'
    BY <1>0, <2>1
  <2> QED BY <1>0, <1>1, <1>b, <2>1, <2>5, <2>6, RegistryLeftAlone
<1>6. ASSUME Stored(content) <= Stored(content'),
             UNCHANGED <<registry, produced, ckpt, delivered, dlq>>,
             sup' = "dead" <=> sup = "dead"
      PROVE  RegistryInv'
  <2>1. produced <= produced' /\ produced' <= Stored(content') /\ ckpt <= ckpt'
    BY <1>0, <1>1, <1>2, <1>6
  <2> QED BY <1>0, <1>1, <1>6, <1>b, <2>1, RegistryLeftAlone
<1>7. CASE AppendFails
  <2>1. /\ sup = "append" /\ sup' = "stopped"
        /\ UNCHANGED <<registry, produced, ckpt, delivered, dlq>>
        /\ \/ content' = content
           \/ \E n \in 0 .. Len(batch) : content' = content \o SubSeq(batch, 1, n)
    BY <1>7 DEF AppendFails, Stop, StorePrefix
  <2>2. Stored(content) <= Stored(content')
    <3>1. CASE content' = content
      <4>1. Stored(content') = Stored(content)
        BY <3>1
      <4> QED BY <1>1, <4>1
    <3>2. ASSUME NEW n \in 0 .. Len(batch), content' = content \o SubSeq(batch, 1, n)
          PROVE  Stored(content) <= Stored(content')
      <4>1. SubSeq(batch, 1, n) \in Seq(Nat)
        BY <1>0, PrefixOfBatch
      <4>2. Stored(content) <= Stored(content \o SubSeq(batch, 1, n))
        BY <1>0, <4>1, StoredGrows
      <4> QED BY <3>2, <4>2
    <3> QED BY <2>1, <3>1, <3>2
  <2> QED BY <1>6, <2>1, <2>2
<1>8. CASE SinkStep \/ SinkIdle \/ SinkFails
  <2>1. /\ UNCHANGED <<registry, produced, content>> /\ sup # "dead" /\ sup' # "dead"
    BY <1>8 DEF SinkStep, SinkIdle, SinkFails, AfterSink, Stop, logVars, sourceVars
  <2>2. ckpt <= ckpt'
    BY <1>8, CommitsForward
  <2>3. Stored(content') = Stored(content)
    BY <2>1
  <2>4. produced <= produced' /\ produced' <= Stored(content')
    BY <1>0, <1>2, <2>1, <2>3
  <2>5. \A k \in 0 .. ckpt : Below(S!Handled', k) = Below(S!Handled, k)
    <3> DEFINE H == S!Handled
               G == S!Handled'
               n == task[T].pos
    <3>1. G = H \/ (G = H \cup {n} /\ ckpt <= n)
      BY <1>8, SinkHandles
    <3>2. n \in Nat
      BY DEF SinkInv, SinkType, Locals
    <3> HIDE DEF G, H, n
    <3>3. ASSUME NEW k \in 0 .. ckpt, ckpt <= n PROVE ~(n < k)
      BY <1>0, <3>2, <3>3
    <3>4. \A k \in 0 .. ckpt : Below(G, k) = Below(H, k)
      BY <3>1, <3>3 DEF Below
    <3> QED BY <3>4 DEF G, H
  <2> QED BY <1>0, <1>1, <2>1, <2>2, <2>4, <2>5, RegistryLeftAlone
<1>9. CASE ClientProduce
  <2>1. content' = Append(content, Client) /\ UNCHANGED <<registry, produced, ckpt, sup, delivered, dlq>>
    BY <1>9 DEF ClientProduce, sourceVars, sinkVars
  <2>2. Client \in Nat /\ <<Client>> \in Seq(Nat)
    BY DEF Client
  <2>3. Append(content, Client) = content \o <<Client>>
    BY <1>0, <2>2, AppendIsConcat
  <2>4. Stored(content) <= Stored(content')
    BY <1>0, <2>1, <2>2, <2>3, StoredGrows
  <2> QED BY <1>6, <2>1, <2>4
<1>10. CASE PublishSource
  <2>1. /\ sup = "source" /\ sup' = "status" /\ UNCHANGED <<produced, content, ckpt, delivered, dlq>>
        /\ registry' = [registry EXCEPT !["source"] = Status(produced, 0, 0)]
    BY <1>10 DEF PublishSource, UpsertStatus, logVars, sourceVars, sinkVars
  <2>2. Status(produced, 0, 0) \in Statuses /\ Status(produced, 0, 0).processed = produced
    BY <1>0 DEF Status, Statuses
  <2>3. /\ registry' \in Registries /\ registry'.source.processed = produced
        /\ registry'.sink = registry.sink /\ registry'.dead_letters = registry.dead_letters
    BY <1>2, <2>1, <2>2 DEF Registries
  <2>4. Stored(content') = Stored(content)
    BY <2>1
  <2>5. registry.dead_letters = Letters(Below(S!Handled, shown)) /\ S!Handled' = S!Handled
    BY <1>b, <2>1 DEF RegistryInv
  <2> QED
    BY <1>0, <1>2, <2>1, <2>3, <2>4, <2>5 DEF RegistryInv
<1>11. CASE PublishSink
  <2>1. /\ sup = "status" /\ sup' = "dead" /\ UNCHANGED <<produced, content, ckpt, delivered, dlq>>
        /\ registry' = [registry EXCEPT !["sink"] = Status(processed, dead, cursor)]
    BY <1>11 DEF PublishSink, UpsertStatus, logVars, sourceVars, sinkVars
  <2>2. cursor = ckpt /\ task[T].pc = "idle"
    BY <2>1 DEF SinkInv, TaskInv
  <2>3. Reached(task[T], ckpt) = ckpt
    BY <2>2 DEF Reached
  <2>4. /\ processed \in Nat /\ dead \in Nat
        /\ processed + dead = Cardinality(Below(S!Handled, ckpt)) /\ S!Handled' = S!Handled
    BY <1>b, <1>c, <2>1, <2>3 DEF SinkInv, SinkType, HandledInv, Handles
  <2> DEFINE s == Status(processed, dead, cursor)
  <2>5. /\ s \in Statuses /\ s.checkpoint = ckpt
        /\ s.processed + s.dead_lettered = Cardinality(Below(S!Handled, ckpt))
    BY <1>0, <2>2, <2>4 DEF Status, Statuses
  <2> HIDE DEF s
  <2>6. registry' = [registry EXCEPT !["sink"] = s]
    BY <2>1 DEF s
  <2>7. /\ registry' \in Registries /\ registry'.sink = s
        /\ registry'.source = registry.source /\ registry'.dead_letters = registry.dead_letters
    BY <1>2, <2>5, <2>6 DEF Registries
  <2>8. Stored(content') = Stored(content)
    BY <2>1
  <2>9. registry.dead_letters = Letters(Below(S!Handled, shown))
    BY <2>1 DEF RegistryInv
  <2>10. shown \in 0 .. ckpt
    BY <1>0, <1>2
  <2>11. \E k \in 0 .. ckpt : registry'.dead_letters = Letters(Below(S!Handled, k))
    BY <2>7, <2>9, <2>10
  <2> QED
    <3>1. /\ registry'.sink.checkpoint = ckpt' /\ ckpt' <= ckpt'
          /\ registry'.sink.processed + registry'.sink.dead_lettered = Cardinality(Below(S!Handled', ckpt'))
      BY <1>0, <2>1, <2>4, <2>5, <2>7
    <3>2. registry'.source.processed <= produced' /\ produced' <= Stored(content')
      BY <1>2, <2>1, <2>7, <2>8
    <3>3. \E k \in 0 .. ckpt' : registry'.dead_letters = Letters(Below(S!Handled', k))
      BY <2>1, <2>4, <2>11
    <3> QED
      BY <2>1, <2>7, <3>1, <3>2, <3>3 DEF RegistryInv
<1>12. CASE PublishDead
  <2>1. /\ sup = "dead" /\ sup' = "poll" /\ UNCHANGED <<produced, content, ckpt, delivered, dlq>>
        /\ registry' = [registry EXCEPT !.dead_letters = dlq]
    BY <1>12 DEF PublishDead, SetDeadLetters, logVars, sourceVars, sinkVars
  <2>2. shown = ckpt /\ task[T].pc = "idle"
    BY <2>1 DEF SinkInv, TaskInv, RegistryInv
  <2>3. Reached(task[T], ckpt) = ckpt
    BY <2>2 DEF Reached
  <2>4. /\ dlq = Letters(Below(S!Handled, shown)) /\ S!Handled' = S!Handled
        /\ dlq \in SUBSET [offset : Nat, attempts : Nat]
    BY <1>a, <1>b, <1>c, <2>1, <2>2, <2>3, LettersType DEF SinkInv, HandledInv, Handles
  <2>5. /\ registry' \in Registries /\ registry'.sink = registry.sink
        /\ registry'.source = registry.source
        /\ registry'.dead_letters = Letters(Below(S!Handled, shown))
    BY <1>2, <2>1, <2>4 DEF Registries
  <2>6. Stored(content') = Stored(content)
    BY <2>1
  <2> QED
    BY <1>2, <2>1, <2>4, <2>5, <2>6 DEF RegistryInv
<1>13. CASE Crash
  <2>1. /\ registry' = EmptyRegistry /\ produced' = 0 /\ ckpt' = 0 /\ sup' = "create"
        /\ delivered' = {} /\ dlq' = {}
    BY <1>13 DEF Crash, NewSourceRuntime, NewMemoryStores
  <2>2. S!Handled' = {}
    BY <2>1 DEF S!Handled
  <2> QED
    BY <1>1, <2>1, <2>2, NothingBelow, NothingExpected, NothingShown DEF RegistryInv
<1> QED
  BY <1>4, <1>5, <1>7, <1>8, <1>9, <1>10, <1>11, <1>12, <1>13 DEF Next, Supervise

\* What the connectors query shows is true of the log, in every state a query
\* can see and whatever retention has pruned (ConnectorRegistry::upsert_status,
\* run_supervisor).
THEOREM StatusIsTruthful == Spec => []StatusTruthful
<1>1. SourceInv /\ HeadInv /\ SinkInv /\ RegistryInv => StatusTruthful
  <2> SUFFICES ASSUME SourceInv, HeadInv, SinkInv, RegistryInv PROVE StatusTruthful
    OBVIOUS
  <2> DEFINE n == registry.sink.checkpoint
  <2>1. /\ connectors["source"].processed = registry.source.processed
        /\ connectors["sink"] = registry.sink
    BY DEF connectors
  <2>2. registry.source.processed \in Nat /\ n \in Nat
    BY DEF RegistryInv, Registries, Statuses
  <2>3. /\ content \in Seq(Nat) /\ Len(content) \in Nat /\ produced \in Nat
        /\ ckpt \in Nat /\ ckpt <= Len(content)
    BY DEF SourceInv, SourceType, SinkInv, SinkType, TaskInv
  <2>4. Stored(content) \in Nat /\ InLog = Stored(content)
    BY <2>3, StoredGrows DEF InLog, IsSource, Stored
  <2>5. /\ registry.source.processed <= produced /\ produced <= Stored(content)
        /\ n <= ckpt
        /\ registry.sink.processed + registry.sink.dead_lettered = Cardinality(Below(S!Handled, n))
    BY DEF RegistryInv
  <2>6. registry.source.processed <= InLog /\ n <= Len(content)
    BY <2>2, <2>3, <2>4, <2>5
  <2>7. Below(S!Handled, n) = HandledBelow(n)
    BY DEF Below, HandledBelow
  <2>8. \A o \in 0 .. n - 1 : S!Settled(o)
    <3> DEFINE r == Reached(task[T], ckpt)
    <3>1. r \in Nat /\ ckpt <= r
      BY ReachedForward DEF SinkInv
    <3> HIDE DEF r
    <3>2. \A o \in 0 .. r - 1 : o \in S!Handled \/ o < head
      BY DEF SinkInv, HandledInv, Covers, r
    <3>3. \A o \in 0 .. n - 1 : o \in 0 .. r - 1
      BY <2>2, <2>3, <2>5, <3>1
    <3> QED BY <3>2, <3>3 DEF S!Settled
  <2> QED
    BY <2>1, <2>5, <2>6, <2>7, <2>8 DEF StatusTruthful
<1> QED
  BY SourceInit, SourceStep, HeadInit, HeadStep, SinkInit, SinkInvStep, RegistryInit, RegistryStep,
     <1>1, PTL DEF Spec

\* The deadLetters query never shows a letter beyond the checkpoint shown with
\* it, and between two rounds shows all of those below it that the sink read
\* (ConnectorRegistry::set_dead_letters after upsert_status).
THEOREM DeadLettersAreShown == Spec => []DeadLettersShown
<1>1. SinkInv /\ RegistryInv => DeadLettersShown
  <2> SUFFICES ASSUME SinkInv, RegistryInv PROVE DeadLettersShown
    OBVIOUS
  <2> DEFINE n == registry.sink.checkpoint
             seen == {e.offset : e \in dead_letters}
             H == S!Handled
  <2>1. n \in Nat /\ connectors["sink"].checkpoint = n
    BY DEF RegistryInv, Registries, Statuses, connectors
  <2>6. H \subseteq Nat
    <3>1. Reached(task[T], ckpt) \in Nat
      BY ReachedForward DEF SinkInv
    <3> QED BY <3>1 DEF SinkInv, HandledInv, Covers
  <2>2. ASSUME NEW k, registry.dead_letters = Letters(Below(H, k)) PROVE seen = Bad(Below(H, k))
    BY <2>2, LetterOffsets DEF dead_letters
  <2>3. \A k \in 0 .. n : Bad(Below(H, k)) \subseteq Bad(Below(H, n))
    <3> SUFFICES ASSUME NEW k \in 0 .. n, NEW o \in H, o < k PROVE o < n
      BY DEF Bad, Below
    <3>1. o \in Nat
      BY <2>6
    <3> QED BY <2>1, <3>1
  <2>4. seen \subseteq Bad(Below(H, n))
    <3>1. CASE sup = "dead"
      <4>1. PICK k \in 0 .. n : registry.dead_letters = Letters(Below(H, k))
        BY <3>1 DEF RegistryInv
      <4> QED BY <2>2, <2>3, <4>1
    <3>2. CASE sup # "dead"
      BY <2>2, <3>2 DEF RegistryInv
    <3> QED BY <3>1, <3>2
  <2>5. sup = "poll" => seen = Bad(Below(H, n))
    BY <2>2 DEF RegistryInv
  <2> HIDE DEF seen, n
  <2>7. {o \in HandledBelow(connectors["sink"].checkpoint) : Poison(o)} = Bad(Below(H, n))
    BY <2>1 DEF HandledBelow, Bad, Below
  <2> QED
    BY <2>4, <2>5, <2>7 DEF DeadLettersShown, seen
<1> QED
  BY SourceInit, SourceStep, HeadInit, HeadStep, SinkInit, SinkInvStep, RegistryInit, RegistryStep,
     <1>1, PTL DEF Spec

-----------------------------------------------------------------------------
(* The demo                                                                *)

\* A demo starts without a topic.
LEMMA DemoInit == Init => DemoInv
<1> SUFFICES ASSUME Init PROVE DemoInv
  OBVIOUS
<1>1. sup = "create" /\ content = <<>> /\ delivered = {} /\ dlq = {}
  BY DEF Init, S!Init
<1>2. S!Handled = {}
  BY <1>1 DEF S!Handled
<1> QED
  BY <1>1, <1>2 DEF DemoInv

\* A sink that finds nothing to fetch has committed the whole log.
LEMMA IdleIsCaughtUp ==
    ASSUME BatchSize > 0, SinkInv, HeadInv, Len(content) \in Nat, SinkIdle
    PROVE  ckpt = Len(content)
<1> DEFINE f == S!FetchFrom(T)
           l == Len(content)
<1>1. /\ task[T].pc = "fetch" /\ S!FetchEnd(T) <= f
  BY DEF SinkIdle, S!FetchNothing
<1>2. task[T].from = ckpt /\ ckpt \in Nat /\ ckpt <= l
  BY <1>1 DEF SinkInv, SinkType, TaskInv
<1>3. BatchSize \in Nat
  BY PipelineAssumption
<1>4. head \in Nat /\ head <= l /\ (head = l => head = 0)
  BY DEF HeadInv
<1>5. f = IF ckpt >= head THEN ckpt ELSE head
  BY <1>2 DEF S!FetchFrom, S!Max2
<1>6. S!FetchEnd(T) = IF f + BatchSize <= l THEN f + BatchSize ELSE l
  BY DEF S!FetchEnd, S!Min2
<1> HIDE DEF f, l
<1>7. f \in Nat
  BY <1>2, <1>4, <1>5
<1>8. l <= f /\ l \in Nat
  BY <1>1, <1>3, <1>6, <1>7 DEF l
<1>9. ckpt = l
  BY <1>2, <1>4, <1>5, <1>8
<1> QED
  BY <1>9 DEF l

\* A batch begins behind the head, and goes on from there.
LEMMA BehindTheHead ==
    ASSUME SinkInv, HeadInv, SinkStep,
           task[T].pc \in {"deliver", "dead"} => head <= task[T].pos
    PROVE  task'[T].pc \in {"deliver", "dead"} => head <= task'[T].pos
<1> DEFINE q == task[T]
           p == task'[T]
<1>0. task \in [{T} -> Locals] /\ q \in Locals /\ head \in Nat
  BY DEF SinkInv, SinkType, HeadInv
<1>1. q.pos \in Nat /\ q.from \in Nat
  BY <1>0 DEF Locals
<1>2. ASSUME q.pc \in {"deliver", "dead"}, S!NextRecord(T)
      PROVE  p.pc = "deliver" => head <= p.pos
  <2>1. CASE q.pos + 1 < q.next
    <3>1. task' = [task EXCEPT ![T].pc = "deliver", ![T].pos = @ + 1, ![T].attempt = 0]
      BY <2>1, <1>2 DEF S!NextRecord
    <3>2. p.pos = q.pos + 1
      BY <1>0, <3>1 DEF Locals
    <3> QED BY <1>0, <1>1, <1>2, <3>2
  <2>2. CASE ~(q.pos + 1 < q.next)
    <3>1. task' = [task EXCEPT ![T].pc = "save", ![T].attempt = 0]
      BY <2>2, <1>2 DEF S!NextRecord, S!AtLeastOnce
    <3>2. p.pc = "save"
      BY <1>0, <3>1 DEF Locals
    <3> QED BY <3>2
  <2> QED BY <2>1, <2>2
<1>3. CASE SinkDelivers \/ MemoryDeadLetter
  <2>1. q.pc \in {"deliver", "dead"} /\ S!NextRecord(T)
    BY <1>3 DEF SinkDelivers, S!Deliver, MemoryDeadLetter, S!DeadLetter
  <2>2. p.pc # "dead"
    BY <1>0, <2>1 DEF S!NextRecord, Locals, S!AtLeastOnce
  <2> QED BY <1>2, <2>1, <2>2
<1>4. CASE SinkRejects
  <2>1. /\ q.pc = "deliver"
        /\ \/ task' = [task EXCEPT ![T].attempt = @ + 1]
           \/ task' = [task EXCEPT ![T].attempt = @ + 1, ![T].pc = "dead"]
    BY <1>4 DEF SinkRejects, S!DeliverFails
  <2>2. p.pos = q.pos
    BY <1>0, <2>1 DEF Locals
  <2> QED BY <2>1, <2>2
<1>5. CASE S!FetchBatch(T)
  <2>1. task' = [task EXCEPT ![T] = [pc |-> S!AfterFetch, from |-> q.from, pos |-> S!FetchFrom(T),
                                     next |-> S!FetchEnd(T), attempt |-> 0]]
    BY <1>5 DEF S!FetchBatch
  <2>2. p.pos = S!FetchFrom(T)
    BY <1>0, <2>1
  <2>3. head <= S!FetchFrom(T)
    BY <1>0, <1>1 DEF S!FetchFrom, S!Max2
  <2> QED BY <2>2, <2>3
<1>6. CASE \/ S!RunOnce(T) \/ MemoryLoad \/ S!CacheCheckpoint(T) \/ MemorySave \/ S!AdvanceCursor(T)
  <2>1. p.pc \notin {"deliver", "dead"}
    BY <1>0, <1>6 DEF S!RunOnce, MemoryLoad, S!LoadCheckpoint, S!CacheCheckpoint, MemorySave,
                      S!SaveCheckpoint, S!AdvanceCursor, S!Goto, S!Return, S!Idle,
                      S!AtLeastOnce, S!AtMostOnce, Locals
  <2> QED BY <2>1
<1> QED
  BY <1>3, <1>4, <1>5, <1>6 DEF SinkStep

\* Every step keeps the demo's books.
LEMMA DemoStep ==
    ASSUME BatchSize > 0
    PROVE  SourceInv /\ HeadInv /\ SinkInv /\ DemoInv /\ [Next]_vars /\ SourceInv' => DemoInv'
<1> SUFFICES ASSUME SourceInv, HeadInv, SinkInv, DemoInv, [Next]_vars, SourceInv' PROVE DemoInv'
  OBVIOUS
<1>0. /\ content \in Seq(Nat) /\ batch \in Seq(Nat) /\ Len(content) \in Nat /\ Len(batch) \in Nat
      /\ counter \in Nat /\ produced \in Nat /\ remaining \in Nat /\ command \in {"serve", "demo"}
  BY DEF SourceInv, SourceType
<1>a. ASSUME UNCHANGED <<delivered, dlq>> PROVE S!Handled' = S!Handled
  BY <1>a DEF S!Handled
<1>1. CASE CreateTopic
  <2>1. /\ sup = "create" /\ sup' \in {"poll", "stopped"} /\ (topic => topic')
        /\ UNCHANGED <<command, content, counter, batch, produced, delivered, dlq>>
    BY <1>0, <1>1 DEF CreateTopic, AfterCreateError, setting, sourceVars, SourceInv, SourceType
  <2>2. command = "demo" /\ sup' = "poll" => content = <<>>
    BY <1>1 DEF CreateTopic, AfterCreateError, DemoInv
  <2>3. counter = 0 /\ produced = 0 /\ batch = <<>>
    BY <2>1 DEF SourceInv, BatchInv
  <2>4. Len(batch) = 0 /\ (command = "demo" /\ sup' = "poll" => Len(content) = 0)
    BY <2>2, <2>3
  <2>5. produced = counter - Len(batch)
    <3>1. counter = 0 /\ produced = 0
      BY <2>3
    <3> QED BY <2>4, <3>1
  <2> QED
    BY <1>a, <2>1, <2>3, <2>4, <2>5 DEF DemoInv
<1>2. CASE Poll
  <2>1. /\ sup = "poll" /\ sup' = (IF Take = 0 THEN "sink" ELSE "append")
        /\ counter' = counter + Take /\ remaining' = remaining - Take
        /\ batch' = [i \in 1 .. Take |-> counter + i]
        /\ UNCHANGED <<command, topic, content, produced, delivered, dlq, task>>
    BY <1>2 DEF Poll, NextRecords, setting, logVars, sinkVars
  <2>2. Take \in Nat /\ (Take = 0 => remaining = 0)
    BY <1>0, TakeProperties
  <2>3. batch = <<>>
    BY <2>1 DEF SourceInv, BatchInv
  <2>4. Len(batch) = 0
    BY <2>3
  <2>5. Len(batch') = Take
    BY <2>1, <2>2
  <2>6. counter' - Len(batch') = counter - Len(batch)
    BY <1>0, <2>1, <2>2, <2>4, <2>5
  <2>7. sup' \notin {"poll", "append"} => remaining' = 0
    BY <1>0, <2>1, <2>2
  <2>8. task'[T].pc = "idle" /\ S!Handled' = S!Handled
    BY <1>a, <2>1 DEF SinkInv, TaskInv
  <2>9. (command = "demo" => S!Handled = {}) /\ (~topic => content = <<>>)
        /\ (command = "demo" => produced = counter - Len(batch) /\ Len(content) = produced)
    BY <2>1 DEF DemoInv
  <2> QED
    BY <2>1, <2>6, <2>7, <2>8, <2>9 DEF DemoInv
<1>3. CASE AppendBatch
  <2>1. /\ sup = "append" /\ topic /\ topic' = topic /\ content' = content \o batch
        /\ batch' = <<>> /\ produced' = produced + Len(batch)
        /\ sup' = AfterBatch /\ UNCHANGED <<command, counter, delivered, dlq>>
    BY <1>0, <1>3, WholeBatch DEF AppendBatch, setting, sinkVars
  <2>2. Len(batch') = 0 /\ Len(content') = Len(content) + Len(batch)
    BY <1>0, <2>1, ConcatLength
  <2>3. command = "demo" => produced = counter - Len(batch) /\ Len(content) = produced /\ S!Handled = {}
    BY <2>1 DEF DemoInv
  <2>4. ASSUME command = "demo" PROVE produced' = counter' - Len(batch') /\ Len(content') = produced'
    <3>1. counter' = counter /\ produced' = produced + Len(batch)
      BY <2>1
    <3>2. produced = counter - Len(batch) /\ Len(content) = produced
      BY <2>3, <2>4
    <3> QED BY <1>0, <2>2, <3>1, <3>2
  <2>5. sup' \in {"poll", "sink"} /\ (command = "demo" => sup' = "poll")
    BY <2>1 DEF AfterBatch
  <2> QED
    BY <1>a, <2>1, <2>3, <2>4, <2>5 DEF DemoInv
<1>4. CASE AppendFails
  <2>1. sup' = "stopped" /\ topic' = topic /\ (~topic => content' = content)
    BY <1>4 DEF AppendFails, Stop
  <2> QED
    BY <2>1 DEF DemoInv
<1>5. CASE SinkStep
  <2>1. /\ UNCHANGED <<command, topic, content, head, counter, batch, produced, remaining>>
        /\ sup = "sink" /\ sup' = "sink"
    BY <1>5 DEF SinkStep, setting, logVars, sourceVars
  <2>2. ASSUME command = "demo"
        PROVE  /\ \A o \in S!Handled' : head <= o
               /\ task'[T].pc \in {"deliver", "dead"} => head <= task'[T].pos
    <3>1. /\ \A o \in S!Handled : head <= o
          /\ task[T].pc \in {"deliver", "dead"} => head <= task[T].pos
      BY <2>1, <2>2 DEF DemoInv
    <3>2. \/ S!Handled' = S!Handled
          \/ S!Handled' = S!Handled \cup {task[T].pos} /\ task[T].pc \in {"deliver", "dead"}
      BY <1>5, SinkHandles
    <3>3. task'[T].pc \in {"deliver", "dead"} => head <= task'[T].pos
      BY <1>5, <3>1, BehindTheHead
    <3> QED BY <3>1, <3>2, <3>3
  <2> QED
    BY <2>1, <2>2 DEF DemoInv
<1>6. CASE SinkFails
  <2>1. UNCHANGED <<command, topic, content>> /\ sup' = "stopped"
    BY <1>6 DEF SinkFails, Stop, setting, logVars
  <2> QED
    BY <2>1 DEF DemoInv
<1>7. CASE SinkIdle
  <2>1. /\ UNCHANGED <<command, topic, content, head, counter, batch, produced, remaining>>
        /\ UNCHANGED <<ckpt, delivered, dlq>> /\ task' = [task EXCEPT ![T] = S!Idle]
        /\ sup = "sink" /\ sup' = AfterSink
    BY <1>7 DEF SinkIdle, S!FetchNothing, S!Return, S!effects, setting, logVars, sourceVars
  <2>2. ckpt = Len(content)
    BY <1>0, <1>7, IdleIsCaughtUp
  <2>3. /\ sup' \in {"done", "source"} /\ (sup' = "done" => command = "demo")
        /\ sup' = "source" => command = "serve"
    BY <1>0, <2>1 DEF AfterSink
  <2>4. task'[T].pc = "idle" /\ S!Handled' = S!Handled
    BY <1>a, <2>1 DEF SinkInv, SinkType, S!Idle
  <2> QED
    BY <2>1, <2>2, <2>3, <2>4 DEF DemoInv
<1>8. CASE PublishSource \/ PublishSink \/ PublishDead
  <2>1. /\ UNCHANGED <<command, topic, content>>
        /\ sup \in {"source", "status", "dead"} /\ sup' \in {"status", "dead", "poll"}
    BY <1>8 DEF PublishSource, PublishSink, PublishDead, setting, logVars
  <2> QED
    BY <2>1 DEF DemoInv
<1>9. CASE ClientProduce
  <2>1. command = "serve" /\ topic /\ UNCHANGED <<command, topic, sup>>
    BY <1>9 DEF ClientProduce, setting
  <2> QED
    BY <2>1 DEF DemoInv
<1>10. CASE Crash
  <2>1. sup' = "create" /\ delivered' = {} /\ dlq' = {}
    BY <1>10 DEF Crash, NewMemoryStores
  <2>2. ~topic' => content' = <<>>
    <3>1. CASE ~dataDir
      BY <1>10, <3>1 DEF Crash
    <3>2. CASE dataDir /\ ~topic
      <4>1. \E n \in 0 .. 0 : content' = content \o SubSeq(batch, 1, n)
        BY <1>10, <3>2 DEF Crash, StorePrefix
      <4>2. content' = content \o SubSeq(batch, 1, 0) /\ content = <<>>
        BY <3>2, <4>1 DEF DemoInv
      <4>3. SubSeq(batch, 1, 0) = <<>>
        BY <1>0
      <4>4. content' = <<>> \o <<>>
        BY <4>2, <4>3
      <4> QED BY <4>4
    <3>3. CASE dataDir /\ topic
      BY <1>10, <3>3 DEF Crash
    <3> QED BY <3>1, <3>2, <3>3
  <2>3. S!Handled' = {}
    BY <2>1 DEF S!Handled
  <2> QED
    BY <2>1, <2>2, <2>3 DEF DemoInv
<1>11. CASE UNCHANGED vars
  <2>1. S!Handled' = S!Handled
    BY <1>11, <1>a DEF vars, sinkVars
  <2> QED
    BY <1>11, <2>1 DEF DemoInv, vars, setting, logVars, sourceVars, sinkVars
<1> QED
  BY <1>1, <1>2, <1>3, <1>4, <1>5, <1>6, <1>7, <1>8, <1>9, <1>10, <1>11 DEF Next, Supervise

\* A demo that ends normally has sourced everything it was asked for, and every
\* record of it that retention left was delivered or dead-lettered; that is all of
\* them, unless more were asked for than the topic keeps (run_demo).
THEOREM DemoEndsComplete ==
    ASSUME BatchSize > 0
    PROVE  Spec => []DemoComplete
<1>1. SourceInv /\ HeadInv /\ SinkInv /\ DemoInv => DemoComplete
  <2> SUFFICES ASSUME SourceInv, HeadInv, SinkInv, DemoInv, sup = "done"
               PROVE  /\ produced = Total /\ processed + dead = produced - head
                      /\ S!Handled = head .. Total - 1
                      /\ head > 0 => 0 < max_records /\ max_records < Total
    BY DEF DemoComplete
  <2>1. batch = <<>> /\ remaining + counter = Total /\ counter \in Nat /\ max_records \in Nat
    BY DEF SourceInv, SourceType, BatchInv
  <2>2. /\ produced = counter - Len(batch) /\ Len(content) = produced /\ remaining = 0
        /\ ckpt = Len(content) /\ \A o \in S!Handled : head <= o
    BY DEF DemoInv
  <2>3. Len(batch) = 0
    BY <2>1
  <2>4. produced = Total /\ ckpt = Total /\ Len(content) = Total /\ Total \in Nat
    <3>1. counter = Total
      BY <2>1, <2>2
    <3> QED BY <2>1, <2>2, <2>3, <3>1
  <2>5. Reached(task[T], ckpt) = Total
    BY <2>4 DEF SinkInv, TaskInv, Reached
  <2>6. /\ head \in Nat /\ head <= Total
        /\ head > 0 => 0 < max_records /\ max_records < Total
    BY <2>1, <2>4 DEF HeadInv
  <2>7. processed + dead = Cardinality(S!Handled) /\ Covers(S!Handled, Total, head)
    BY <2>5 DEF SinkInv, HandledInv, Handles
  <2>8. S!Handled = head .. Total - 1
    <3> DEFINE H == S!Handled
    <3>1. H \subseteq 0 .. Total - 1 /\ (\A o \in 0 .. Total - 1 : o \in H \/ o < head)
          /\ \A o \in H : head <= o
      BY <2>2, <2>7 DEF Covers
    <3> HIDE DEF H
    <3>2. ASSUME NEW o \in H PROVE o \in head .. Total - 1
      BY <2>4, <2>6, <3>1
    <3>3. ASSUME NEW o \in head .. Total - 1 PROVE o \in H
      BY <2>4, <2>6, <3>1
    <3>4. H = head .. Total - 1
      BY <3>2, <3>3
    <3> QED BY <3>4 DEF H
  <2>9. Cardinality(head .. Total - 1) = Total - head
    <3>1. head \in Int /\ Total - 1 \in Int
      BY <2>4, <2>6
    <3>2. Cardinality(head .. Total - 1) = IF head > Total - 1 THEN 0 ELSE (Total - 1) - head + 1
      BY <3>1, FS_Interval
    <3> QED BY <2>4, <2>6, <3>2
  <2> QED
    BY <2>4, <2>6, <2>7, <2>8, <2>9
<1> QED
  BY SourceInit, SourceStep, HeadInit, HeadStep, SinkInit, SinkInvStep, DemoInit, DemoStep, <1>1, PTL
     DEF Spec

=============================================================================
