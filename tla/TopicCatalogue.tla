--------------------------- MODULE TopicCatalogue ----------------------------
(***************************************************************************)
(* The topics of a FileLogStore (filestore.rs): create_topic as the file   *)
(* operations it makes, the directory tree it leaves behind when one of    *)
(* them fails or the process ends, and open/recover over that tree.        *)
(*                                                                         *)
(* The store's mutex makes calls exclusive, so one call is in progress at  *)
(* a time.  A topic's configuration is its number of partitions; its       *)
(* retention may move a head at any append.  A partition is its two        *)
(* offsets, and what a failed write leaves in its files any two of them    *)
(* (FileLogStore has the detail).                                          *)
(***************************************************************************)
EXTENDS Integers, FiniteSets, FiniteSetsExt

CONSTANTS
    Topics,         \* topic names
    MaxPartitions,  \* bound: partitions of a topic
    MaxRecords,     \* bound: records appended to a partition
    MaxFaults,      \* bound: failed file operations
    MaxCrashes      \* bound: process restarts

ASSUME CatalogueAssumption ==
    {MaxPartitions, MaxRecords, MaxFaults, MaxCrashes} \subseteq Nat

VARIABLES
    disk,           \* per name: directory, topic.json, partition directories, and the
                    \* offsets of their files; hurt: the partitions where a write failed
    topics,         \* Inner.topics: configuration, start_offset and next_offset; stuck:
                    \* the partitions where a pruned segment's file could not be removed
    call,           \* the create_topic in progress
    phase,          \* "down", "opening" or "up"
    unread,         \* directory entries that recover has still to read
    produced_total, \* Inner.produced_total
    acked,          \* history: what create_topic returned Ok(true) for
    recovered,      \* history: the sum of the high watermarks found by recover
    unacked,        \* history: records stored since the restart by appends that failed
    faults,
    crashes

history == <<acked, recovered, unacked>>
vars == <<disk, topics, call, phase, unread, produced_total, history, faults, crashes>>

Configs == 1 .. MaxPartitions
Partitions == 0 .. MaxPartitions - 1

\* topic.json: absent, truncated (which does not decode), or a configuration.
Absent == 0
Truncated == -1
Zeros == [p \in Partitions |-> 0]
NoTopic == [config |-> Absent, start |-> Zeros, high |-> Zeros, stuck |-> {}]
NoCall == [pc |-> "idle", topic |-> CHOOSE t \in Topics : TRUE, config |-> Absent, next |-> 0]

Init ==
    /\ disk = [t \in Topics |-> [dir |-> FALSE, meta |-> Absent, parts |-> {},
                                 start |-> Zeros, high |-> Zeros, hurt |-> {}]]
    /\ topics = [t \in Topics |-> NoTopic]
    /\ call = NoCall
    /\ phase = "down"
    /\ unread = {}
    /\ produced_total = 0
    /\ acked = [t \in Topics |-> Absent]
    /\ recovered = 0
    /\ unacked = 0
    /\ faults = 0
    /\ crashes = 0

Known(t) == topics[t].config # Absent
Free == phase = "up" /\ call.pc = "idle"

SumOf(records) == SumFunction(records)

(***************************************************************************)
(* The queries: topics, topic and stats                                    *)
(***************************************************************************)
StoreTopics == {[name |-> t, partitions |-> topics[t].config] : t \in {u \in Topics : Known(u)}}

\* The topic query: at most one object, that of the name asked for.
FindTopic(t) == {c \in StoreTopics : c.name = t}

\* The offsets before the heads of all partitions, and before their ends.
Pruned == SumOf([t \in Topics |-> SumOf(topics[t].start)])
Assigned == SumOf([t \in Topics |-> SumOf(topics[t].high)])

Stats == [topics |-> Cardinality(StoreTopics),
          partitions |-> SumOf([t \in Topics |-> topics[t].config]),
          records |-> Assigned - Pruned,
          produced_total |-> produced_total]

-----------------------------------------------------------------------------
(* create_topic                                                            *)

\* Deviation: the map of topics is not looked at first.
BeginCreate_NoCheck(t, c) ==
    /\ Free
    /\ call' = [pc |-> "mkdir", topic |-> t, config |-> c, next |-> 0]
    /\ UNCHANGED <<disk, topics, phase, unread, produced_total, history, faults, crashes>>

\* A known name is answered with Ok(false).
BeginCreate(t, c) ==
    /\ Free
    /\ call' = IF Known(t) THEN call
                           ELSE [pc |-> "mkdir", topic |-> t, config |-> c, next |-> 0]
    /\ UNCHANGED <<disk, topics, phase, unread, produced_total, history, faults, crashes>>

CreateFile(from, to, entry) ==
    /\ call.pc = from
    /\ call' = [call EXCEPT !.pc = to]
    /\ disk' = [disk EXCEPT ![call.topic] = entry]
    /\ UNCHANGED <<topics, phase, unread, produced_total, history, faults, crashes>>

MakeDir == CreateFile("mkdir", "open", [disk[call.topic] EXCEPT !.dir = TRUE])

\* fs::write: open with truncation, then write.
OpenMeta == CreateFile("open", "write", [disk[call.topic] EXCEPT !.meta = Truncated])
WriteMeta == CreateFile("write", "parts", [disk[call.topic] EXCEPT !.meta = call.config])

MakePartition ==
    /\ call.pc = "parts" /\ call.next < call.config
    /\ disk' = [disk EXCEPT ![call.topic].parts = @ \cup {call.next}]
    /\ call' = [call EXCEPT !.next = @ + 1]
    /\ UNCHANGED <<topics, phase, unread, produced_total, history, faults, crashes>>

\* The new partitions are empty in memory, whatever the directories hold.
InsertTopic ==
    /\ call.pc = "parts" /\ call.next = call.config
    /\ topics' = [topics EXCEPT ![call.topic] = [NoTopic EXCEPT !.config = call.config]]
    /\ acked' = [acked EXCEPT ![call.topic] = call.config]
    /\ call' = NoCall
    /\ UNCHANGED <<disk, phase, unread, produced_total, recovered, unacked, faults, crashes>>

\* A file operation of the call fails: nothing is undone.
CreateError ==
    /\ call.pc # "idle"
    /\ faults < MaxFaults
    /\ faults' = faults + 1
    /\ call' = NoCall
    /\ UNCHANGED <<disk, topics, phase, unread, produced_total, history, crashes>>

\* An unknown topic or partition is NotFound and changes nothing.
Appendable(t, p) ==
    /\ Free /\ Known(t) /\ p < topics[t].config
    /\ topics[t].high[p] < MaxRecords

\* k records are stored and the head is at h, in memory and in the directory: a
\* file that could not be removed stays the oldest one there.
Store(t, p, k, h, hurt, stuck) ==
    /\ topics' = [topics EXCEPT ![t] =
         [topics[t] EXCEPT !.high[p] = @ + k, !.start[p] = h, !.stuck = stuck]]
    /\ disk' = [disk EXCEPT ![t] =
         [disk[t] EXCEPT !.high[p] = @ + k, !.hurt = hurt,
                         !.start[p] = IF p \in topics[t].stuck THEN @ ELSE h]]

\* append, a record at a time, with the retention behind it: the last segment stays.
AppendRecord(t, p) ==
    /\ Appendable(t, p)
    /\ \E h \in topics[t].start[p] .. topics[t].high[p] :
          Store(t, p, 1, h, disk[t].hurt, topics[t].stuck)
    /\ produced_total' = produced_total + 1
    /\ UNCHANGED <<call, phase, unread, history, faults, crashes>>

\* append returns an error with k records of the batch stored: a segment could not
\* be created, or a write failed and the partition's files are no longer sound.
AppendFails(t, p) ==
    /\ Appendable(t, p)
    /\ faults < MaxFaults
    /\ faults' = faults + 1
    /\ \E k \in 0 .. 1, broken \in SUBSET {p} :
         /\ Store(t, p, k, topics[t].start[p], disk[t].hurt \cup broken, topics[t].stuck)
         /\ unacked' = unacked + k
    /\ UNCHANGED <<call, phase, unread, produced_total, acked, recovered, crashes>>

\* Everything is stored, and the file of a pruned segment cannot be removed: the
\* append is an error all the same.
RetentionFails(t, p) ==
    /\ Appendable(t, p)
    /\ faults < MaxFaults
    /\ faults' = faults + 1
    /\ \E h \in topics[t].start[p] .. topics[t].high[p] :
          Store(t, p, 1, h, disk[t].hurt, topics[t].stuck \cup {p})
    /\ unacked' = unacked + 1
    /\ UNCHANGED <<call, phase, unread, produced_total, acked, recovered, crashes>>

-----------------------------------------------------------------------------
(* The end of the process, open and recover                                *)

Forget ==
    /\ topics' = [t \in Topics |-> NoTopic]
    /\ produced_total' = 0
    /\ recovered' = 0
    /\ unacked' = 0
    /\ unread' = {}

Crash ==
    /\ phase # "down"
    /\ crashes < MaxCrashes
    /\ crashes' = crashes + 1
    /\ phase' = "down"
    /\ call' = NoCall
    /\ Forget
    /\ UNCHANGED <<disk, acked, faults>>

Open ==
    /\ phase = "down"
    /\ phase' = "opening"
    /\ unread' = {t \in Topics : disk[t].dir}
    /\ UNCHANGED <<disk, topics, call, produced_total, history, faults, crashes>>

\* Deviation: a directory without topic.json ends the scan.
SkipEntry_Ends(t) ==
    /\ t \in unread /\ disk[t].meta = Absent
    /\ unread' = {}
    /\ UNCHANGED <<disk, topics, call, phase, produced_total, history, faults, crashes>>

\* A directory without topic.json is not a topic.
SkipEntry(t) ==
    /\ t \in unread /\ disk[t].meta = Absent
    /\ unread' = unread \ {t}
    /\ UNCHANGED <<disk, topics, call, phase, produced_total, history, faults, crashes>>

\* Deviation: the offsets of the partitions are not recovered.
RecoverTopic_Empty(t) ==
    /\ t \in unread /\ disk[t].meta \in Configs
    /\ unread' = unread \ {t}
    /\ disk' = [disk EXCEPT ![t].parts = @ \cup 0 .. disk[t].meta - 1]
    /\ topics' = [topics EXCEPT ![t] = [NoTopic EXCEPT !.config = disk[t].meta]]
    /\ UNCHANGED <<call, phase, produced_total, history, faults, crashes>>

\* recover_partition: the offsets of the files in the directory, whatever they are
\* where a write has failed.
RecoverPartition(t, p, start, high) ==
    p \notin disk[t].hurt => start = disk[t].start[p] /\ high = disk[t].high[p]

\* Every partition of the configuration, whose directory is created when it is missing.
RecoverTopic(t) ==
    LET config == disk[t].meta
    IN
    /\ t \in unread /\ config \in Configs
    /\ unread' = unread \ {t}
    /\ \E start, high \in [Partitions -> 0 .. MaxRecords] :
         /\ \A p \in Partitions : /\ start[p] <= high[p]
                                  /\ IF p < config THEN RecoverPartition(t, p, start[p], high[p])
                                                   ELSE high[p] = 0
         /\ disk' = [disk EXCEPT ![t] =
              [disk[t] EXCEPT !.parts = @ \cup 0 .. config - 1, !.start = start, !.high = high,
                              !.hurt = {}]]
         /\ topics' = [topics EXCEPT ![t] =
              [config |-> config, start |-> start, high |-> high, stuck |-> {}]]
         /\ recovered' = recovered + SumOf(high)
    /\ UNCHANGED <<call, phase, produced_total, acked, unacked, faults, crashes>>

\* open returns an error: a topic.json does not decode, or a file operation fails.
OpenFails ==
    /\ phase = "opening"
    /\ IF \E t \in unread : disk[t].meta = Truncated
       THEN UNCHANGED faults
       ELSE faults < MaxFaults /\ faults' = faults + 1
    /\ phase' = "down"
    /\ Forget
    /\ UNCHANGED <<disk, call, acked, crashes>>

Opened ==
    /\ phase = "opening" /\ unread = {}
    /\ phase' = "up"
    /\ UNCHANGED <<disk, topics, call, unread, produced_total, history, faults, crashes>>

Next ==
    \/ \E t \in Topics : \/ \E c \in Configs : BeginCreate(t, c)
                         \/ \E p \in Partitions : \/ AppendRecord(t, p)
                                                 \/ AppendFails(t, p)
                                                 \/ RetentionFails(t, p)
                         \/ SkipEntry(t)
                         \/ RecoverTopic(t)
    \/ MakeDir \/ OpenMeta \/ WriteMeta \/ MakePartition \/ InsertTopic \/ CreateError
    \/ Crash \/ Open \/ OpenFails \/ Opened

Spec == Init /\ [][Next]_vars

-----------------------------------------------------------------------------
(* Properties                                                              *)

\* A topic that create_topic acknowledged keeps its configuration and its
\* partition directories through failed creates, crashes and failed opens, and
\* is there whenever the store is open.  So a topic.json that makes `open` fail
\* is always that of a create that was never acknowledged.
AckedTopicSurvives ==
    \A t \in Topics : acked[t] # Absent =>
        /\ disk[t].meta = acked[t]
        /\ 0 .. acked[t] - 1 \subseteq disk[t].parts
        /\ phase = "up" => FindTopic(t) = {[name |-> t, partitions |-> acked[t]]}

\* Records on disk always belong to a topic whose topic.json decodes and names
\* their partition, and that the topics query lists while the store is open: no
\* create, complete or cut short, and no recovery ever hides them.
RecordsReachable ==
    \A t \in Topics, p \in Partitions : disk[t].high[p] > 0 \/ p \in disk[t].hurt =>
        /\ p < disk[t].meta
        /\ phase = "up" => \E shown \in StoreTopics : shown.name = t /\ p < shown.partitions

\* An open store has in memory the offsets of the files on disk, for every partition
\* of every topic, unless a write failed there (or, for the head, a removal) since
\* the restart.  And stats() adds up: the records it counts and those retention
\* removed are the ones recover found, produced_total, which counts from the
\* restart, and what appends stored that returned an error.
StatsAgree ==
    phase = "up" =>
        /\ \A t \in Topics : \A p \in Partitions \ disk[t].hurt :
             /\ topics[t].high[p] = disk[t].high[p]
             /\ p \notin topics[t].stuck => topics[t].start[p] = disk[t].start[p]
        /\ Stats.records + Pruned = recovered + Stats.produced_total + unacked

=============================================================================
