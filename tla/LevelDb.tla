-------------------------------- MODULE LevelDb --------------------------------
(***************************************************************************)
(* The write path of LevelDB and its recovery: the queue of writers and    *)
(* their group commit, log files and memtables, the background thread that *)
(* builds and merges tables, the manifest, obsolete files, and DB::Open    *)
(* after the process or the machine died at any point.  Keys are left out: *)
(* a file holds entries, and the levels above 0 are one.                   *)
(***************************************************************************)
EXTENDS Integers, Sequences, FiniteSets, SequencesExt

CONSTANTS
  Writes,                \* calls of DB::Write, each by a thread of its own
  Synced,                \* those with WriteOptions::sync
  WriteBufferSize,       \* entries of a memtable that is full
  MaxGroup,              \* writes of a batch group
  kL0_CompactionTrigger, kL0_StopWritesTrigger,
  MaxErrors,             \* bound: failed file operations
  MaxDamage,             \* bound: appends that fail, logs that cannot be read
  MaxKills, MaxCrashes   \* bounds: deaths of the process, of the machine

ASSUME WritesAssumption == Synced \subseteq Writes

ASSUME SizesAssumption ==
  /\ WriteBufferSize \in Nat \ {0} /\ MaxGroup \in Nat \ {0}
  /\ kL0_CompactionTrigger \in Nat \ {0, 1} /\ kL0_StopWritesTrigger \in Nat \ {0}
  /\ kL0_CompactionTrigger <= kL0_StopWritesTrigger
  /\ {MaxErrors, MaxDamage, MaxKills, MaxCrashes} \subseteq Nat

VARIABLES
  disk,      \* log files, tables, manifests, CURRENT; history: the writes lost
  db,        \* DBImpl and VersionSet, as far as mutex_ guards them
  writing,   \* writers_, and what the first of them is at
  bg,        \* the background thread
  answered,  \* what DB::Write returned
  left       \* what remains of the bounds

vars == <<disk, db, writing, bg, answered, left>>

Entry == [seq : Nat, write : Writes]

\* A record of a log that log::Reader finds: a batch group.
Record == [first : Nat, writes : Seq(Writes)]

\* A log::Writer goes on counting its blocks when an append fails, whatever it
\* left of the record: from then on it is out of step with the reader's blocks.
Log == [records : Seq(Record), synced : Nat, inStep : BOOLEAN]

\* What the records of a manifest add up to, and whether it can be read at all.
Manifest == [l0 : SUBSET Nat, l1 : SUBSET Nat, log : Nat, next : Nat, last : Nat,
             inStep : BOOLEAN, corrupt : BOOLEAN]

\* The memory of a database that is not open.
Closed == [status |-> "down", mem |-> {}, imm |-> {}, hasImm |-> FALSE, last |-> 0,
           next |-> 0, log |-> 0, logfile |-> 0, l0 |-> {}, l1 |-> {}, manifest |-> 0,
           error |-> FALSE, replay |-> {}]

NoWriting == [queue |-> <<>>, asleep |-> {}, waits |-> FALSE, at |-> "idle", group |-> <<>>]

\* A VersionEdit, with what LogAndApply adds to it.
Edit == [inputs : SUBSET Nat, l0 : SUBSET Nat, l1 : SUBSET Nat,
         log : Nat, next : Nat, last : Nat]

NoEdit == [inputs |-> {}, l0 |-> {}, l1 |-> {}, log |-> 0, next |-> 0, last |-> 0]

NoBackground == [at |-> "none", table |-> 0, output |-> 0, inputs |-> {}, edit |-> NoEdit]

TypeOK ==
  /\ \A n \in DOMAIN disk.logs :
       n \in Nat /\ disk.logs[n] \in Log
       /\ disk.logs[n].synced <= Len(disk.logs[n].records)
  /\ \A n \in DOMAIN disk.tables : n \in Nat /\ disk.tables[n] \subseteq Entry
  /\ \A n \in DOMAIN disk.manifests : n \in Nat /\ disk.manifests[n] \in Manifest
  /\ disk.current \in DOMAIN disk.manifests
  /\ disk.lost \subseteq Writes
  /\ db \in [status : {"down", "failed", "corrupt", "replaying", "saving", "pointing", "installing", "open"},
             mem : SUBSET Entry, imm : SUBSET Entry, hasImm : BOOLEAN, last : Nat,
             next : Nat, log : Nat, logfile : Nat, l0 : SUBSET Nat, l1 : SUBSET Nat,
             manifest : Nat, error : BOOLEAN, replay : SUBSET Nat]
  /\ writing \in [queue : Seq(Writes), asleep : SUBSET Writes, waits : BOOLEAN,
                  at : {"idle", "append", "sync", "insert"}, group : Seq(Writes)]
  /\ bg \in [at : {"none", "scheduled", "building", "logging", "installing", "merging",
                   "merged", "mergeLogging", "mergeInstalling"},
             table : Nat, output : Nat, inputs : SUBSET Nat, edit : Edit]
  /\ answered \in [Writes -> {"none", "ok", "error", "died"}]
  /\ left \in [errors : Nat, damage : Nat, kills : Nat, crashes : Nat]

-----------------------------------------------------------------------------
(* Files.                                                                  *)

With(f, n, value) == [m \in DOMAIN f \cup {n} |-> IF m = n THEN value ELSE f[m]]
Keep(f, S) == [m \in DOMAIN f \cap S |-> f[m]]

EmptyLog == [records |-> <<>>, synced |-> 0, inStep |-> TRUE]

Entries(record) ==
  {[seq |-> record.first + i - 1, write |-> record.writes[i]] : i \in DOMAIN record.writes}

LogEntries(log) == UNION {Entries(log.records[i]) : i \in DOMAIN log.records}

TableEntries(S) == UNION {disk.tables[n] : n \in S}

\* What VersionSet::Recover and DBImpl::Recover would find now.
LogsToReplay(m) == {n \in DOMAIN disk.logs : n >= m.log}

Recoverable ==
  LET m == disk.manifests[disk.current] IN
  IF m.corrupt \/ ~(m.l0 \cup m.l1 \subseteq DOMAIN disk.tables) THEN {}
  ELSE TableEntries(m.l0 \cup m.l1)
         \cup UNION {LogEntries(disk.logs[n]) : n \in LogsToReplay(m)}

\* The tables of the manifest, and the records that would be replayed over them.
NamedTables == disk.manifests[disk.current].l0 \cup disk.manifests[disk.current].l1
RecordsToReplay ==
  UNION {ToSet(disk.logs[n].records) : n \in LogsToReplay(disk.manifests[disk.current])}

\* What a reader of the open database finds.
Contents == db.mem \cup db.imm \cup TableEntries(db.l0 \cup db.l1)

-----------------------------------------------------------------------------
(* File operations that may fail.                                          *)

MayFail == left.errors > 0
OneError == [left EXCEPT !.errors = @ - 1]

MayDamage == left.damage > 0
OneDamage == [left EXCEPT !.damage = @ - 1]

\* The writes of some entries can be lost from here on.
Loses(entries) == [disk EXCEPT !.lost = @ \cup {e.write : e \in entries}]

-----------------------------------------------------------------------------
(* DeleteObsoleteFiles and MaybeScheduleCompaction, with mutex_ held.      *)

\* Mutant: outputs of a compaction in progress are not protected.
NoPendingOutputs == {}

\* pending_outputs_: WriteLevel0Table takes its table off before LogAndApply.
PendingOutputs == IF bg.inputs # {} THEN {bg.output} ELSE {}

\* Mutant: files are deleted after a background error as well.
DeletesAlways(d) == TRUE

DeletesFiles(d) == ~d.error

ManifestsToKeep(d) == {n \in DOMAIN disk.manifests : n >= d.manifest}

DeleteObsoleteFiles(d) ==
  IF DeletesFiles(d)
  THEN [disk EXCEPT !.logs = Keep(@, {n \in DOMAIN @ : n >= d.log}),
                    !.manifests = Keep(@, ManifestsToKeep(d)),
                    !.tables = Keep(@, d.l0 \cup d.l1 \cup PendingOutputs)]
  ELSE disk

NeedsCompaction(d) == Cardinality(d.l0) >= kL0_CompactionTrigger

\* Is there work to schedule?
HasWork(d) == ~d.error /\ (d.hasImm \/ NeedsCompaction(d))

Scheduled(d) == [NoBackground EXCEPT !.at = IF HasWork(d) THEN "scheduled" ELSE "none"]

\* The end of BackgroundCall: schedule again, wake the writer that waits for room.
BackgroundCallEnds(d) ==
  /\ bg' = Scheduled(d)
  /\ writing' = [writing EXCEPT !.waits = FALSE]

-----------------------------------------------------------------------------
(* DBImpl::Write.                                                          *)

Open == db.status = "open"

Issued(w) == answered[w] # "none" \/ \E i \in DOMAIN writing.queue : writing.queue[i] = w

\* A writer queues and waits on its own condition unless it is the first.
Write(w) ==
  /\ Open /\ ~Issued(w)
  /\ writing' = [writing EXCEPT !.queue = Append(@, w),
                   !.asleep = IF writing.queue = <<>> THEN @ ELSE @ \cup {w}]
  /\ UNCHANGED <<disk, db, bg, answered, left>>

\* The first writer holds mutex_ and is not in the middle of its write.
First(w) ==
  /\ Open /\ writing.at = "idle" /\ ~writing.waits
  /\ writing.queue # <<>> /\ w = Head(writing.queue) /\ w \notin writing.asleep

\* Mutant: the writer that becomes the first is left asleep.
WakesGroup(group, rest) == ToSet(group)

\* Those that are done, and the new first.
Wakes(group, rest) == ToSet(group) \cup (IF rest = <<>> THEN {} ELSE {Head(rest)})

\* The end of Write: the group leaves the queue with one status.
Finish(group, status) ==
  LET rest == SubSeq(writing.queue, Len(group) + 1, Len(writing.queue)) IN
  /\ writing' = [writing EXCEPT !.queue = rest, !.at = "idle", !.group = <<>>,
                                !.asleep = @ \ Wakes(group, rest)]
  /\ answered' = [w \in Writes |-> IF w \in ToSet(group) THEN status ELSE answered[w]]

\* Mutant: a sync write joins the group of a write that is not.
JoinsAny(w, first) == TRUE

Joins(w, first) == w \in Synced => first \in Synced

\* BuildBatchGroup: the writers that can join the first, up to the size limit.
BatchGroup ==
  LET q == writing.queue
      fits == {n \in 1..Len(q) : n <= MaxGroup /\ \A i \in 2..n : Joins(q[i], q[1])}
  IN  SubSeq(q, 1, CHOOSE n \in fits : \A m \in fits : m <= n)

\* MakeRoomForWrite: there is room, there is none yet, or a memtable is full.
Room == Cardinality(db.mem) < WriteBufferSize
Stopped == db.hasImm \/ Cardinality(db.l0) >= kL0_StopWritesTrigger

WriteFails(w) ==
  /\ First(w) /\ db.error
  /\ Finish(<<w>>, "error")
  /\ UNCHANGED <<disk, db, bg, left>>

StartGroup == writing' = [writing EXCEPT !.at = "append", !.group = BatchGroup]

WriteHasRoom(w) ==
  /\ First(w) /\ ~db.error /\ Room
  /\ StartGroup
  /\ UNCHANGED <<disk, db, bg, answered, left>>

WriteWaits(w) ==
  /\ First(w) /\ ~db.error /\ ~Room /\ Stopped
  /\ writing' = [writing EXCEPT !.waits = TRUE]
  /\ UNCHANGED <<disk, db, bg, answered, left>>

\* A new log and a new memtable; then there is room.
SwitchMemTable(w) ==
  /\ First(w) /\ ~db.error /\ ~Room /\ ~Stopped
  /\ disk' = [disk EXCEPT !.logs = With(@, db.next, EmptyLog)]
  /\ db' = [db EXCEPT !.next = @ + 1, !.logfile = db.next,
                      !.imm = db.mem, !.hasImm = TRUE, !.mem = {}]
  /\ bg' = IF bg.at = "none" THEN Scheduled(db') ELSE bg
  /\ StartGroup
  /\ UNCHANGED <<answered, left>>

\* The log file cannot be made.
SwitchFails(w) ==
  /\ First(w) /\ ~db.error /\ ~Room /\ ~Stopped /\ MayFail
  /\ Finish(<<w>>, "error")
  /\ left' = OneError
  /\ UNCHANGED <<disk, db, bg>>

GroupRecord == [first |-> db.last + 1, writes |-> writing.group]

\* With mutex_ released: the log, its sync, the memtable.  AddRecord succeeds, and
\* the reader will find the record, or not if its writer is out of step.
LogAppend ==
  /\ writing.at = "append"
  /\ \/ disk' = [disk EXCEPT !.logs[db.logfile].records = Append(@, GroupRecord)]
     \/ ~disk.logs[db.logfile].inStep /\ disk' = Loses(Entries(GroupRecord))
  /\ writing' = [writing EXCEPT !.at = IF Head(writing.group) \in Synced
                                       THEN "sync" ELSE "insert"]
  /\ UNCHANGED <<db, bg, answered, left>>

SequenceAfter(d, group) == [d EXCEPT !.last = @ + Len(group)]

\* It leaves nothing or a part of the record, and later writes go on behind it.
LogAppendFails ==
  /\ writing.at = "append" /\ MayDamage
  /\ disk' = [disk EXCEPT !.logs[db.logfile].inStep = FALSE]
  /\ db' = SequenceAfter(db, writing.group)
  /\ Finish(writing.group, "error")
  /\ left' = OneDamage
  /\ UNCHANGED bg

LogSync ==
  /\ writing.at = "sync"
  /\ disk' = [disk EXCEPT !.logs[db.logfile].synced = Len(disk.logs[db.logfile].records)]
  /\ writing' = [writing EXCEPT !.at = "insert"]
  /\ UNCHANGED <<db, bg, answered, left>>

\* Mutant: a failed sync is only an error of the writer.
RecordSyncError(d) == d

\* RecordBackgroundError: no write and no compaction from here on.
RecordBackgroundError(d) == [d EXCEPT !.error = TRUE]

LogSyncFails ==
  /\ writing.at = "sync" /\ MayFail
  /\ db' = RecordBackgroundError(SequenceAfter(db, writing.group))
  /\ Finish(writing.group, "error")
  /\ left' = OneError
  /\ UNCHANGED <<disk, bg>>

InsertInto ==
  /\ writing.at = "insert"
  /\ db' = [SequenceAfter(db, writing.group) EXCEPT !.mem = @ \cup Entries(GroupRecord)]
  /\ Finish(writing.group, "ok")
  /\ UNCHANGED <<disk, bg, left>>

-----------------------------------------------------------------------------
(* The background thread.                                                  *)

\* VersionSet::LogAndApply completes the edit with mutex_ held ...
Completed(inputs, l0, l1, log) ==
  [inputs |-> inputs, l0 |-> l0, l1 |-> l1, log |-> log, next |-> db.next, last |-> db.last]

\* ... and appends it to the manifest with mutex_ released.
Applied(m, edit) ==
  [m EXCEPT !.l0 = (@ \ edit.inputs) \cup edit.l0, !.l1 = (@ \ edit.inputs) \cup edit.l1,
            !.log = edit.log, !.next = edit.next, !.last = edit.last]

\* Then its version becomes the current one.
Installed(d, edit) ==
  [d EXCEPT !.l0 = (@ \ edit.inputs) \cup edit.l0, !.l1 = (@ \ edit.inputs) \cup edit.l1,
            !.log = edit.log]

\* Mutant: the log in use is given up with the memtable before it.
NewestLog == db.next

\* CompactMemTable: earlier logs are no longer needed.
LogInUse == db.logfile

\* PickLevelForMemTableOutput: a table may go deeper if level 0 is empty.
Levels == IF db.l0 = {} THEN {0, 1} ELSE {0}

MemTableEdit(level) ==
  Completed({}, IF level = 0 THEN {bg.table} ELSE {}, IF level = 0 THEN {} ELSE {bg.table},
            LogInUse)

\* An edit without a log number keeps the one there is.
MergeEdit == Completed(bg.inputs, {}, {bg.output}, db.log)

\* A memtable is full: it is to become a table.
StartDump ==
  /\ db.hasImm /\ ~db.error
  /\ bg' = [NoBackground EXCEPT !.at = "building", !.table = db.next]
  /\ db' = [db EXCEPT !.next = @ + 1]
  /\ UNCHANGED writing

\* Level 0 is to be merged with some of the tables below.
StartMerge ==
  /\ ~db.hasImm /\ NeedsCompaction(db) /\ ~db.error
  /\ \E others \in SUBSET db.l1 :
       bg' = [NoBackground EXCEPT !.at = "merging", !.output = db.next,
                                  !.inputs = db.l0 \cup others]
  /\ db' = [db EXCEPT !.next = @ + 1]
  /\ UNCHANGED writing

NothingToDo == ~HasWork(db) /\ BackgroundCallEnds(db) /\ UNCHANGED db

\* BackgroundCall and BackgroundCompaction up to where mutex_ is released.
BackgroundStarts ==
  /\ bg.at = "scheduled"
  /\ StartDump \/ StartMerge \/ NothingToDo
  /\ UNCHANGED <<disk, answered, left>>

\* DoCompactionWork puts a memtable first, whatever it has written of its output.
MemTableFirst ==
  /\ bg.at \in {"merging", "merged"} /\ db.hasImm
  /\ bg' = [bg EXCEPT !.at = "building", !.table = db.next]
  /\ db' = [db EXCEPT !.next = @ + 1]
  /\ UNCHANGED <<disk, writing, answered, left>>

\* A merge goes on where CompactMemTable interrupted it.
ResumeMerge == [bg EXCEPT !.at = IF bg.output \in DOMAIN disk.tables
                                 THEN "merged" ELSE "merging"]

\* CompactMemTable returns: to a merge, which wakes the writers, or to BackgroundCall.
CompactMemTableEnds(d) ==
  \/ bg.inputs = {} /\ BackgroundCallEnds(d)
  \/ bg.inputs # {} /\ bg' = ResumeMerge /\ writing' = [writing EXCEPT !.waits = FALSE]

\* BuildTable and Sync; mutex_ is taken again for the edit.
BuildTable ==
  /\ bg.at = "building"
  /\ disk' = [disk EXCEPT !.tables = With(@, bg.table, db.imm)]
  /\ \E level \in Levels : bg' = [bg EXCEPT !.at = "logging", !.edit = MemTableEdit(level)]
  /\ UNCHANGED <<db, writing, answered, left>>

\* An error of CompactMemTable is recorded; a merge goes on nevertheless.
MemTableFails ==
  /\ db' = RecordBackgroundError(db)
  /\ CompactMemTableEnds(db')

BuildTableFails ==
  /\ bg.at = "building" /\ MayFail
  /\ MemTableFails
  /\ left' = OneError
  /\ UNCHANGED <<disk, answered>>

OutOfStep == ~disk.manifests[db.manifest].inStep

ManifestUnreadable ==
  disk' = [disk EXCEPT !.manifests[db.manifest].corrupt = TRUE, !.lost = Writes]

\* An edit behind a failed append is read, or lost, or takes the manifest with it:
\* what log::Reader skips of a log is an error in a manifest.
LogEdit(edit) ==
  \/ disk' = [disk EXCEPT !.manifests[db.manifest] = Applied(@, edit)]
  \/ OutOfStep /\ disk' = Loses(TableEntries(edit.l0 \cup edit.l1))
  \/ OutOfStep /\ ManifestUnreadable

\* A failed append leaves nothing or a part of the edit.
EditAppendFails ==
  \/ disk' = [disk EXCEPT !.manifests[db.manifest].inStep = FALSE]
  \/ OutOfStep /\ ManifestUnreadable

\* The append fails, or the sync: then the edit is there or it is not.
LogEditFails(edit) ==
  \/ MayFail /\ left' = OneError /\ (UNCHANGED disk \/ LogEdit(edit))
  \/ MayDamage /\ left' = OneDamage /\ EditAppendFails

LogMemTable ==
  /\ bg.at = "logging"
  /\ LogEdit(bg.edit)
  /\ bg' = [bg EXCEPT !.at = "installing"]
  /\ UNCHANGED <<db, writing, answered, left>>

LogMemTableFails ==
  /\ bg.at = "logging"
  /\ LogEditFails(bg.edit)
  /\ MemTableFails
  /\ UNCHANGED answered

InstallMemTable ==
  /\ bg.at = "installing"
  /\ db' = [Installed(db, bg.edit) EXCEPT !.imm = {}, !.hasImm = FALSE]
  /\ disk' = DeleteObsoleteFiles(db')
  /\ CompactMemTableEnds(db')
  /\ UNCHANGED <<answered, left>>

\* The output of a merge.
MergeTables ==
  /\ bg.at = "merging"
  /\ disk' = [disk EXCEPT !.tables = With(@, bg.output, TableEntries(bg.inputs))]
  /\ bg' = [bg EXCEPT !.at = "merged"]
  /\ UNCHANGED <<db, writing, answered, left>>

\* The merge ends with an error.
MergeEndsBadly ==
  /\ db' = RecordBackgroundError(db)
  /\ BackgroundCallEnds(db')
  /\ UNCHANGED answered

MergeFails ==
  /\ bg.at \in {"merging", "merged"} /\ MayFail
  /\ MergeEndsBadly
  /\ left' = OneError
  /\ UNCHANGED disk

\* InstallCompactionResults.
MergeDone ==
  /\ bg.at = "merged"
  /\ bg' = [bg EXCEPT !.at = "mergeLogging", !.edit = MergeEdit]
  /\ UNCHANGED <<disk, db, writing, answered, left>>

LogMerge ==
  /\ bg.at = "mergeLogging"
  /\ LogEdit(bg.edit)
  /\ bg' = [bg EXCEPT !.at = "mergeInstalling"]
  /\ UNCHANGED <<db, writing, answered, left>>

LogMergeFails ==
  /\ bg.at = "mergeLogging"
  /\ LogEditFails(bg.edit)
  /\ MergeEndsBadly

InstallMerge ==
  /\ bg.at = "mergeInstalling"
  /\ db' = Installed(db, bg.edit)
  /\ disk' = DeleteObsoleteFiles(db')
  /\ BackgroundCallEnds(db')
  /\ UNCHANGED <<answered, left>>

-----------------------------------------------------------------------------
(* DB::Open, each step of which may be the last.                           *)

\* VersionSet::Recover, the check for missing tables and the logs to replay.
Recover ==
  /\ db.status = "down"
  /\ LET m == disk.manifests[disk.current] IN
     db' = IF m.corrupt \/ ~(m.l0 \cup m.l1 \subseteq DOMAIN disk.tables)
           THEN [Closed EXCEPT !.status = "corrupt"]
           ELSE [Closed EXCEPT !.status = "replaying", !.last = m.last, !.next = m.next + 1,
                   !.log = m.log, !.l0 = m.l0, !.l1 = m.l1, !.manifest = m.next,
                   !.replay = LogsToReplay(m)]
  /\ UNCHANGED <<disk, writing, bg, answered, left>>

MarkFileNumberUsed(next, n) == IF next <= n THEN n + 1 ELSE next

\* Mutant: the last sequence number is the manifest's.
ManifestSequence(entries) == db.last

LastSequence(entries) ==
  LET all == {db.last} \cup {e.seq : e \in entries} IN CHOOSE s \in all : \A r \in all : r <= s

\* RecoverLogFile, for the oldest log that is left: its entries become a table.
\* The new version is kept in l0 until LogAndApply.
WithTable(entries) ==
  IF entries = {} THEN disk ELSE [disk EXCEPT !.tables = With(@, db.next, entries)]

Replays(n, entries) ==
  LET used == IF entries = {} THEN db.next ELSE db.next + 1
  IN  /\ \A m \in db.replay : n <= m
      /\ db' = [db EXCEPT !.replay = @ \ {n}, !.last = LastSequence(entries),
                         !.l0 = IF entries = {} THEN @ ELSE @ \cup {db.next},
                         !.next = MarkFileNumberUsed(used, n)]

ReplayLog ==
  /\ db.status = "replaying"
  /\ \E n \in db.replay :
       LET entries == LogEntries(disk.logs[n])
       IN  disk' = WithTable(entries) /\ Replays(n, entries)
  /\ UNCHANGED <<writing, bg, answered, left>>

\* A log that cannot be opened, or read from some block on, is as good as one that
\* ends there (paranoid_checks is off): the new manifest passes it all the same.
ReplayLogFails ==
  /\ db.status = "replaying" /\ MayDamage
  /\ \E n \in db.replay : \E read \in 0 .. Len(disk.logs[n].records) - 1 :
       LET log == disk.logs[n]
           entries == LogEntries([log EXCEPT !.records = SubSeq(@, 1, read)])
       IN  /\ disk' = [WithTable(entries) EXCEPT
                         !.lost = @ \cup {e.write : e \in LogEntries(log) \ entries}]
           /\ Replays(n, entries)
  /\ left' = OneDamage
  /\ UNCHANGED <<writing, bg, answered>>

NewLog ==
  /\ db.status = "replaying" /\ db.replay = {}
  /\ disk' = [disk EXCEPT !.logs = With(@, db.next, EmptyLog)]
  /\ db' = [db EXCEPT !.status = "saving", !.logfile = db.next, !.log = db.next,
                      !.next = @ + 1]
  /\ UNCHANGED <<writing, bg, answered, left>>

\* LogAndApply: a new manifest with the whole version ...
SaveManifest ==
  /\ db.status = "saving"
  /\ disk' = [disk EXCEPT !.manifests = With(@, db.manifest,
                [l0 |-> db.l0, l1 |-> db.l1, log |-> db.log, next |-> db.next,
                 last |-> db.last, inStep |-> TRUE, corrupt |-> FALSE])]
  /\ db' = [db EXCEPT !.status = "pointing"]
  /\ UNCHANGED <<writing, bg, answered, left>>

\* ... and CURRENT, renamed into place ...
SetCurrentFile ==
  /\ db.status = "pointing"
  /\ disk' = [disk EXCEPT !.current = db.manifest]
  /\ db' = [db EXCEPT !.status = "installing"]
  /\ UNCHANGED <<writing, bg, answered, left>>

\* A file of these steps cannot be written: the new manifest is removed again.
OpenFails ==
  /\ db.status \in {"replaying", "saving", "pointing"} /\ MayFail
  /\ disk' = IF db.status = "replaying" THEN disk
             ELSE [disk EXCEPT !.manifests = Keep(@, DOMAIN @ \ {db.manifest})]
  /\ db' = [Closed EXCEPT !.status = "failed"]
  /\ left' = OneError
  /\ UNCHANGED <<writing, bg, answered>>

\* ... before anything is deleted.
Opened ==
  /\ db.status = "installing"
  /\ disk' = DeleteObsoleteFiles(db)
  /\ db' = [db EXCEPT !.status = "open"]
  /\ bg' = Scheduled(db)
  /\ UNCHANGED <<writing, answered, left>>

-----------------------------------------------------------------------------
(* The process dies, or the machine: what was not synced of a log is lost  *)
(* from some record on.  Tables and manifests are synced before use;       *)
(* directory operations are taken to last.  The part of a record that was  *)
(* being appended is the end of its file, which is not appended to again,  *)
(* and a reader in step with it takes it for the end.                      *)

Die ==
  /\ db' = Closed /\ writing' = NoWriting /\ bg' = NoBackground
  /\ answered' = [w \in Writes |-> IF Issued(w) /\ answered[w] = "none"
                                   THEN "died" ELSE answered[w]]

Kill ==
  /\ left.kills > 0 /\ db.status # "down"
  /\ Die
  /\ left' = [left EXCEPT !.kills = @ - 1]
  /\ \/ UNCHANGED disk
     \/ bg.at \in {"logging", "mergeLogging"} /\ OutOfStep /\ ManifestUnreadable

Crash ==
  /\ left.crashes > 0 /\ db.status # "down"
  /\ Die
  /\ \E kept \in [DOMAIN disk.logs -> 0..Cardinality(Writes)] :
       /\ \A n \in DOMAIN disk.logs :
            kept[n] \in disk.logs[n].synced..Len(disk.logs[n].records)
       /\ disk' = [disk EXCEPT !.logs = [n \in DOMAIN disk.logs |->
                     [disk.logs[n] EXCEPT !.records = SubSeq(@, 1, kept[n])]]]
  /\ left' = [left EXCEPT !.crashes = @ - 1]

\* A new database, as NewDB leaves it.
Init ==
  /\ disk = [logs |-> <<>>, tables |-> <<>>,
             manifests |-> [n \in {1} |-> [l0 |-> {}, l1 |-> {}, log |-> 0, next |-> 2, last |-> 0,
                                  inStep |-> TRUE, corrupt |-> FALSE]],
             current |-> 1, lost |-> {}]
  /\ db = Closed /\ writing = NoWriting /\ bg = NoBackground
  /\ answered = [w \in Writes |-> "none"]
  /\ left = [errors |-> MaxErrors, damage |-> MaxDamage, kills |-> MaxKills, crashes |-> MaxCrashes]

Writing ==
  \/ \E w \in Writes : WriteFails(w) \/ WriteHasRoom(w) \/ WriteWaits(w) \/ SwitchMemTable(w)
  \/ LogAppend \/ LogSync \/ InsertInto

Background ==
  \/ BackgroundStarts \/ MemTableFirst
  \/ BuildTable \/ LogMemTable \/ InstallMemTable
  \/ MergeTables \/ MergeDone \/ LogMerge \/ InstallMerge

Opening == Recover \/ ReplayLog \/ NewLog \/ SaveManifest \/ SetCurrentFile \/ Opened

Faults ==
  \/ \E w \in Writes : SwitchFails(w)
  \/ LogAppendFails \/ LogSyncFails \/ BuildTableFails \/ LogMemTableFails
  \/ MergeFails \/ LogMergeFails \/ ReplayLogFails \/ OpenFails
  \/ Kill \/ Crash

Next == (\E w \in Writes : Write(w)) \/ Writing \/ Background \/ Opening \/ Faults

\* Threads run, and the app opens its database.
Fairness == WF_vars(Writing) /\ WF_vars(Background) /\ WF_vars(Opening)

Spec == Init /\ [][Next]_vars

FairSpec == Spec /\ Fairness

-----------------------------------------------------------------------------
(* Properties.                                                             *)

Crashed == left.crashes < MaxCrashes

\* No append has failed and no log was unreadable.
Undamaged == left.damage = MaxDamage

KeptWrites == {e.write : e \in Recoverable}

\* A write that was answered with success is found again by whatever DB::Open
\* comes next, whenever the process dies: during a switch of memtables, a merge, a
\* change of the manifest or a recovery.  When the machine dies, a sync write is.
\* What is lost is one log record or memtable behind a failed append, a manifest
\* behind one, or the rest of a log that could not be read, and no other write.
AckedSurvives ==
  \A w \in Writes \ disk.lost :
    answered[w] = "ok" /\ (Crashed => w \in Synced) => w \in KeptWrites

\* What the options promise of the death of the process: it loses no write.
ProcessCrashLosesNothing ==
  ~Crashed => \A w \in Writes : answered[w] = "ok" => w \in KeptWrites

\* An open database shows what a restart would bring back, apart from the group
\* that is being written: nothing comes back at a restart, and nothing is lost but
\* what was lost before.  (After a failed sync or a failed change of the manifest
\* the restart may show more.)
RestartChangesNothing ==
  Open =>
    LET after == Recoverable
        now == Contents
    IN  /\ \A e \in now \ after : e.write \in disk.lost
        /\ \A e \in after \ now : db.error \/ e.write \in ToSet(writing.group)

\* A sequence number belongs to one write and a write has one number, through
\* failed writes, merges and restarts: which of two values of a key is the newer
\* one hangs on it.  The next numbers are above all that are in use.
SequencesUnique ==
  LET all == Recoverable \cup Contents IN
  /\ \A e, f \in all : e.seq = f.seq <=> e.write = f.write
  /\ Open => \A e \in all : e.seq <= db.last + Len(writing.group)

\* A database can be opened again: unless a change was appended to it behind one
\* that failed its manifest can be read, and the tables it names are there, the
\* merge's output and inputs included.
OpensAgain ==
  LET m == disk.manifests[disk.current] IN
  /\ disk.current \in DOMAIN disk.manifests
  /\ m.inStep => ~m.corrupt
  /\ m.l0 \cup m.l1 \subseteq DOMAIN disk.tables
  /\ db.l0 \cup db.l1 \subseteq DOMAIN disk.tables \/ ~Open

\* LevelDB keeps what it promises the callers of DB::Write: what is in the tables
\* of the manifest is stored, a batch group that a restart would replay is logged.
Store == INSTANCE DurableWrites WITH
  stored <- {e.write : e \in TableEntries(NamedTables)},
  logged <- {ToSet(record.writes) : record \in RecordsToReplay},
  crashes <- MaxCrashes - left.crashes

\* Writes become durable group by group and are answered with success only then.
\* The death of the process takes none away; that of the machine takes whole groups
\* that are still in the log, and no sync write that was answered.
StoreSpec == Store!Spec

\* Writers do not sleep for good: the group that finishes, the first of the queue
\* behind it and the writer that waits for room are woken.
EveryWriteIsAnswered ==
  \A w \in Writes : (w \in ToSet(writing.queue)) ~> answered[w] # "none"

=============================================================================
