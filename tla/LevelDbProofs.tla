----------------------------- MODULE LevelDbProofs -----------------------------
(***************************************************************************)
(* What the files of LevelDb hold, for every set of writes and every size: *)
(* the safety properties of LevelDb and its refinement of DurableWrites.   *)
(***************************************************************************)
EXTENDS LevelDbNumbers

-----------------------------------------------------------------------------
(* What the files hold, as long as no append failed and every log was read. *)

\* The entries of the logs from a number on.
LogsFrom(n) == UNION {LogEntries(disk.logs[k]) : k \in {j \in DOMAIN disk.logs : j >= n}}

\* Recoverable, of a manifest that can be read.
Found == TableEntries(Named(Current)) \cup LogsFrom(Current.log)

\* The part of it that the death of the machine leaves.
FirmEntries(log) ==
  UNION {Entries(log.records[i]) : i \in DOMAIN log.records \cap 1..log.synced}

\* What would be found after the death of the machine.
Firm ==
  TableEntries(Named(Current))
    \cup UNION {FirmEntries(disk.logs[n]) : n \in LogsToReplay(Current)}

\* The writes that entries are of.
WritesOf(S) == {e.write : e \in S}

\* What DurableWrites calls stored and logged.
StoredWrites == WritesOf(TableEntries(Named(Current)))
LoggedGroups == {ToSet(record.writes) : record \in RecordsToReplay}

\* A step leaves both alone.
StoreKept == StoredWrites' = StoredWrites /\ LoggedGroups' = LoggedGroups

\* The record of the group is in the log.
Recorded == writing.at \in {"sync", "insert"}

\* The entries of the record of the group, once it is there.
GroupEntries == IF Recorded THEN Entries(GroupRecord) ELSE {}

\* A number is of one write, and a write of one number.
Unique(S) == \A e, f \in S : e.seq = f.seq <=> e.write = f.write

\* No number is above n.
UpTo(S, n) == \A e \in S : e.seq <= n

\* A manifest that can be read, whose tables are there.
Readability ==
  /\ ~Current.corrupt
  /\ Named(Current) \subseteq DOMAIN disk.tables
  /\ Live => Current.inStep
  /\ UpTo(TableEntries(Named(Current)), Current.last)

\* The entries that can come back are of one write each, which was answered or is
\* the one being written.
Entitled ==
  /\ Unique(Found)
  /\ \A e \in Found : answered[e.write] = "none" => e \in GroupEntries

\* The version of a database that is being opened or open.
VersionTables ==
  /\ UpTo(Contents, db.last)
  /\ Contents \subseteq Found

\* Nothing but files, until DB::Open is through.
NoMemory ==
  db.status # "open" =>
    /\ db.mem = {} /\ db.imm = {} /\ ~db.hasImm /\ ~db.error
    /\ ~Live /\ ~Starting => Named(db) = {}

\* What the manifest and the logs hold is in the new version or in a log still to be
\* replayed.
Replaying ==
  db.status = "replaying" =>
    Found \subseteq TableEntries(Named(db)) \cup UNION {LogEntries(disk.logs[n]) : n \in db.replay}

\* After the replay all of it is in the new version, and the new log is empty.
AllReplayed ==
  db.status \in {"saving", "pointing"} =>
    Found \subseteq TableEntries(Named(db)) /\ disk.logs[db.log] = EmptyLog

\* The queue: pending writes, each once; the group is its beginning, and asks for
\* sync if one of its members does.
QueueInv ==
  LET q == writing.queue  g == writing.group IN
  /\ \A i, j \in DOMAIN q : q[i] = q[j] => i = j
  /\ \A i \in DOMAIN q : answered[q[i]] = "none"
  /\ writing.at # "idle" => Len(g) \in 1..Len(q) /\ \A i \in 1..Len(g) : g[i] = q[i]
  /\ writing.at = "idle" => g = <<>>
  /\ \A i \in DOMAIN g : g[i] \in Synced => g[1] \in Synced

\* The log in use: in step, the record of the group at its end, and nothing of the
\* memtable on its way out.
LogInv ==
  Live =>
    LET log == disk.logs[db.logfile] IN
    /\ log.inStep
    /\ \A e \in LogEntries(log) : e \notin db.imm
    /\ Recorded => log.records # <<>> /\ log.records[Len(log.records)] = GroupRecord
    /\ writing.at = "insert" /\ writing.group[1] \in Synced => log.synced = Len(log.records)
    /\ ~db.error => LogEntries(log) \subseteq db.mem \cup GroupEntries

\* An older log that is kept is that of the memtable on its way out; one that the
\* manifest has passed is in its tables.
ImmInv ==
  /\ ~db.hasImm => db.imm = {}
  /\ Live => db.log <= Current.log
  /\ Live /\ bg.at = "installing" => Current.log = db.logfile
  /\ Live => \A n \in DOMAIN disk.logs :
       db.log <= n /\ n < Current.log => LogEntries(disk.logs[n]) \subseteq TableEntries(Named(Current))
  /\ Live => \A n \in DOMAIN disk.logs :
       db.log <= n /\ n < db.logfile => LogEntries(disk.logs[n]) \subseteq db.imm

\* The manifest says what the version says, or is one edit ahead of it.
ManifestInv ==
  Live /\ ~db.error =>
    IF bg.at \in {"installing", "mergeInstalling"}
    THEN /\ Named(Current) = (Named(db) \ bg.edit.inputs) \cup Named(bg.edit)
         /\ Current.log = bg.edit.log
    ELSE Named(Current) = Named(db) /\ Current.log = db.log

\* Numbers of sequence, of the manifest and of the edit.
SequenceInv ==
  /\ Live => Current.last <= db.last
  /\ db.status = "open" => UpTo(Found \ GroupEntries, db.last)
  /\ bg.at \in {"logging", "mergeLogging"} =>
       /\ Current.last <= bg.edit.last /\ bg.edit.last <= db.last
       /\ UpTo(TableEntries(Named(bg.edit)), bg.edit.last)

\* What the thread has made holds what it was made of, which the manifest names until
\* it names that.
OutputInv ==
  /\ bg.inputs # {} /\ bg.output \in DOMAIN disk.tables =>
       disk.tables[bg.output] = TableEntries(bg.inputs)
  /\ bg.at # "mergeInstalling" => bg.inputs \subseteq Named(Current)
  /\ bg.at \in {"logging", "installing"} => disk.tables[bg.table] = db.imm

\* What was answered with success is found, and what asked for sync is firm.
AckInv ==
  \A w \in Writes : answered[w] = "ok" =>
    /\ ~Crashed => w \in WritesOf(Found)
    /\ w \in Synced => w \in WritesOf(Firm)

\* What files, memory, queue and answers say of each other.
Contained ==
  /\ Readability /\ Entitled /\ VersionTables /\ NoMemory /\ Replaying /\ AllReplayed
  /\ QueueInv /\ LogInv /\ ImmInv /\ ManifestInv /\ SequenceInv /\ OutputInv /\ AckInv
  /\ left.damage = MaxDamage /\ left.crashes <= MaxCrashes

\* The inductive invariant, as long as nothing is damaged.
Inv == TypeInv /\ Contained

-----------------------------------------------------------------------------
(* What the files hold: steps that leave it as it is.                      *)

\* The records that a reader of the manifest would replay.
LEMMA RecordsAre ==
  RecordsToReplay = UNION {ToSet(disk.logs[n].records) : n \in LogsToReplay(Current)}
BY DEF RecordsToReplay, Current

\* And after a step.
LEMMA RecordsAreNext ==
  RecordsToReplay' = (UNION {ToSet(disk.logs[n].records) : n \in LogsToReplay(Current)})'
BY DEF RecordsToReplay, Current

\* Tables and logs that a reader of the manifest would open are the same.
LEMMA FoundOf ==
  ASSUME Named(Current') = Named(Current), Current'.log = Current.log,
         \A n \in Named(Current) : disk'.tables[n] = disk.tables[n],
         \A n \in DOMAIN disk.logs : n >= Current.log =>
           n \in DOMAIN disk'.logs /\ disk'.logs[n] = disk.logs[n],
         \A n \in DOMAIN disk'.logs : n >= Current.log => n \in DOMAIN disk.logs
  PROVE  Found' = Found /\ Firm' = Firm /\ StoreKept
<1>1. TableEntries(Named(Current))' = TableEntries(Named(Current))
  BY DEF TableEntries
<1>2. LogsFrom(Current.log)' = LogsFrom(Current.log)
  <2> DEFINE S == {j \in DOMAIN disk.logs : j >= Current.log}
  <2>1. {j \in DOMAIN disk'.logs : j >= Current'.log} = S
    OBVIOUS
  <2>2. \A j \in S : disk'.logs[j] = disk.logs[j]
    OBVIOUS
  <2>3. UNION {LogEntries(disk'.logs[k]) : k \in S} = UNION {LogEntries(disk.logs[k]) : k \in S}
    BY <2>2
  <2> QED
    BY <2>1, <2>3 DEF LogsFrom
<1>3. (UNION {FirmEntries(disk.logs[n]) : n \in LogsToReplay(Current)})'
        = UNION {FirmEntries(disk.logs[n]) : n \in LogsToReplay(Current)}
  <2>1. LogsToReplay(Current)' = LogsToReplay(Current)
    BY DEF LogsToReplay
  <2>2. \A j \in LogsToReplay(Current) : disk'.logs[j] = disk.logs[j]
    BY DEF LogsToReplay
  <2>3. UNION {FirmEntries(disk'.logs[n]) : n \in LogsToReplay(Current)}
          = UNION {FirmEntries(disk.logs[n]) : n \in LogsToReplay(Current)}
    BY <2>2
  <2> QED
    BY <2>1, <2>3
<1>4. StoreKept
  <2>1. LogsToReplay(Current)' = LogsToReplay(Current)
    BY DEF LogsToReplay
  <2>2. \A n \in LogsToReplay(Current) : ToSet(disk'.logs[n].records) = ToSet(disk.logs[n].records)
    BY DEF LogsToReplay
  <2>3. RecordsToReplay' = RecordsToReplay
    BY <2>1, <2>2, RecordsAre, RecordsAreNext
  <2> QED
    BY <1>1, <2>3 DEF StoreKept, StoredWrites, LoggedGroups, WritesOf
<1> QED
  BY <1>1, <1>2, <1>3, <1>4 DEF Found, Firm

\* Nothing is written.
LEMMA SameFiles ==
  ASSUME disk' = disk
  PROVE  /\ Current' = Current /\ Found' = Found /\ Firm' = Firm /\ StoreKept
         /\ \A S : TableEntries(S)' = TableEntries(S)
<1>1. Current' = Current
  BY DEF Current
<1> QED
  BY <1>1, FoundOf DEF TableEntries

\* What the death of the machine leaves is found.
LEMMA FirmIsFound == Firm \subseteq Found
<1>1. ASSUME NEW log PROVE FirmEntries(log) \subseteq LogEntries(log)
  BY DEF FirmEntries, LogEntries
<1>2. UNION {FirmEntries(disk.logs[n]) : n \in LogsToReplay(Current)} \subseteq LogsFrom(Current.log)
  BY <1>1 DEF LogsToReplay, LogsFrom
<1> QED
  BY <1>2 DEF Firm, Found

\* What Recoverable says is what is found, where the manifest can be read.
LEMMA FoundIsRecoverable ==
  ASSUME Readability
  PROVE  Recoverable = Found
<1>1. ~Current.corrupt /\ Named(Current) \subseteq DOMAIN disk.tables
  BY DEF Readability
<1>2. UNION {LogEntries(disk.logs[n]) : n \in LogsToReplay(Current)} = LogsFrom(Current.log)
  BY DEF LogsToReplay, LogsFrom
<1>3. Recoverable = TableEntries(Named(Current))
                      \cup UNION {LogEntries(disk.logs[n]) : n \in LogsToReplay(Current)}
  BY <1>1 DEF Recoverable, Named, Current
<1> QED
  BY <1>2, <1>3 DEF Found

\* Conjuncts of Contained that the writers' state does not enter.
FileSide ==
  /\ Readability /\ VersionTables /\ NoMemory /\ Replaying /\ AllReplayed
  /\ ImmInv /\ ManifestInv /\ OutputInv

\* And those that it does.
WriterSide == Entitled /\ QueueInv /\ LogInv /\ SequenceInv /\ AckInv

\* The faults this is about, and the machine's deaths are counted.
Budget == left.damage = MaxDamage /\ left.crashes <= MaxCrashes

\* The conjuncts, by what can disturb them.
LEMMA Sides == Contained <=> FileSide /\ WriterSide /\ Budget
BY DEF Contained, FileSide, WriterSide, Budget

\* Steps of the writers alone.
LEMMA FileSideKept ==
  ASSUME FileSide, UNCHANGED <<disk, db, bg>>
  PROVE  FileSide'
<1>1. /\ Current' = Current /\ Found' = Found /\ Firm' = Firm /\ StoreKept
      /\ \A S : TableEntries(S)' = TableEntries(S)
  BY SameFiles
<1>2. Contents' = Contents /\ Named(db)' = Named(db)
  BY DEF Contents, TableEntries, Named
<1>3. Readability' /\ VersionTables' /\ NoMemory'
  <2>1. Readability'
    BY <1>1 DEF FileSide, Readability, Live, UpTo, TableEntries
  <2>2. VersionTables'
    BY <1>1, <1>2 DEF FileSide, VersionTables, UpTo
  <2>3. NoMemory'
    BY <1>2 DEF FileSide, NoMemory, Live, Starting
  <2> QED
    BY <2>1, <2>2, <2>3
<1>4. Replaying' /\ AllReplayed'
  BY <1>1, <1>2 DEF FileSide, Replaying, AllReplayed, TableEntries
<1>5. ImmInv' /\ ManifestInv' /\ OutputInv'
  BY <1>1, <1>2 DEF FileSide, ImmInv, ManifestInv, OutputInv, Live, TableEntries
<1> QED
  BY <1>3, <1>4, <1>5 DEF FileSide

-----------------------------------------------------------------------------
(* What the files hold: steps of the writers.                              *)

\* The entries of a record are numbered from its first one on.
LEMMA EntriesAre ==
  ASSUME NEW record \in Record
  PROVE  /\ \A e \in Entries(record) :
              \E i \in 1..Len(record.writes) :
                e.seq = record.first + i - 1 /\ e.write = record.writes[i]
         /\ WritesOf(Entries(record)) = ToSet(record.writes)
<1>1. record.writes \in Seq(Writes) /\ DOMAIN record.writes = 1..Len(record.writes)
  BY DEF Record
<1>2. ASSUME NEW e \in Entries(record)
      PROVE  \E i \in 1..Len(record.writes) :
               e.seq = record.first + i - 1 /\ e.write = record.writes[i]
  BY <1>1 DEF Entries
<1>3. ASSUME NEW i \in DOMAIN record.writes
      PROVE  \E e \in Entries(record) : e.write = record.writes[i]
  <2> DEFINE e == [seq |-> record.first + i - 1, write |-> record.writes[i]]
  <2>1. e \in Entries(record) /\ e.write = record.writes[i]
    BY DEF Entries
  <2> QED
    BY <2>1
<1>4. \A e \in Entries(record) : \E i \in DOMAIN record.writes : e.write = record.writes[i]
  BY <1>1, <1>2
<1>5. {e.write : e \in Entries(record)} = {record.writes[i] : i \in DOMAIN record.writes}
  <2> HIDE DEF Entries
  <2> QED
    BY <1>3, <1>4
<1> QED
  BY <1>2, <1>5 DEF WritesOf, ToSet

\* The record of the group is of its writes, numbered from the last number on.
LEMMA GroupIs ==
  ASSUME Shape
  PROVE  /\ GroupRecord \in Record /\ GroupRecord.writes = writing.group
         /\ GroupRecord.first = db.last + 1
         /\ WritesOf(Entries(GroupRecord)) = ToSet(writing.group)
         /\ \A e \in Entries(GroupRecord) :
              /\ e.seq \in Nat /\ db.last < e.seq /\ e.seq <= db.last + Len(writing.group)
              /\ e.write \in ToSet(writing.group)
<1>1. /\ GroupRecord \in Record /\ GroupRecord.writes = writing.group
      /\ GroupRecord.first = db.last + 1 /\ db.last \in Nat /\ Len(writing.group) \in Nat
  BY DEF GroupRecord, Record, Shape, Db, WriterState
<1>2. WritesOf(Entries(GroupRecord)) = ToSet(writing.group)
  BY <1>1, EntriesAre
<1>3. ASSUME NEW e \in Entries(GroupRecord)
      PROVE  /\ e.seq \in Nat /\ db.last < e.seq /\ e.seq <= db.last + Len(writing.group)
             /\ e.write \in ToSet(writing.group)
  <2>1. PICK i \in 1..Len(writing.group) : e.seq = db.last + 1 + i - 1
    BY <1>1, EntriesAre
  <2>2. e.write \in WritesOf(Entries(GroupRecord))
    BY DEF WritesOf
  <2>3. e.write \in ToSet(writing.group)
    BY <1>2, <2>2
  <2>4. e.seq \in Nat /\ db.last < e.seq /\ e.seq <= db.last + Len(writing.group)
    BY <1>1, <2>1
  <2> QED
    BY <2>3, <2>4
<1> QED
  BY <1>1, <1>2, <1>3

\* The group of an open database is pending, and so are those behind it.
LEMMA GroupPending ==
  ASSUME Shape, QueueInv
  PROVE  \A w \in ToSet(writing.group) : w \in Writes /\ answered[w] = "none" /\ Issued(w)
<1>1. writing.queue \in Seq(Writes) /\ writing.group \in Seq(Writes)
  BY DEF Shape, WriterState
<1>2. CASE writing.group = <<>>
  BY <1>2 DEF ToSet
<1>3. CASE writing.at # "idle"
  <2>1. /\ Len(writing.group) \in 1..Len(writing.queue)
        /\ \A i \in 1..Len(writing.group) : writing.group[i] = writing.queue[i]
    BY <1>3 DEF QueueInv
  <2>2. ASSUME NEW i \in DOMAIN writing.group
        PROVE  /\ writing.group[i] \in Writes /\ answered[writing.group[i]] = "none"
               /\ Issued(writing.group[i])
    <3>1. i \in 1..Len(writing.group) /\ i \in DOMAIN writing.queue
      BY <1>1, <2>1
    <3> QED
      BY <1>1, <2>1, <3>1 DEF QueueInv, Issued
  <2> QED
    BY <2>2 DEF ToSet
<1> QED
  BY <1>2, <1>3 DEF QueueInv

\* A finished group leaves a queue of pending writes.
LEMMA FinishQueue ==
  ASSUME Shape, QueueInv, NEW group \in Seq(Writes), NEW status \in {"ok", "error"},
         Len(group) \in 1..Len(writing.queue),
         \A i \in 1..Len(group) : group[i] = writing.queue[i], Finish(group, status)
  PROVE  QueueInv'
<1> DEFINE q == writing.queue  k == Len(group)
<1>1. /\ writing'.queue = SubSeq(q, k + 1, Len(q)) /\ writing'.at = "idle"
      /\ writing'.group = <<>>
      /\ \A w \in Writes : answered'[w] = IF w \in ToSet(group) THEN status ELSE answered[w]
  BY FinishDoes
<1>2. q \in Seq(Writes) /\ k \in Nat /\ Len(q) \in Nat /\ k <= Len(q)
  BY DEF Shape, WriterState
<1> HIDE DEF q, k
<1>3. /\ DOMAIN writing'.queue = 1..(Len(q) - k)
      /\ \A i \in 1..(Len(q) - k) : writing'.queue[i] = q[i + k]
  BY <1>1, <1>2
<1>4. /\ \A i, j \in 1..Len(q) : q[i] = q[j] => i = j
      /\ \A i \in 1..Len(q) : answered[q[i]] = "none" /\ q[i] \in Writes
  BY <1>2 DEF QueueInv, q
<1>5. ASSUME NEW i \in 1..(Len(q) - k)
      PROVE  i + k \in 1..Len(q) /\ answered'[q[i + k]] = "none"
  <2>1. i + k \in 1..Len(q) /\ ~(i + k \in 1..k)
    BY <1>2
  <2>2. q[i + k] \notin ToSet(group)
    <3>1. ASSUME NEW j \in DOMAIN group, group[j] = q[i + k] PROVE FALSE
      <4>1. j \in 1..k /\ j \in 1..Len(q) /\ q[j] = q[i + k]
        BY <1>2, <3>1 DEF q, k
      <4> QED
        BY <1>4, <2>1, <4>1
    <3> QED
      BY <3>1 DEF ToSet
  <2> QED
    BY <1>1, <1>4, <2>1, <2>2
<1>6. ASSUME NEW i \in 1..(Len(q) - k), NEW j \in 1..(Len(q) - k), q[i + k] = q[j + k]
      PROVE  i = j
  <2>1. i + k = j + k
    BY <1>4, <1>5, <1>6
  <2> QED
    BY <1>2, <2>1
<1>7. /\ \A i, j \in DOMAIN writing'.queue : writing'.queue[i] = writing'.queue[j] => i = j
      /\ \A i \in DOMAIN writing'.queue : answered'[writing'.queue[i]] = "none"
  BY <1>3, <1>5, <1>6
<1>8. \A i \in DOMAIN writing'.group :
        writing'.group[i] \in Synced => writing'.group[1] \in Synced
  BY <1>1
<1> QED
  BY <1>1, <1>7, <1>8 DEF QueueInv

\* A new writer is pending and not yet in the queue.
LEMMA WriteKeepsQueue ==
  ASSUME Shape, QueueInv, NEW w \in Writes, Write(w)
  PROVE  QueueInv'
<1> DEFINE q == writing.queue  g == writing.group
<1>1. /\ writing'.queue = Append(q, w) /\ writing'.at = writing.at /\ writing'.group = g
      /\ answered' = answered /\ answered[w] = "none" /\ \A i \in DOMAIN q : q[i] # w
  BY DEF Write, Issued, Shape, WriterState
<1>2. q \in Seq(Writes) /\ Len(q) \in Nat /\ g \in Seq(Writes)
  BY DEF Shape, WriterState
<1>3. /\ \A i, j \in DOMAIN q : q[i] = q[j] => i = j
      /\ \A i \in DOMAIN q : answered[q[i]] = "none"
      /\ writing.at # "idle" => Len(g) \in 1..Len(q) /\ \A i \in 1..Len(g) : g[i] = q[i]
      /\ writing.at = "idle" => g = <<>>
      /\ \A i \in DOMAIN g : g[i] \in Synced => g[1] \in Synced
  BY DEF QueueInv
<1> HIDE DEF q, g
<1>4. /\ Len(Append(q, w)) = Len(q) + 1 /\ DOMAIN Append(q, w) = 1..(Len(q) + 1)
      /\ \A i \in 1..Len(q) : Append(q, w)[i] = q[i] /\ Append(q, w)[Len(q) + 1] = w
      /\ Append(q, w)[Len(q) + 1] = w /\ DOMAIN q = 1..Len(q)
  BY <1>2
<1>5. ASSUME NEW i \in 1..(Len(q) + 1), NEW j \in 1..(Len(q) + 1),
             Append(q, w)[i] = Append(q, w)[j]
      PROVE  i = j
  <2>1. i \in 1..Len(q) \/ i = Len(q) + 1
    BY <1>2
  <2>2. j \in 1..Len(q) \/ j = Len(q) + 1
    BY <1>2
  <2> QED
    BY <1>1, <1>3, <1>4, <1>5, <2>1, <2>2
<1>6. ASSUME NEW i \in 1..(Len(q) + 1)
      PROVE  answered[Append(q, w)[i]] = "none"
  <2>1. i \in 1..Len(q) \/ i = Len(q) + 1
    BY <1>2
  <2> QED
    BY <1>1, <1>3, <1>4, <2>1
<1>7. writing.at # "idle" =>
        Len(g) \in 1..(Len(q) + 1) /\ \A i \in 1..Len(g) : g[i] = Append(q, w)[i]
  <2>1. ASSUME writing.at # "idle", NEW i \in 1..Len(g) PROVE i \in 1..Len(q)
    BY <1>2, <1>3, <2>1
  <2> QED
    BY <1>2, <1>3, <1>4, <2>1
<1> QED
  BY <1>1, <1>3, <1>4, <1>5, <1>6, <1>7 DEF QueueInv

\* Nothing of the group is in the log before it is appended.
LEMMA NoGroup ==
  ASSUME ~Recorded
  PROVE  GroupEntries = {}
BY DEF GroupEntries

\* A group that stays keeps its record.
LEMMA SameGroup ==
  ASSUME writing'.at = writing.at, writing'.group = writing.group, db'.last = db.last
  PROVE  /\ Recorded' <=> Recorded
         /\ GroupRecord' = GroupRecord /\ GroupEntries' = GroupEntries
<1>1. (Recorded' <=> Recorded) /\ GroupRecord' = GroupRecord
  BY DEF Recorded, GroupRecord
<1> QED
  BY <1>1 DEF GroupEntries

\* Where nothing found is lost and nothing new is answered.
LEMMA AckKept ==
  ASSUME AckInv, Found \subseteq Found', Firm \subseteq Firm', left'.crashes = left.crashes,
         \A w \in Writes : answered'[w] = "ok" => answered[w] = "ok"
  PROVE  AckInv'
BY DEF AckInv, Crashed, WritesOf

\* Where nothing new is found.
LEMMA EntitledKept ==
  ASSUME Entitled, Found' \subseteq Found,
         \A e \in Found : answered'[e.write] = "none" =>
           answered[e.write] = "none" /\ (e \in GroupEntries => e \in GroupEntries')
  PROVE  Entitled'
BY DEF Entitled, Unique

\* What is found is entries.
LEMMA FoundType ==
  ASSUME TypeInv, Readability
  PROVE  Found \subseteq Entry
<1>1. disk \in Disk /\ disk.logs \in Files(Log) /\ Named(Current) \subseteq DOMAIN disk.tables
  BY DEF TypeInv, Shape, Disk, Readability
<1>2. TableEntries(Named(Current)) \in SUBSET Entry
  BY <1>1, TableEntriesType
<1>3. \A n \in DOMAIN disk.logs : LogEntries(disk.logs[n]) \subseteq Entry
  BY <1>1, FileOf, LogEntriesType
<1> QED
  BY <1>2, <1>3 DEF Found, LogsFrom

\* The group of the first writer is a beginning of the queue.
LEMMA StartGroupQueue ==
  ASSUME Shape, QueueInv, writing.queue # <<>>, StartGroup, answered' = answered
  PROVE  QueueInv'
<1> DEFINE g == BatchGroup
<1>1. /\ g \in Seq(Writes) /\ Len(g) \in 1..Len(writing.queue)
      /\ g = SubSeq(writing.queue, 1, Len(g))
      /\ \A i \in DOMAIN g : g[i] \in Synced => g[1] \in Synced
  BY BatchGroupIs
<1>2. /\ writing'.queue = writing.queue /\ writing'.at = "append" /\ writing'.group = g
      /\ writing.queue \in Seq(Writes)
  BY DEF StartGroup, Shape, WriterState
<1> HIDE DEF g
<1>3. \A i \in 1..Len(g) : g[i] = writing.queue[i]
  <2> DEFINE k == Len(g)
  <2>1. k \in 1..Len(writing.queue) /\ g = SubSeq(writing.queue, 1, k)
    BY <1>1
  <2> HIDE DEF k
  <2>2. \A i \in 1..k : g[i] = writing.queue[i]
    BY <1>2, <2>1
  <2> QED
    BY <2>2 DEF k
<1> QED
  BY <1>1, <1>2, <1>3 DEF QueueInv

\* DBImpl::Write and MakeRoomForWrite up to a group or a sleep.
LEMMA QueueStepContained ==
  ASSUME Inv, NEW w \in Writes,
         Write(w) \/ WriteFails(w) \/ WriteHasRoom(w) \/ WriteWaits(w) \/ SwitchFails(w)
  PROVE  Contained' /\ Found' = Found /\ StoreKept
<1>1. TypeInv /\ Shape /\ FileSide /\ WriterSide /\ Budget
  BY Sides DEF Inv, TypeInv
<1>2. UNCHANGED <<disk, db, bg>>
  BY DEF Write, WriteFails, WriteHasRoom, WriteWaits, SwitchFails
<1>3. /\ FileSide' /\ Found' = Found /\ Firm' = Firm /\ StoreKept /\ Current' = Current
      /\ \A S : TableEntries(S)' = TableEntries(S)
  BY <1>1, <1>2, FileSideKept, SameFiles
<1>4. left'.crashes = left.crashes /\ left'.damage = left.damage
  BY <1>1, LeftTypes DEF Write, WriteFails, WriteHasRoom, WriteWaits, SwitchFails, Shape
<1>5. \/ /\ writing'.at = writing.at /\ writing'.group = writing.group
         /\ answered' = answered
      \/ /\ writing.at = "idle" /\ writing'.at = "idle" /\ Finish(<<w>>, "error")
      \/ writing.at = "idle" /\ writing'.at = "append" /\ answered' = answered
  <2>1. CASE Write(w)
    BY <1>1, <2>1 DEF Write, Shape, WriterState
  <2>2. CASE WriteFails(w) \/ SwitchFails(w)
    <3>1. writing.at = "idle" /\ Finish(<<w>>, "error")
      BY <2>2 DEF WriteFails, SwitchFails, First
    <3>2. <<w>> \in Seq(Writes)
      OBVIOUS
    <3> QED
      BY <1>1, <3>1, <3>2, FinishDoes
  <2>3. CASE WriteHasRoom(w)
    BY <1>1, <2>3 DEF WriteHasRoom, StartGroup, First, Shape, WriterState
  <2>4. CASE WriteWaits(w)
    BY <1>1, <2>4 DEF WriteWaits, First, Shape, WriterState
  <2> QED
    BY <2>1, <2>2, <2>3, <2>4
<1>6. <<w>> \in Seq(Writes) /\ ToSet(<<w>>) = {w} /\ Len(<<w>>) = 1
  BY DEF ToSet
<1>7. QueueInv'
  <2>1. QueueInv /\ writing.queue \in Seq(Writes)
    BY <1>1 DEF WriterSide, Shape, WriterState
  <2>2. CASE Write(w)
    BY <1>1, <2>1, <2>2, WriteKeepsQueue
  <2>3. CASE WriteFails(w) \/ SwitchFails(w)
    <3>1. /\ Finish(<<w>>, "error") /\ w = Head(writing.queue) /\ writing.queue # <<>>
      BY <2>3 DEF WriteFails, SwitchFails, First
    <3>2. Len(<<w>>) \in 1..Len(writing.queue) /\ \A i \in 1..Len(<<w>>) : <<w>>[i] = writing.queue[i]
      BY <2>1, <3>1
    <3> QED
      BY <1>1, <1>6, <2>1, <3>1, <3>2, FinishQueue
  <2>4. CASE WriteHasRoom(w)
    <3>1. /\ writing'.queue = writing.queue /\ writing'.at = "append"
          /\ writing'.group = BatchGroup /\ answered' = answered /\ writing.queue # <<>>
      BY <1>1, <2>4 DEF WriteHasRoom, StartGroup, First, Shape, WriterState
    <3> QED
      BY <1>1, <2>1, <2>4, <3>1, StartGroupQueue DEF WriteHasRoom, First
  <2>5. CASE WriteWaits(w)
    <3>1. /\ writing'.queue = writing.queue /\ writing'.at = writing.at
          /\ writing'.group = writing.group /\ answered' = answered
      BY <1>1, <2>5 DEF WriteWaits, Shape, WriterState
    <3> QED
      BY <2>1, <3>1 DEF QueueInv
  <2> QED
    BY <2>2, <2>3, <2>4, <2>5
<1>8. /\ GroupEntries' = GroupEntries /\ (Recorded' <=> Recorded)
      /\ Recorded => GroupRecord' = GroupRecord /\ writing'.at = writing.at
                     /\ writing'.group = writing.group
  <2>1. CASE writing'.at = writing.at /\ writing'.group = writing.group
    BY <1>2, <2>1, SameGroup
  <2>2. CASE writing.at = "idle" /\ writing'.at \in {"idle", "append"}
    <3>1. ~Recorded /\ ~Recorded'
      BY <2>2 DEF Recorded
    <3>2. GroupEntries = {} /\ GroupEntries' = {}
      BY <3>1, NoGroup DEF GroupEntries
    <3> QED
      BY <3>1, <3>2
  <2> QED
    BY <1>5, <2>1, <2>2
<1>9. \A v \in Writes : /\ answered'[v] = "none" => answered[v] = "none"
                        /\ answered'[v] = "ok" => answered[v] = "ok"
  <2>1. CASE answered' = answered
    BY <2>1
  <2>2. CASE Finish(<<w>>, "error")
    BY <1>1, <1>6, <2>2, FinishDoes
  <2> QED
    BY <1>5, <2>1, <2>2
<1>10. Entitled' /\ AckInv'
  <2>1. Found \subseteq Entry
    BY <1>1, FoundType DEF FileSide
  <2> QED
    BY <1>1, <1>3, <1>4, <1>8, <1>9, <2>1, EntitledKept, AckKept DEF WriterSide, Entry
<1>11. LogInv'
  <2>1. writing'.at = "insert" => Recorded
    BY <1>8 DEF Recorded
  <2> QED
    BY <1>1, <1>2, <1>8, <2>1 DEF WriterSide, LogInv, Live
<1>12. SequenceInv'
  BY <1>1, <1>2, <1>3, <1>8 DEF WriterSide, SequenceInv, Live, UpTo
<1> QED
  BY <1>1, <1>3, <1>4, <1>7, <1>10, <1>11, <1>12, Sides DEF WriterSide, Budget, Contained, FileSide

\* What the steps of the background thread and of DB::Open leave alone.
LEMMA WriterSideKept ==
  ASSUME TypeInv, WriterSide, Readability,
         writing'.queue = writing.queue, writing'.at = writing.at,
         writing'.group = writing.group, answered' = answered, left'.crashes = left.crashes,
         db'.last = db.last, db'.status = db.status, Found' = Found, Firm \subseteq Firm',
         Live => /\ disk'.logs[db.logfile] = disk.logs[db.logfile]
                 /\ db'.logfile = db.logfile /\ db'.mem = db.mem /\ (db.error => db'.error)
                 /\ db'.imm \subseteq db.imm
  PROVE  /\ Entitled' /\ QueueInv' /\ LogInv' /\ AckInv'
         /\ db'.status = "open" => UpTo(Found' \ GroupEntries', db'.last)
<1>1. /\ Recorded' <=> Recorded
      /\ GroupRecord' = GroupRecord /\ GroupEntries' = GroupEntries
  BY SameGroup
<1>2. Entitled' /\ AckInv'
  BY <1>1, EntitledKept, AckKept DEF WriterSide
<1>3. QueueInv'
  BY DEF WriterSide, QueueInv
<1>4. LogInv'
  <2>1. Live' <=> Live
    BY DEF Live
  <2> QED
    BY <1>1, <2>1 DEF WriterSide, LogInv
<1>5. db'.status = "open" => UpTo(Found' \ GroupEntries', db'.last)
  BY <1>1 DEF WriterSide, SequenceInv
<1> QED
  BY <1>2, <1>3, <1>4, <1>5

\* A new log has no entries.
LEMMA EmptyLogHasNone == LogEntries(EmptyLog) = {} /\ FirmEntries(EmptyLog) = {}
BY DEF EmptyLog, LogEntries, FirmEntries

\* A new log has nothing to be found.
LEMMA EmptyLogFinds ==
  ASSUME NEW k, k \notin DOMAIN disk.logs, k >= Current.log,
         DOMAIN disk'.logs = DOMAIN disk.logs \cup {k}, disk'.logs[k] = EmptyLog,
         \A m \in DOMAIN disk.logs : m # k => disk'.logs[m] = disk.logs[m],
         disk'.tables = disk.tables, Current' = Current
  PROVE  Found' = Found /\ Firm' = Firm /\ StoreKept
<1> DEFINE S == {j \in DOMAIN disk.logs : j >= Current.log}
<1>1. /\ {j \in DOMAIN disk'.logs : j >= Current'.log} = S \cup {k}
      /\ \A j \in S : disk'.logs[j] = disk.logs[j]
  OBVIOUS
<1>2. UNION {LogEntries(disk'.logs[j]) : j \in S \cup {k}}
        = UNION {LogEntries(disk.logs[j]) : j \in S}
  BY <1>1, EmptyLogHasNone
<1>3. UNION {FirmEntries(disk'.logs[j]) : j \in S \cup {k}}
        = UNION {FirmEntries(disk.logs[j]) : j \in S}
  BY <1>1, EmptyLogHasNone
<1>4. TableEntries(Named(Current))' = TableEntries(Named(Current))
  BY DEF TableEntries
<1>5. Found' = Found
  BY <1>1, <1>2, <1>4 DEF Found, LogsFrom
<1>6. Firm' = Firm
  BY <1>1, <1>3, <1>4 DEF Firm, LogsToReplay
<1>7. StoreKept
  <2>1. LogsToReplay(Current)' = LogsToReplay(Current) \cup {k}
    BY <1>1 DEF LogsToReplay
  <2>2. \A n \in LogsToReplay(Current) : ToSet(disk'.logs[n].records) = ToSet(disk.logs[n].records)
    BY DEF LogsToReplay
  <2>3. ToSet(disk'.logs[k].records) = {}
    BY DEF EmptyLog, ToSet
  <2>4. RecordsToReplay' = RecordsToReplay
    BY <2>1, <2>2, <2>3, RecordsAre, RecordsAreNext
  <2> QED
    BY <1>4, <2>4 DEF StoreKept, StoredWrites, LoggedGroups, WritesOf
<1> QED
  BY <1>5, <1>6, <1>7

\* MakeRoomForWrite makes the memtable the one on its way out and opens a new log.
LEMMA SwitchContained ==
  ASSUME Inv, NEW w \in Writes, SwitchMemTable(w)
  PROVE  Contained' /\ Found' = Found /\ StoreKept
<1>1. TypeInv /\ Shape /\ FileSide /\ WriterSide /\ Budget /\ disk \in Disk /\ db \in Db
  BY Sides DEF Inv, TypeInv, Shape
<1>2. /\ db.status = "open" /\ Live /\ writing.at = "idle" /\ ~db.error /\ db.hasImm = FALSE
      /\ writing.queue # <<>> /\ StartGroup
      /\ disk' = [disk EXCEPT !.logs = With(@, db.next, EmptyLog)]
      /\ db' = [db EXCEPT !.next = @ + 1, !.logfile = db.next,
                          !.imm = db.mem, !.hasImm = TRUE, !.mem = {}]
      /\ bg' = IF bg.at = "none" THEN Scheduled(db') ELSE bg
      /\ UNCHANGED <<answered, left>>
  BY <1>1 DEF SwitchMemTable, First, Open, Live, Stopped, Db
<1>3. EmptyLog \in Log /\ db.next \in Nat /\ EmptyLog.records = <<>>
  BY <1>1, NumberTypes DEF EmptyLog, Log
<1>4. /\ disk' \in Disk /\ disk'.tables = disk.tables
      /\ disk'.manifests = disk.manifests /\ disk'.current = disk.current
      /\ DOMAIN disk'.logs = DOMAIN disk.logs \cup {db.next}
      /\ disk'.logs[db.next] = EmptyLog
      /\ \A m \in DOMAIN disk.logs : m # db.next => disk'.logs[m] = disk.logs[m]
  BY <1>1, <1>2, <1>3, AddLog
<1>5. /\ db'.status = "open" /\ db'.mem = {} /\ db'.imm = db.mem /\ db'.hasImm = TRUE
      /\ db'.last = db.last /\ db'.logfile = db.next /\ db'.log = db.log
      /\ db'.l0 = db.l0 /\ db'.l1 = db.l1 /\ db'.error = db.error
  BY <1>1, <1>2 DEF Db
<1>6. /\ Current' = Current /\ Named(db') = Named(db)
      /\ \A S : TableEntries(S)' = TableEntries(S)
  BY <1>4, <1>5 DEF Current, Named, TableEntries
<1>7. db.next \notin DOMAIN disk.logs /\ Current.log < db.next
  <2>1. /\ Current.log <= db.logfile /\ db.logfile < db.next
        /\ \A n \in DOMAIN disk.logs : n <= db.logfile
    BY <1>1, <1>2 DEF TypeInv, Numbers, LiveNumbers
  <2>2. Current.log \in Nat /\ db.logfile \in Nat /\ DOMAIN disk.logs \in SUBSET Nat
    BY <1>1, NumberTypes
  <2> QED
    BY <1>3, <2>1, <2>2
<1>8. LogEntries(EmptyLog) = {}
  BY EmptyLogHasNone
<1>9. Found' = Found /\ Firm' = Firm /\ StoreKept
  <2>1. db.next >= Current.log
    <3>1. Current.log \in Nat
      BY <1>1, NumberTypes
    <3> QED
      BY <1>3, <1>7, <3>1
  <2> QED
    BY <1>4, <1>6, <1>7, <2>1, EmptyLogFinds
<1>10. /\ ~Dumping
       /\ \/ bg' = bg
          \/ bg'.at \in {"none", "scheduled"} /\ bg'.inputs = {} /\ bg.at = "none"
  BY <1>1, <1>2, ScheduledIs DEF TypeInv, Numbers, BgNumbers
<1>11. db.imm = {} /\ Contents' = Contents
  <2>1. db.imm = {}
    BY <1>1, <1>2 DEF FileSide, ImmInv
  <2> QED
    BY <1>5, <1>6, <2>1 DEF Contents, Named, TableEntries
<1>12. ~Recorded /\ ~Recorded' /\ GroupEntries = {} /\ GroupEntries' = {}
       /\ writing'.at = "append"
  <2>1. writing'.at = "append"
    BY <1>1, <1>2 DEF StartGroup, Shape, WriterState
  <2> QED
    BY <1>2, <2>1, NoGroup DEF Recorded, GroupEntries
<1>13. FileSide'
  <2>1. Readability' /\ VersionTables'
    BY <1>1, <1>2, <1>4, <1>5, <1>6, <1>9, <1>11
       DEF FileSide, Readability, VersionTables, Live, UpTo
  <2>2. NoMemory' /\ Replaying' /\ AllReplayed'
    BY <1>5 DEF NoMemory, Replaying, AllReplayed
  <2>3. ImmInv'
    <3>1. ASSUME NEW n \in DOMAIN disk'.logs, db.log <= n, n < db.next
          PROVE  LogEntries(disk'.logs[n]) \subseteq db.mem
      <4>1. n \in DOMAIN disk.logs /\ n # db.next /\ n \in Nat /\ n <= db.logfile
        BY <1>1, <1>2, <1>4, <3>1, NumberTypes DEF TypeInv, Numbers, LiveNumbers
      <4>2. CASE n = db.logfile
        BY <1>1, <1>2, <1>4, <1>12, <4>1, <4>2 DEF WriterSide, LogInv
      <4>3. CASE n < db.logfile
        BY <1>1, <1>2, <1>4, <1>11, <3>1, <4>1, <4>3 DEF FileSide, ImmInv
      <4>4. db.logfile \in Nat
        BY <1>1, NumberTypes
      <4> QED
        BY <4>1, <4>2, <4>3, <4>4
    <3>2. ASSUME NEW n \in DOMAIN disk'.logs, db.log <= n, n < Current.log
          PROVE  LogEntries(disk'.logs[n]) \subseteq TableEntries(Named(Current))
      <4>1. n \in DOMAIN disk.logs /\ n # db.next
        BY <1>1, <1>4, <1>7, <3>2, NumberTypes
      <4> QED
        BY <1>1, <1>2, <1>4, <3>2, <4>1 DEF FileSide, ImmInv
    <3>3. bg'.at # "installing"
      BY <1>10 DEF Dumping
    <3>4. db.log <= Current.log
      BY <1>1, <1>2 DEF FileSide, ImmInv
    <3> QED
      BY <1>5, <1>6, <3>1, <3>2, <3>3, <3>4 DEF ImmInv
  <2>4. ManifestInv'
    BY <1>1, <1>2, <1>5, <1>6, <1>10 DEF FileSide, ManifestInv, Live, Dumping
  <2>5. OutputInv'
    BY <1>1, <1>4, <1>6, <1>10 DEF FileSide, OutputInv, Dumping, TableEntries
  <2> QED
    BY <2>1, <2>2, <2>3, <2>4, <2>5 DEF FileSide
<1>14. Entitled' /\ AckInv'
  BY <1>1, <1>2, <1>9, <1>12, EntitledKept, AckKept DEF WriterSide
<1>15. QueueInv'
  BY <1>1, <1>2, StartGroupQueue DEF WriterSide
<1>16. LogInv'
  <2>1. EmptyLog.inStep
    BY DEF EmptyLog
  <2> QED
    BY <1>3, <1>4, <1>5, <1>8, <1>12, <2>1 DEF LogInv
<1>17. SequenceInv'
  BY <1>1, <1>2, <1>4, <1>5, <1>6, <1>9, <1>10, <1>12
     DEF WriterSide, SequenceInv, Live, UpTo, Dumping
<1> QED
  BY <1>1, <1>2, <1>9, <1>13, <1>14, <1>15, <1>16, <1>17, Sides
     DEF WriterSide, Budget, Contained, FileSide

\* A record behind the others is found, and is not firm before the sync.
LEMMA AppendedEntries ==
  ASSUME NEW log \in Log, log.synced <= Len(log.records), NEW record \in Record,
         NEW new, new.records = Append(log.records, record), new.synced = log.synced
  PROVE  /\ FirmEntries(new) = FirmEntries(log)
         /\ LogEntries(new) = LogEntries(log) \cup Entries(record)
<1> DEFINE r == log.records  s == Append(r, record)  n == Len(r)
<1>1. /\ r \in Seq(Record) /\ n \in Nat /\ log.synced \in Nat /\ log.synced <= n
      /\ new.records = s /\ new.synced = log.synced
  BY DEF Log
<1> HIDE DEF r, n
<1>2. /\ DOMAIN r = 1..n /\ DOMAIN s = 1..(n + 1) /\ s[n + 1] = record
      /\ \A i \in 1..n : s[i] = r[i]
  BY <1>1 DEF n
<1> HIDE DEF s
<1>3. DOMAIN s = DOMAIN r \cup {n + 1}
  BY <1>1, <1>2
<1>4. ASSUME NEW i \in DOMAIN r PROVE Entries(s[i]) = Entries(r[i])
  BY <1>2
<1>5. FirmEntries(new) = FirmEntries(log)
  <2>1. DOMAIN s \cap 1..log.synced = DOMAIN r \cap 1..log.synced
    BY <1>1, <1>2
  <2>2. UNION {Entries(s[i]) : i \in DOMAIN r \cap 1..log.synced}
          = UNION {Entries(r[i]) : i \in DOMAIN r \cap 1..log.synced}
    BY <1>4
  <2> QED
    BY <1>1, <2>1, <2>2 DEF FirmEntries, r
<1>6. LogEntries(new) = LogEntries(log) \cup Entries(record)
  <2>1. UNION {Entries(s[i]) : i \in DOMAIN r} = LogEntries(log)
    BY <1>4 DEF LogEntries, r
  <2>2. UNION {Entries(s[i]) : i \in DOMAIN r \cup {n + 1}}
          = (UNION {Entries(s[i]) : i \in DOMAIN r}) \cup Entries(s[n + 1])
    OBVIOUS
  <2> QED
    BY <1>1, <1>2, <1>3, <2>1, <2>2 DEF LogEntries
<1> QED
  BY <1>5, <1>6

\* The files are the same except for what is behind the synced records of logs.
LEMMA LogsChanged ==
  ASSUME disk'.tables = disk.tables, Named(Current') = Named(Current),
         Current'.log = Current.log, DOMAIN disk'.logs = DOMAIN disk.logs
  PROVE  /\ (\A n \in DOMAIN disk.logs : LogEntries(disk'.logs[n]) = LogEntries(disk.logs[n]))
              => Found' = Found
         /\ (\A n \in DOMAIN disk.logs : disk'.logs[n].records = disk.logs[n].records)
              => StoreKept
         /\ (\A n \in DOMAIN disk.logs : LogEntries(disk'.logs[n]) \subseteq LogEntries(disk.logs[n]))
              => Found' \subseteq Found
         /\ (\A n \in DOMAIN disk.logs : FirmEntries(disk.logs[n]) \subseteq FirmEntries(disk'.logs[n]))
              => Firm \subseteq Firm'
         /\ \A k \in DOMAIN disk.logs : \A S :
              /\ k >= Current.log /\ LogEntries(disk'.logs[k]) = LogEntries(disk.logs[k]) \cup S
              /\ \A n \in DOMAIN disk.logs : n # k => LogEntries(disk'.logs[n]) = LogEntries(disk.logs[n])
              => Found' = Found \cup S
<1>1. TableEntries(Named(Current))' = TableEntries(Named(Current))
  BY DEF TableEntries
<1>2. /\ Found = TableEntries(Named(Current))
                   \cup UNION {LogEntries(disk.logs[k]) : k \in {j \in DOMAIN disk.logs : j >= Current.log}}
      /\ Found' = TableEntries(Named(Current))
                   \cup UNION {LogEntries(disk'.logs[k]) : k \in {j \in DOMAIN disk.logs : j >= Current.log}}
  BY <1>1 DEF Found, LogsFrom
<1>3. /\ Firm = TableEntries(Named(Current))
                   \cup UNION {FirmEntries(disk.logs[k]) : k \in LogsToReplay(Current)}
      /\ Firm' = TableEntries(Named(Current))
                   \cup UNION {FirmEntries(disk'.logs[k]) : k \in LogsToReplay(Current)}
  BY <1>1 DEF Firm, LogsToReplay
<1>4. ASSUME \A n \in DOMAIN disk.logs : LogEntries(disk'.logs[n]) = LogEntries(disk.logs[n])
      PROVE  Found' = Found
  BY <1>2, <1>4
<1>5. ASSUME \A n \in DOMAIN disk.logs : LogEntries(disk'.logs[n]) \subseteq LogEntries(disk.logs[n])
      PROVE  Found' \subseteq Found
  BY <1>2, <1>5
<1>6. ASSUME \A n \in DOMAIN disk.logs : FirmEntries(disk.logs[n]) \subseteq FirmEntries(disk'.logs[n])
      PROVE  Firm \subseteq Firm'
  BY <1>3, <1>6 DEF LogsToReplay
<1>7. ASSUME NEW k \in DOMAIN disk.logs, NEW S, k >= Current.log,
             LogEntries(disk'.logs[k]) = LogEntries(disk.logs[k]) \cup S,
             \A n \in DOMAIN disk.logs : n # k => LogEntries(disk'.logs[n]) = LogEntries(disk.logs[n])
      PROVE  Found' = Found \cup S
  <2>1. ASSUME NEW e \in Found' PROVE e \in Found \cup S
    BY <1>2, <1>7, <2>1
  <2>2. ASSUME NEW e \in Found \cup S PROVE e \in Found'
    BY <1>2, <1>7, <2>2
  <2> QED
    BY <2>1, <2>2
<1>8. ASSUME \A n \in DOMAIN disk.logs : disk'.logs[n].records = disk.logs[n].records
      PROVE  StoreKept
  <2>1. StoredWrites' = StoredWrites
    BY <1>1 DEF StoredWrites, WritesOf
  <2>2. RecordsToReplay' = RecordsToReplay
    <3>1. LogsToReplay(Current)' = LogsToReplay(Current)
      BY DEF LogsToReplay
    <3>2. \A n \in LogsToReplay(Current) : ToSet(disk'.logs[n].records) = ToSet(disk.logs[n].records)
      BY <1>8 DEF LogsToReplay
    <3> QED
      BY <3>1, <3>2, RecordsAre, RecordsAreNext
  <2> QED
    BY <2>1, <2>2 DEF StoreKept, LoggedGroups
<1> QED
  BY <1>4, <1>5, <1>6, <1>7, <1>8

\* The sequence numbers of a group are its own.
LEMMA GroupUnique ==
  ASSUME Shape, QueueInv, writing.at # "idle"
  PROVE  Unique(Entries(GroupRecord))
<1> DEFINE g == writing.group  n == Len(writing.group)
<1>1. GroupRecord \in Record /\ GroupRecord.writes = g /\ GroupRecord.first = db.last + 1
  BY GroupIs
<1>2. db.last \in Nat /\ g \in Seq(Writes) /\ n \in Nat /\ writing.queue \in Seq(Writes)
  BY DEF Shape, Db, WriterState
<1>3. ASSUME NEW i \in 1..n, NEW j \in 1..n, g[i] = g[j] PROVE i = j
  <2>1. /\ n \in 1..Len(writing.queue) /\ \A k \in 1..n : g[k] = writing.queue[k]
    BY DEF QueueInv
  <2>2. i \in DOMAIN writing.queue /\ j \in DOMAIN writing.queue
    BY <1>2, <2>1
  <2> QED
    BY <1>3, <2>1, <2>2 DEF QueueInv
<1>4. ASSUME NEW e \in Entries(GroupRecord), NEW f \in Entries(GroupRecord)
      PROVE  e.seq = f.seq <=> e.write = f.write
  <2>1. PICK i \in 1..n : e.seq = db.last + 1 + i - 1 /\ e.write = g[i]
    BY <1>1, EntriesAre
  <2>2. PICK j \in 1..n : f.seq = db.last + 1 + j - 1 /\ f.write = g[j]
    BY <1>1, EntriesAre
  <2>3. e.seq = f.seq <=> i = j
    <3>1. \A l, a, b \in Nat : l + 1 + a - 1 = l + 1 + b - 1 <=> a = b
      OBVIOUS
    <3>2. i \in Nat /\ j \in Nat
      BY <1>2
    <3> QED
      BY <1>2, <2>1, <2>2, <3>1, <3>2
  <2>4. e.write = f.write <=> i = j
    BY <1>3, <2>1, <2>2
  <2> QED
    BY <2>3, <2>4
<1> QED
  BY <1>4 DEF Unique

\* What is found stays entitled when the record of a new group is added to it.
LEMMA GroupEntitled ==
  ASSUME Shape, QueueInv, Entitled, writing.at # "idle", GroupEntries = {},
         UpTo(Found, db.last), Found \subseteq Entry, answered' = answered,
         Found' = Found \cup Entries(GroupRecord), GroupEntries' = Entries(GroupRecord)
  PROVE  Entitled'
<1>1. db.last \in Nat
  BY DEF Shape, Db
<1>2. ASSUME NEW e \in Found, NEW f \in Entries(GroupRecord)
      PROVE  e.seq # f.seq /\ e.write # f.write
  <2>1. e.seq <= db.last /\ db.last < f.seq /\ e.seq \in Nat /\ f.seq \in Nat
    BY GroupIs DEF UpTo, Entry
  <2>2. answered[f.write] = "none" /\ answered[e.write] # "none"
    BY GroupIs, GroupPending DEF Entitled
  <2>3. e.seq # f.seq
    BY <1>1, <2>1
  <2> QED
    BY <2>2, <2>3
<1>3. Unique(Found) /\ Unique(Entries(GroupRecord))
  BY GroupUnique DEF Entitled
<1>4. Unique(Found')
  BY <1>2, <1>3 DEF Unique
<1> QED
  BY <1>4 DEF Entitled

\* The files' side after a step of the log: what is shown is still found.
LEMMA LogStepFileSide ==
  ASSUME FileSide, db.status = "open", db'.status = "open", bg' = bg,
         disk'.tables = disk.tables, disk'.manifests = disk.manifests,
         disk'.current = disk.current, DOMAIN disk'.logs = DOMAIN disk.logs,
         \A n \in DOMAIN disk.logs : n # db.logfile => disk'.logs[n] = disk.logs[n],
         db.logfile \in Nat, Current.log \in Nat, Current.log <= db.logfile,
         DOMAIN disk.logs \in SUBSET Nat,
         db'.log = db.log, db'.logfile = db.logfile, db'.l0 = db.l0, db'.l1 = db.l1,
         db'.imm = db.imm, db'.hasImm = db.hasImm, db.error => db'.error,
         UpTo(Contents', db'.last), Contents' \subseteq Found'
  PROVE  FileSide' /\ Current' = Current /\ \A S : TableEntries(S)' = TableEntries(S)
<1>1. /\ Current' = Current /\ Named(db') = Named(db) /\ Live /\ Live'
      /\ \A S : TableEntries(S)' = TableEntries(S)
  BY DEF Current, Named, TableEntries, Live
<1>2. Readability' /\ VersionTables'
  BY <1>1 DEF FileSide, Readability, VersionTables, UpTo
<1>3. NoMemory' /\ Replaying' /\ AllReplayed'
  BY DEF NoMemory, Replaying, AllReplayed
<1>4. ImmInv'
  <2>1. ASSUME NEW n \in DOMAIN disk'.logs, db.log <= n, n < db.logfile
        PROVE  LogEntries(disk'.logs[n]) \subseteq db.imm
    <3>1. n # db.logfile
      BY <2>1
    <3> QED
      BY <1>1, <2>1, <3>1 DEF FileSide, ImmInv
  <2>2. ASSUME NEW n \in DOMAIN disk'.logs, db.log <= n, n < Current.log
        PROVE  LogEntries(disk'.logs[n]) \subseteq TableEntries(Named(Current))
    <3>1. n # db.logfile
      BY <2>2
    <3> QED
      BY <1>1, <2>2, <3>1 DEF FileSide, ImmInv
  <2> QED
    BY <1>1, <2>1, <2>2 DEF FileSide, ImmInv
<1>5. ManifestInv'
  BY <1>1 DEF FileSide, ManifestInv
<1>6. OutputInv'
  BY <1>1 DEF FileSide, OutputInv
<1> QED
  BY <1>1, <1>2, <1>3, <1>4, <1>5, <1>6 DEF FileSide

\* What of the log in use is found, and where it stands among what is replayed.
LEMMA LogInUseFound ==
  ASSUME TypeInv, Live
  PROVE  /\ db.logfile \in DOMAIN disk.logs /\ db.logfile >= Current.log
         /\ db.logfile \in LogsToReplay(Current)
         /\ LogEntries(disk.logs[db.logfile]) \subseteq Found
         /\ FirmEntries(disk.logs[db.logfile]) \subseteq Firm
<1>1. db.logfile \in DOMAIN disk.logs /\ Current.log <= db.logfile
  BY DEF TypeInv, Numbers, LiveNumbers
<1>2. db.logfile \in Nat /\ Current.log \in Nat
  BY NumberTypes
<1>3. db.logfile >= Current.log
  BY <1>1, <1>2
<1> QED
  BY <1>1, <1>3 DEF LogsToReplay, Found, LogsFrom, Firm

\* AddRecord: the group's entries are found from here on.
LEMMA LogAppendContained ==
  ASSUME Inv, LogAppend
  PROVE  /\ Contained' /\ writing.at = "append" /\ Shape /\ QueueInv
         /\ Found' = Found \cup Entries(GroupRecord) /\ answered' = answered
<1> DEFINE log == disk.logs[db.logfile]
           new == disk'.logs[db.logfile]
<1>1. TypeInv /\ Shape /\ FileSide /\ WriterSide /\ Budget /\ disk \in Disk /\ db \in Db
  BY Sides DEF Inv, TypeInv, Shape
<1>2. /\ db.status = "open" /\ Live /\ writing.at = "append" /\ log.inStep
      /\ disk' = [disk EXCEPT !.logs[db.logfile].records = Append(@, GroupRecord)]
      /\ UNCHANGED <<db, bg, answered, left>>
  BY <1>1, LogStepDoes DEF LogAppend, WriterSide, LogInv
<1>3. /\ writing'.queue = writing.queue /\ writing'.group = writing.group
      /\ writing'.at \in {"sync", "insert"}
      /\ writing'.at = "insert" => Head(writing.group) \notin Synced
  BY <1>1 DEF LogAppend, Shape, WriterState
<1>4. /\ log \in Log /\ GroupRecord \in Record
      /\ disk'.tables = disk.tables /\ disk'.manifests = disk.manifests
      /\ disk'.current = disk.current /\ DOMAIN disk'.logs = DOMAIN disk.logs
      /\ new.records = Append(log.records, GroupRecord) /\ new.synced = log.synced
      /\ new.inStep
      /\ \A m \in DOMAIN disk.logs : m # db.logfile => disk'.logs[m] = disk.logs[m]
      /\ db.logfile \in DOMAIN disk.logs /\ log.synced <= Len(log.records)
  <2>1. db.logfile \in DOMAIN disk.logs
    BY <1>1, <1>2, LogInUseFound
  <2>2. log.synced <= Len(log.records)
    BY <1>1, <2>1 DEF Shape
  <2>3. /\ new = [records |-> Append(log.records, GroupRecord), synced |-> log.synced,
                  inStep |-> log.inStep]
        /\ log \in Log /\ GroupRecord \in Record
        /\ disk'.tables = disk.tables /\ disk'.manifests = disk.manifests
        /\ disk'.current = disk.current /\ DOMAIN disk'.logs = DOMAIN disk.logs
        /\ \A m \in DOMAIN disk.logs : m # db.logfile => disk'.logs[m] = disk.logs[m]
    BY <1>1, <1>2, <2>1, AppendDoes
  <2> HIDE DEF new, log
  <2>4. /\ new.records = Append(log.records, GroupRecord) /\ new.synced = log.synced
        /\ new.inStep = log.inStep
    BY <2>3
  <2> QED
    BY <1>2, <2>1, <2>2, <2>3, <2>4
<1>6. /\ FirmEntries(new) = FirmEntries(log)
      /\ LogEntries(new) = LogEntries(log) \cup Entries(GroupRecord)
  BY <1>4, AppendedEntries
<1>7. Current' = Current
  BY <1>4 DEF Current
<1>8. Found' = Found \cup Entries(GroupRecord)
  <2>1. db.logfile >= Current.log
    BY <1>1, <1>2, LogInUseFound
  <2> QED
    BY <1>4, <1>6, <1>7, <2>1, LogsChanged
<1>9. Firm \subseteq Firm'
  BY <1>4, <1>6, <1>7, LogsChanged
<1>10. /\ ~Recorded /\ Recorded' /\ GroupEntries = {} /\ GroupRecord' = GroupRecord
       /\ GroupEntries' = Entries(GroupRecord)
  <2>1. ~Recorded /\ Recorded' /\ GroupRecord' = GroupRecord
    BY <1>2, <1>3 DEF Recorded, GroupRecord
  <2> QED
    BY <2>1 DEF GroupEntries
<1>11. Contents' = Contents
  BY <1>2, <1>4 DEF Contents, TableEntries
<1>12. UpTo(Found, db.last) /\ Found \subseteq Entry
  BY <1>1, <1>2, <1>10, FoundType DEF WriterSide, SequenceInv, FileSide
<1>13. FileSide' /\ \A S : TableEntries(S)' = TableEntries(S)
  <2>1. UpTo(Contents', db'.last) /\ Contents' \subseteq Found'
    BY <1>1, <1>2, <1>8, <1>11 DEF FileSide, VersionTables
  <2>2. /\ db.logfile \in Nat /\ Current.log \in Nat /\ Current.log <= db.logfile
        /\ DOMAIN disk.logs \in SUBSET Nat
    BY <1>1, <1>2, NumberTypes DEF TypeInv, Numbers, LiveNumbers
  <2> QED
    BY <1>1, <1>2, <1>4, <2>1, <2>2, LogStepFileSide
<1>14. Entitled'
  BY <1>1, <1>2, <1>8, <1>10, <1>12, GroupEntitled DEF WriterSide
<1>15. QueueInv'
  BY <1>1, <1>2, <1>3 DEF WriterSide, QueueInv
<1>16. LogInv'
  <2>1. /\ Append(log.records, GroupRecord) # <<>>
        /\ Append(log.records, GroupRecord)[Len(Append(log.records, GroupRecord))] = GroupRecord
    <3> DEFINE r == log.records  R == GroupRecord
    <3>1. r \in Seq(Record) /\ R \in Record /\ Len(r) \in Nat
      BY <1>4 DEF Log
    <3> HIDE DEF r, R
    <3>2. Append(r, R) # <<>> /\ Append(r, R)[Len(Append(r, R))] = R
      BY <3>1
    <3> QED
      BY <3>2 DEF r, R
  <2>2. writing'.at = "insert" => ~(writing'.group[1] \in Synced)
    BY <1>3
  <2>3. ~db.error => LogEntries(new) \subseteq db.mem \cup GroupEntries'
    BY <1>1, <1>2, <1>6, <1>10 DEF WriterSide, LogInv
  <2>4. db'.logfile = db.logfile /\ db'.error = db.error /\ db'.mem = db.mem
        /\ db'.imm = db.imm
    BY <1>2
  <2>5. ASSUME NEW e \in LogEntries(new) PROVE e \notin db.imm
    <3>1. CASE e \in LogEntries(log)
      BY <1>1, <1>2, <3>1 DEF WriterSide, LogInv
    <3>2. CASE e \in Entries(GroupRecord)
      <4>1. e.seq \in Nat /\ db.last < e.seq /\ db.last \in Nat
        BY <1>1, <3>2, GroupIs, NumberTypes
      <4>2. db.imm \subseteq Found
        BY <1>1 DEF FileSide, VersionTables, Contents
      <4> QED
        BY <1>12, <4>1, <4>2 DEF UpTo
    <3> QED
      BY <1>6, <2>5, <3>1, <3>2
  <2>6. new.records = Append(log.records, GroupRecord) /\ new.inStep
    BY <1>4
  <2> HIDE DEF new
  <2>7. new.records # <<>> /\ new.records[Len(new.records)] = GroupRecord'
    BY <1>10, <2>1, <2>6
  <2> QED
    BY <2>2, <2>3, <2>4, <2>5, <2>6, <2>7 DEF LogInv, new
<1>17. SequenceInv'
  <2>1. UpTo(Found' \ GroupEntries', db.last)
    BY <1>8, <1>10, <1>12 DEF UpTo
  <2> QED
    BY <1>1, <1>2, <1>7, <1>13, <2>1 DEF WriterSide, SequenceInv, Live, UpTo
<1>18. AckInv'
  BY <1>1, <1>2, <1>8, <1>9, AckKept DEF WriterSide
<1> QED
  BY <1>1, <1>2, <1>8, <1>13, <1>14, <1>15, <1>16, <1>17, <1>18, Sides
     DEF WriterSide, Budget, Contained, FileSide

\* Sync: they are firm.
LEMMA LogSyncContained ==
  ASSUME Inv, LogSync
  PROVE  Contained' /\ Found' = Found /\ StoreKept
<1> DEFINE log == disk.logs[db.logfile]
           new == disk'.logs[db.logfile]
<1>1. TypeInv /\ Shape /\ FileSide /\ WriterSide /\ Budget /\ disk \in Disk /\ db \in Db
  BY Sides DEF Inv, TypeInv, Shape
<1>2. /\ db.status = "open" /\ Live /\ writing.at = "sync" /\ UNCHANGED <<db, bg, answered, left>>
  BY <1>1, LogStepDoes DEF LogSync
<1>3. /\ writing'.queue = writing.queue /\ writing'.group = writing.group
      /\ writing'.at = "insert"
  BY <1>1 DEF LogSync, Shape, WriterState
<1>4. /\ disk'.tables = disk.tables /\ disk'.manifests = disk.manifests
      /\ disk'.current = disk.current /\ DOMAIN disk'.logs = DOMAIN disk.logs
      /\ new.records = log.records /\ new.synced = Len(log.records)
      /\ new.inStep = log.inStep
      /\ \A m \in DOMAIN disk.logs : m # db.logfile => disk'.logs[m] = disk.logs[m]
      /\ db.logfile \in DOMAIN disk.logs /\ log.synced <= Len(log.records)
      /\ log.synced \in Nat /\ Len(log.records) \in Nat
  BY <1>1, <1>2, LogStepDoes, LiveFacts DEF Shape, Log
<1>5. LogEntries(new) = LogEntries(log) /\ FirmEntries(log) \subseteq FirmEntries(new)
  <2>1. LogEntries(new) = LogEntries(log)
    BY <1>4 DEF LogEntries
  <2>2. 1..log.synced \subseteq 1..Len(log.records)
    BY <1>4
  <2>3. new.records = log.records /\ new.synced = Len(log.records)
    BY <1>4
  <2>4. FirmEntries(log) \subseteq FirmEntries(new)
    BY <2>2, <2>3 DEF FirmEntries
  <2> QED
    BY <2>1, <2>4
<1>6. Current' = Current
  BY <1>4 DEF Current
<1>7. Found' = Found /\ Firm \subseteq Firm' /\ StoreKept
  BY <1>4, <1>5, <1>6, LogsChanged
<1>8. /\ Recorded /\ Recorded' /\ GroupRecord' = GroupRecord /\ GroupEntries' = GroupEntries
  <2>1. Recorded /\ Recorded' /\ GroupRecord' = GroupRecord
    BY <1>2, <1>3 DEF Recorded, GroupRecord
  <2> QED
    BY <2>1 DEF GroupEntries
<1>9. Contents' = Contents
  BY <1>2, <1>4 DEF Contents, TableEntries
<1>10. FileSide' /\ \A S : TableEntries(S)' = TableEntries(S)
  <2>1. UpTo(Contents', db'.last) /\ Contents' \subseteq Found'
    BY <1>1, <1>2, <1>7, <1>9 DEF FileSide, VersionTables
  <2>2. /\ db.logfile \in Nat /\ Current.log \in Nat /\ Current.log <= db.logfile
        /\ DOMAIN disk.logs \in SUBSET Nat
    BY <1>1, <1>2, NumberTypes DEF TypeInv, Numbers, LiveNumbers
  <2> QED
    BY <1>1, <1>2, <1>4, <2>1, <2>2, LogStepFileSide
<1>11. Entitled' /\ AckInv'
  BY <1>1, <1>2, <1>7, <1>8, EntitledKept, AckKept DEF WriterSide
<1>12. QueueInv'
  BY <1>1, <1>2, <1>3 DEF WriterSide, QueueInv
<1>13. LogInv'
  <2>1. Live' /\ new.records = log.records /\ new.synced = Len(new.records)
        /\ new.inStep = log.inStep
    BY <1>2, <1>4 DEF Live
  <2>2. ~db.error => LogEntries(new) \subseteq db.mem \cup GroupEntries'
    BY <1>1, <1>2, <1>5, <1>8 DEF WriterSide, LogInv
  <2>3. \A e \in LogEntries(new) : e \notin db'.imm
    BY <1>1, <1>2, <1>5 DEF WriterSide, LogInv
  <2>4. log.inStep /\ (Recorded => log.records # <<>> /\ log.records[Len(log.records)] = GroupRecord)
    BY <1>1, <1>2 DEF WriterSide, LogInv
  <2>5. db'.logfile = db.logfile /\ db'.error = db.error /\ db'.mem = db.mem
    BY <1>2
  <2> HIDE DEF new, log
  <2> QED
    BY <1>8, <2>1, <2>2, <2>3, <2>4, <2>5 DEF LogInv, new
<1>14. SequenceInv'
  BY <1>1, <1>2, <1>6, <1>7, <1>8, <1>10 DEF WriterSide, SequenceInv, Live, UpTo
<1> QED
  BY <1>1, <1>2, <1>7, <1>10, <1>11, <1>12, <1>13, <1>14, Sides
     DEF WriterSide, Budget, Contained, FileSide

\* The group that was appended is found, and it is firm after its sync.
LEMMA GroupFound ==
  ASSUME TypeInv, Live, QueueInv, LogInv
  PROVE  /\ GroupEntries \subseteq Found
         /\ \A w \in ToSet(writing.group) : writing.at = "insert" /\ w \in Synced =>
              GroupEntries \subseteq Firm
<1> DEFINE log == disk.logs[db.logfile]
<1>1. log \in Log /\ LogEntries(log) \subseteq Found /\ FirmEntries(log) \subseteq Firm
  BY LogInUseFound, LiveFacts
<1>2. log.records \in Seq(Record)
  BY <1>1 DEF Log
<1>3. ASSUME Recorded
      PROVE  /\ Len(log.records) \in DOMAIN log.records
             /\ log.records[Len(log.records)] = GroupRecord
             /\ GroupEntries = Entries(GroupRecord)
  <2>1. log.records # <<>> /\ log.records[Len(log.records)] = GroupRecord
    BY <1>3 DEF LogInv
  <2> DEFINE r == log.records
  <2>2. r \in Seq(Record) /\ r # <<>>
    BY <1>2, <2>1
  <2> HIDE DEF r
  <2>3. Len(r) \in DOMAIN r
    BY <2>2
  <2> QED
    BY <1>3, <2>1, <2>3 DEF r, GroupEntries
<1>4. ASSUME Recorded PROVE GroupEntries \subseteq LogEntries(log)
  BY <1>3, <1>4 DEF LogEntries
<1>5. ASSUME NEW w \in ToSet(writing.group), writing.at = "insert", w \in Synced
      PROVE  GroupEntries \subseteq FirmEntries(log)
  <2>1. Recorded
    BY <1>5 DEF Recorded
  <2>2. writing.group[1] \in Synced
    BY <1>5 DEF QueueInv, ToSet
  <2>3. log.synced = Len(log.records)
    BY <1>5, <2>2 DEF LogInv
  <2>4. Len(log.records) \in DOMAIN log.records \cap 1..log.synced
    <3> DEFINE r == log.records
    <3>1. r \in Seq(Record) /\ Len(r) \in DOMAIN r
      BY <1>2, <1>3, <2>1
    <3> HIDE DEF r
    <3>2. Len(r) \in 1..Len(r)
      BY <3>1
    <3> QED
      BY <2>3, <3>1, <3>2 DEF r
  <2> QED
    BY <1>3, <2>1, <2>4 DEF FirmEntries
<1>6. CASE ~Recorded
  BY <1>6 DEF GroupEntries
<1>7. CASE Recorded
  BY <1>1, <1>4, <1>5, <1>7
<1> QED
  BY <1>6, <1>7

\* The end of a write: its group has left the queue with a status.
LEMMA FinishedContained ==
  ASSUME Inv, db.status = "open", Live, writing.at # "idle", UNCHANGED <<disk, bg>>,
         left'.damage = left.damage, left'.crashes = left.crashes,
         NEW status \in {"ok", "error"}, Finish(writing.group, status),
         status = "ok" => writing.at = "insert",
         db'.status = "open", db'.log = db.log, db'.logfile = db.logfile, db'.l0 = db.l0,
         db'.l1 = db.l1, db'.imm = db.imm, db'.hasImm = db.hasImm, db.error => db'.error,
         db'.last = db.last + Len(writing.group),
         db.mem \subseteq db'.mem, db'.mem \subseteq db.mem \cup GroupEntries,
         ~db'.error => db'.mem = db.mem \cup GroupEntries
  PROVE  Contained' /\ Found' = Found /\ StoreKept
<1> DEFINE log == disk.logs[db.logfile]
<1>1. TypeInv /\ Shape /\ FileSide /\ WriterSide /\ Budget /\ writing.group \in Seq(Writes)
  BY Sides DEF Inv, TypeInv, Shape, WriterState
<1>2. /\ Current' = Current /\ Found' = Found /\ Firm' = Firm /\ StoreKept
      /\ \A S : TableEntries(S)' = TableEntries(S)
  BY SameFiles
<1>3. /\ writing'.at = "idle" /\ writing'.group = <<>>
      /\ \A w \in Writes : answered'[w] = IF w \in ToSet(writing.group) THEN status ELSE answered[w]
  BY <1>1, FinishDoes
<1>4. ~Recorded' /\ GroupEntries' = {}
  BY <1>3 DEF Recorded, GroupEntries
<1>5. db.last \in Nat /\ db'.last \in Nat /\ db.last <= db'.last
  <2>1. db.last \in Nat /\ Len(writing.group) \in Nat
    BY <1>1, NumberTypes
  <2> QED
    BY <2>1
<1>6. Found \subseteq Entry /\ \A e \in Found : e.seq \in Nat /\ e.write \in Writes
  BY <1>1, FoundType DEF FileSide, Entry
<1>7. /\ GroupEntries \subseteq Found
      /\ \A w \in ToSet(writing.group) : writing.at = "insert" /\ w \in Synced =>
           GroupEntries \subseteq Firm
  BY <1>1, GroupFound DEF WriterSide
<1>8. UpTo(Found, db'.last)
  <2>1. ASSUME NEW e \in Found PROVE e.seq <= db'.last
    <3>1. CASE e \in GroupEntries
      BY <1>1, <3>1, GroupIs DEF GroupEntries
    <3>2. CASE e \notin GroupEntries
      <4>1. e.seq <= db.last
        BY <1>1, <3>2 DEF WriterSide, SequenceInv, UpTo
      <4> QED
        BY <1>5, <1>6, <4>1
    <3> QED
      BY <3>1, <3>2
  <2> QED
    BY <2>1 DEF UpTo
<1>9. Contents \subseteq Contents' /\ Contents' \subseteq Found'
  <2>1. Contents' \subseteq Contents \cup GroupEntries /\ Contents \subseteq Contents'
    BY <1>2 DEF Contents
  <2> QED
    BY <1>1, <1>2, <1>7, <2>1 DEF FileSide, VersionTables
<1>10. FileSide'
  <2>1. UpTo(Contents', db'.last)
    BY <1>2, <1>8, <1>9 DEF UpTo
  <2>2. /\ db.logfile \in Nat /\ Current.log \in Nat /\ Current.log <= db.logfile
        /\ DOMAIN disk.logs \in SUBSET Nat
    BY <1>1, NumberTypes DEF TypeInv, Numbers, LiveNumbers
  <2> QED
    BY <1>1, <1>9, <2>1, <2>2, LogStepFileSide
<1>11. ASSUME NEW e \in Found, answered'[e.write] = "none"
       PROVE  answered[e.write] = "none" /\ e \notin GroupEntries
  <2>1. e.write \notin ToSet(writing.group) /\ answered[e.write] = "none"
    BY <1>3, <1>6, <1>11
  <2> QED
    BY <1>1, <2>1, GroupIs DEF GroupEntries
<1>12. Entitled'
  BY <1>1, <1>2, <1>11, EntitledKept DEF WriterSide
<1>13. QueueInv'
  <2>1. QueueInv
    BY <1>1 DEF WriterSide
  <2>2. /\ Len(writing.group) \in 1..Len(writing.queue)
        /\ \A i \in 1..Len(writing.group) : writing.group[i] = writing.queue[i]
    BY <2>1 DEF QueueInv
  <2> QED
    BY <1>1, <2>1, <2>2, FinishQueue
<1>14. LogInv'
  <2>1. ~db'.error => LogEntries(log) \subseteq db'.mem
    BY <1>1 DEF WriterSide, LogInv
  <2> QED
    BY <1>1, <1>3, <1>4, <2>1 DEF WriterSide, LogInv
<1>15. SequenceInv'
  <2>1. Current.last <= db'.last
    <3>1. Current.last <= db.last /\ Current.last \in Nat
      BY <1>1, NumberTypes DEF WriterSide, SequenceInv
    <3> QED
      BY <1>5, <3>1
  <2>2. bg.at \in {"logging", "mergeLogging"} => bg.edit.last <= db'.last
    <3>1. bg.at \in {"logging", "mergeLogging"} => bg.edit.last <= db.last
      BY <1>1 DEF WriterSide, SequenceInv
    <3>2. bg.edit.last \in Nat
      BY <1>1, NumberTypes
    <3> QED
      BY <1>5, <3>1, <3>2
  <2> QED
    BY <1>1, <1>2, <1>4, <1>8, <2>1, <2>2 DEF WriterSide, SequenceInv, UpTo
<1>16. AckInv'
  <2>1. ASSUME NEW w \in Writes, answered'[w] = "ok"
        PROVE  (~Crashed' => w \in WritesOf(Found)) /\ (w \in Synced => w \in WritesOf(Firm))
    <3>1. CASE w \in ToSet(writing.group)
      <4>1. writing.at = "insert"
        BY <1>3, <2>1, <3>1
      <4>2. w \in WritesOf(GroupEntries)
        BY <1>1, <3>1, <4>1, GroupIs DEF GroupEntries, Recorded
      <4> QED
        BY <1>7, <3>1, <4>1, <4>2 DEF WritesOf
    <3>2. CASE w \notin ToSet(writing.group)
      BY <1>1, <1>3, <2>1, <3>2 DEF WriterSide, AckInv, Crashed
    <3> QED
      BY <3>1, <3>2
  <2> QED
    BY <1>2, <2>1 DEF AckInv
<1> QED
  BY <1>1, <1>2, <1>10, <1>12, <1>13, <1>14, <1>15, <1>16, Sides
     DEF WriterSide, Budget, Contained, FileSide

\* InsertInto answers the group with success; a failed sync answers it with an error,
\* and what it left in the log is not given to another write.
LEMMA LogFinishContained ==
  ASSUME Inv, LogSyncFails \/ InsertInto
  PROVE  Contained' /\ Found' = Found /\ StoreKept
<1> DEFINE group == writing.group  n == db.last + Len(group)
           d == SequenceAfter(db, group)
<1>1. TypeInv /\ Shape /\ Budget /\ db \in Db /\ group \in Seq(Writes) /\ Within
  BY Sides DEF Inv, TypeInv, Shape, WriterState
<1>2. db.status = "open" /\ Live
  BY <1>1, LogStepDoes
<1>3. /\ d \in Db /\ d.status = db.status /\ d.log = db.log /\ d.logfile = db.logfile
      /\ d.l0 = db.l0 /\ d.l1 = db.l1 /\ d.imm = db.imm /\ d.hasImm = db.hasImm
      /\ d.error = db.error /\ d.mem = db.mem /\ d.last = n
  <2>1. d = [db EXCEPT !.last = n]
    BY DEF SequenceAfter
  <2>2. n \in Nat
    BY <1>1 DEF Db
  <2> HIDE DEF n, d
  <2> QED
    BY <1>1, <2>1, <2>2 DEF Db
<1> HIDE DEF d, n
<1>4. CASE LogSyncFails
  <2>1. /\ writing.at = "sync" /\ db' = RecordBackgroundError(d) /\ Finish(group, "error")
        /\ MayFail /\ left' = OneError /\ UNCHANGED <<disk, bg>>
    BY <1>4 DEF LogSyncFails, d
  <2>2. left'.damage = left.damage /\ left'.crashes = left.crashes
    BY <1>1, <2>1, LeftTypes
  <2>3. /\ db'.status = "open" /\ db'.log = db.log /\ db'.logfile = db.logfile
        /\ db'.l0 = db.l0 /\ db'.l1 = db.l1 /\ db'.imm = db.imm /\ db'.hasImm = db.hasImm
        /\ db'.error = TRUE /\ db'.last = n /\ db'.mem = db.mem
    BY <1>2, <1>3, <2>1, ErrorRecorded
  <2> QED
    BY <1>2, <2>1, <2>2, <2>3, FinishedContained DEF n
<1>5. CASE InsertInto
  <2> DEFINE new == Entries(GroupRecord)
             mem == d.mem \cup new
  <2>1. /\ writing.at = "insert" /\ Finish(group, "ok") /\ UNCHANGED <<disk, bg, left>>
        /\ db' = [d EXCEPT !.mem = mem]
    BY <1>5 DEF InsertInto, d
  <2>2. new = GroupEntries
    BY <2>1 DEF GroupEntries, Recorded
  <2>3. mem = db.mem \cup GroupEntries
    BY <1>3, <2>2
  <2> HIDE DEF new, mem
  <2>4. /\ db'.status = "open" /\ db'.log = db.log /\ db'.logfile = db.logfile
        /\ db'.l0 = db.l0 /\ db'.l1 = db.l1 /\ db'.imm = db.imm /\ db'.hasImm = db.hasImm
        /\ db'.error = db.error /\ db'.last = n /\ db'.mem = mem
    BY <1>2, <1>3, <2>1 DEF Db
  <2> QED
    BY <1>2, <2>1, <2>3, <2>4, FinishedContained DEF n
<1> QED
  BY <1>4, <1>5

-----------------------------------------------------------------------------
(* What the files hold: steps of the background thread.                    *)

\* A step that leaves logs, manifest and the tables of the versions alone.
LEMMA QuietContained ==
  ASSUME Inv, db.status = "open", db'.status = "open",
         disk'.logs = disk.logs, disk'.manifests = disk.manifests, disk'.current = disk.current,
         DOMAIN disk.tables \subseteq DOMAIN disk'.tables,
         \A n \in Named(Current) \cup Named(db) : disk'.tables[n] = disk.tables[n],
         writing'.queue = writing.queue, writing'.at = writing.at,
         writing'.group = writing.group, answered' = answered,
         left'.damage = left.damage, left'.crashes = left.crashes,
         db'.mem = db.mem, db'.imm = db.imm, db'.hasImm = db.hasImm, db'.last = db.last,
         db'.log = db.log, db'.logfile = db.logfile, db'.l0 = db.l0, db'.l1 = db.l1,
         db.error => db'.error,
         bg.at \notin {"installing", "mergeInstalling"},
         bg'.at \notin {"installing", "mergeInstalling"},
         OutputInv',
         bg'.at \in {"logging", "mergeLogging"} =>
           /\ Current.last <= bg'.edit.last /\ bg'.edit.last <= db.last
           /\ UpTo(TableEntries(Named(bg.edit)), bg.edit.last)'
  PROVE  Contained' /\ Found' = Found /\ StoreKept
<1>1. TypeInv /\ Shape /\ FileSide /\ WriterSide /\ Budget /\ Live /\ Live'
  BY Sides DEF Inv, TypeInv, Live
<1>2. Current' = Current /\ Named(db') = Named(db)
  BY DEF Current, Named
<1>3. Found' = Found /\ Firm' = Firm /\ StoreKept
  BY <1>2, FoundOf
<1>4. /\ TableEntries(Named(Current))' = TableEntries(Named(Current))
      /\ TableEntries(Named(db))' = TableEntries(Named(db))
  BY <1>2 DEF TableEntries
<1>5. Contents' = Contents
  BY <1>4 DEF Contents, Named
<1>6. Readability' /\ VersionTables'
  <2>1. Readability'
    BY <1>1, <1>2, <1>4 DEF FileSide, Readability
  <2> QED
    BY <1>1, <1>3, <1>5, <2>1 DEF FileSide, VersionTables
<1>7. NoMemory' /\ Replaying' /\ AllReplayed'
  BY DEF NoMemory, Replaying, AllReplayed
<1>8. ImmInv' /\ ManifestInv'
  BY <1>1, <1>2, <1>4 DEF FileSide, ImmInv, ManifestInv
<1>9. Readability
  BY <1>1 DEF FileSide
<1>10. /\ Entitled' /\ QueueInv' /\ LogInv' /\ AckInv'
       /\ UpTo(Found' \ GroupEntries', db'.last)
  BY <1>1, <1>3, <1>9, WriterSideKept
<1>11. SequenceInv'
  BY <1>1, <1>2, <1>10 DEF WriterSide, SequenceInv
<1> QED
  BY <1>1, <1>3, <1>6, <1>7, <1>8, <1>10, <1>11, Sides DEF WriterSide, Budget, Contained, FileSide

\* One that leaves all files alone as well.
LEMMA IdleContained ==
  ASSUME Inv, db.status = "open", db'.status = "open", disk' = disk,
         writing'.queue = writing.queue, writing'.at = writing.at,
         writing'.group = writing.group, answered' = answered,
         left'.damage = left.damage, left'.crashes = left.crashes,
         db'.mem = db.mem, db'.imm = db.imm, db'.hasImm = db.hasImm, db'.last = db.last,
         db'.log = db.log, db'.logfile = db.logfile, db'.l0 = db.l0, db'.l1 = db.l1,
         db.error => db'.error,
         bg.at \notin {"installing", "mergeInstalling"},
         bg'.at \notin {"logging", "installing", "mergeLogging", "mergeInstalling"},
         \/ bg'.inputs = {}
         \/ bg'.output \notin DOMAIN disk.tables /\ bg'.inputs \subseteq Named(Current)
         \/ bg'.inputs = bg.inputs /\ bg'.output = bg.output
  PROVE  Contained' /\ Found' = Found /\ StoreKept
<1>1. OutputInv
  BY DEF Inv, Contained
<1>2. Current' = Current /\ \A S : TableEntries(S)' = TableEntries(S)
  BY SameFiles
<1>3. OutputInv'
  <2>1. bg'.inputs \subseteq Named(Current)
    BY <1>1 DEF OutputInv
  <2> QED
    BY <1>1, <1>2, <2>1 DEF OutputInv, Named
<1> QED
  BY <1>3, QuietContained

\* The thread takes up a memtable or a merge.
LEMMA StartsContained ==
  ASSUME Inv, BackgroundStarts \/ MemTableFirst
  PROVE  Contained' /\ Found' = Found /\ StoreKept
<1>1. TypeInv /\ Shape /\ bg \in BgState /\ db \in Db /\ writing \in WriterState
  BY DEF Inv, TypeInv, Shape
<1>2. db.status = "open" /\ bg.at \in {"scheduled", "merging", "merged"}
  BY <1>1, OpenWhen DEF BackgroundStarts, MemTableFirst, TypeInv
<1>3. UNCHANGED <<disk, answered, left>>
  BY DEF BackgroundStarts, MemTableFirst
<1>4. db.next \notin DOMAIN disk.tables
  BY <1>1, <1>2, NewNumber
<1>5. CASE BackgroundStarts /\ StartDump
  <2>1. /\ bg' = [NoBackground EXCEPT !.at = "building", !.table = db.next]
        /\ db' = [db EXCEPT !.next = @ + 1] /\ UNCHANGED writing
    BY <1>5 DEF StartDump
  <2>2. bg'.at = "building" /\ bg'.inputs = {}
    BY <2>1 DEF NoBackground
  <2> QED
    BY <1>1, <1>2, <1>3, <2>1, <2>2, NextNumber, IdleContained
<1>6. CASE BackgroundStarts /\ StartMerge
  <2>1. db' = [db EXCEPT !.next = @ + 1] /\ UNCHANGED writing
    BY <1>6 DEF StartMerge
  <2>2. /\ bg'.at = "merging" /\ bg'.output = db.next
        /\ bg'.inputs \subseteq Named(Current)
    <3>1. PICK others \in SUBSET db.l1 :
            bg' = [NoBackground EXCEPT !.at = "merging", !.output = db.next,
                                       !.inputs = db.l0 \cup others]
      BY <1>6, Zenon DEF StartMerge
    <3>2. bg'.at = "merging" /\ bg'.output = db.next /\ bg'.inputs = db.l0 \cup others
      BY <3>1 DEF NoBackground
    <3>3. Live /\ ~db.error /\ bg.at = "scheduled"
      <4>1. ~db.error /\ bg.at = "scheduled"
        BY <1>6, Zenon DEF BackgroundStarts, StartMerge
      <4> QED
        BY <1>2, <4>1 DEF Live
    <3>4. Named(Current) = Named(db)
      BY <3>3 DEF Inv, Contained, ManifestInv
    <3>5. others \subseteq db.l1
      OBVIOUS
    <3> QED
      BY <3>2, <3>4, <3>5 DEF Named
  <2> QED
    BY <1>1, <1>2, <1>3, <1>4, <2>1, <2>2, NextNumber, IdleContained
<1>7. CASE BackgroundStarts /\ NothingToDo
  <2>1. db' = db /\ BackgroundCallEnds(db)
    BY <1>7 DEF NothingToDo
  <2>2. bg'.at \in {"none", "scheduled"} /\ bg'.inputs = {}
    BY <1>1, <2>1, BackgroundCallEndsTypes
  <2>3. /\ writing'.queue = writing.queue /\ writing'.at = writing.at
        /\ writing'.group = writing.group
    BY <1>1, <2>1 DEF BackgroundCallEnds, WriterState
  <2> QED
    BY <1>2, <1>3, <2>1, <2>2, <2>3, IdleContained
<1>8. CASE MemTableFirst
  <2>1. /\ bg' = [bg EXCEPT !.at = "building", !.table = db.next]
        /\ db' = [db EXCEPT !.next = @ + 1] /\ UNCHANGED writing
    BY <1>8 DEF MemTableFirst
  <2>2. bg'.at = "building" /\ bg'.inputs = bg.inputs /\ bg'.output = bg.output
    BY <1>1, <2>1 DEF BgState
  <2> QED
    BY <1>1, <1>2, <1>3, <2>1, <2>2, NextNumber, IdleContained
<1> QED
  BY <1>5, <1>6, <1>7, <1>8 DEF BackgroundStarts

\* What the end of CompactMemTable or of BackgroundCall leaves to the thread.
LEMMA EndsAre ==
  ASSUME Shape, NEW d, CompactMemTableEnds(d) \/ BackgroundCallEnds(d)
  PROVE  /\ writing'.queue = writing.queue /\ writing'.at = writing.at
         /\ writing'.group = writing.group
         /\ bg'.at \notin {"logging", "installing", "mergeLogging", "mergeInstalling"}
         /\ \/ bg'.inputs = {}
            \/ bg.inputs # {} /\ bg'.inputs = bg.inputs /\ bg'.output = bg.output
<1>1. writing \in WriterState /\ bg \in BgState
  BY DEF Shape
<1>2. writing' = [writing EXCEPT !.waits = FALSE]
  BY DEF CompactMemTableEnds, BackgroundCallEnds
<1>3. CASE bg' = Scheduled(d)
  BY <1>1, <1>2, <1>3, ScheduledIs DEF WriterState
<1>4. CASE bg.inputs # {} /\ bg' = ResumeMerge
  BY <1>1, <1>2, <1>4 DEF WriterState, BgState, ResumeMerge
<1> QED
  BY <1>3, <1>4 DEF CompactMemTableEnds, BackgroundCallEnds

\* It fails before it has changed the manifest.
LEMMA ErrorsContained ==
  ASSUME Inv, BuildTableFails \/ MergeFails
  PROVE  Contained' /\ Found' = Found /\ StoreKept
<1>1. TypeInv /\ Shape /\ bg \in BgState /\ db \in Db /\ Within
  BY DEF Inv, TypeInv, Shape
<1>2. db.status = "open" /\ bg.at \in {"building", "merging", "merged"}
  BY <1>1, OpenWhen DEF BuildTableFails, MergeFails, TypeInv
<1>3. MayFail /\ left' = OneError /\ UNCHANGED <<disk, answered>>
  BY DEF BuildTableFails, MergeFails, MergeEndsBadly
<1>4. left'.damage = left.damage /\ left'.crashes = left.crashes
  BY <1>1, <1>3, LeftTypes
<1>5. db' = RecordBackgroundError(db)
  BY DEF BuildTableFails, MergeFails, MergeEndsBadly, MemTableFails
<1>6. /\ writing'.queue = writing.queue /\ writing'.at = writing.at
      /\ writing'.group = writing.group
      /\ bg'.at \notin {"logging", "installing", "mergeLogging", "mergeInstalling"}
      /\ \/ bg'.inputs = {}
         \/ bg.inputs # {} /\ bg'.inputs = bg.inputs /\ bg'.output = bg.output
  BY <1>1, EndsAre DEF BuildTableFails, MergeFails, MergeEndsBadly, MemTableFails
<1> QED
  BY <1>1, <1>2, <1>3, <1>4, <1>5, <1>6, ErrorRecorded, IdleContained

\* A table of its own number leaves the others alone.
LEMMA TableAdded ==
  ASSUME TypeInv, NEW n \in Nat, NEW table \in SUBSET Entry,
         disk' = [disk EXCEPT !.tables = With(@, n, table)],
         NEW S, n \notin S, S \subseteq DOMAIN disk.tables
  PROVE  /\ disk'.logs = disk.logs /\ disk'.manifests = disk.manifests
         /\ disk'.current = disk.current /\ Current' = Current
         /\ DOMAIN disk.tables \subseteq DOMAIN disk'.tables
         /\ disk'.tables[n] = table
         /\ \A k \in S : disk'.tables[k] = disk.tables[k]
<1>1. /\ disk'.logs = disk.logs /\ disk'.manifests = disk.manifests
      /\ disk'.current = disk.current
      /\ DOMAIN disk'.tables = DOMAIN disk.tables \cup {n}
      /\ disk'.tables[n] = table
      /\ \A k \in DOMAIN disk.tables : k # n => disk'.tables[k] = disk.tables[k]
  BY AddTable DEF TypeInv, Shape
<1>2. Current' = Current
  BY <1>1 DEF Current
<1>3. \A k \in S : k \in DOMAIN disk.tables /\ k # n
  OBVIOUS
<1> QED
  BY <1>1, <1>2, <1>3

\* The versions of an open database name tables that are there, and what it shows
\* has the numbers given out so far.
LEMMA OpenTables ==
  ASSUME Inv, db.status = "open"
  PROVE  /\ Named(Current) \cup Named(db) \subseteq DOMAIN disk.tables
         /\ bg.inputs \subseteq Named(db)
         /\ UpTo(db.imm, db.last) /\ UpTo(TableEntries(Named(db)), db.last)
         /\ UpTo(TableEntries(bg.inputs), db.last)
         /\ Current.last <= db.last /\ db.last <= db.last
<1>1. Named(Current) \subseteq DOMAIN disk.tables
  BY DEF Inv, Contained, Readability
<1>2. Named(db) \subseteq DOMAIN disk.tables /\ bg.inputs \subseteq Named(db)
  BY DEF Inv, TypeInv, Numbers, LiveNumbers, BgNumbers, Live
<1>3. UpTo(Contents, db.last)
  BY DEF Inv, Contained, VersionTables
<1>4. /\ db.imm \subseteq Contents /\ TableEntries(Named(db)) \subseteq Contents
  BY DEF Contents, Named
<1>5. TableEntries(bg.inputs) \subseteq TableEntries(Named(db))
  BY <1>2 DEF TableEntries
<1>6. Current.last <= db.last
  BY DEF Inv, Contained, SequenceInv, Live
<1>7. db.last <= db.last
  BY NumberTypes DEF Inv
<1> QED
  BY <1>1, <1>2, <1>3, <1>4, <1>5, <1>6, <1>7 DEF UpTo

\* The memtable's table is written, and no one reads it yet.
LEMMA BuildTableContained ==
  ASSUME Inv, BuildTable
  PROVE  Contained' /\ Found' = Found /\ StoreKept
<1>1. /\ TypeInv /\ Shape /\ BgNumbers /\ EditNumbers /\ OutputInv
      /\ db.imm \in SUBSET Entry /\ bg.table \in Nat
  BY NumberTypes DEF Inv, TypeInv, Shape, Db, Numbers, Contained
<1>2. /\ db.status = "open" /\ bg.at = "building" /\ UNCHANGED <<db, writing, answered, left>>
      /\ disk' = [disk EXCEPT !.tables = With(@, bg.table, db.imm)]
  BY <1>1, OpenWhen DEF BuildTable, TypeInv
<1>3. /\ bg'.at = "logging" /\ bg'.table = bg.table
      /\ bg'.inputs = bg.inputs /\ bg'.output = bg.output
      /\ Named(bg'.edit) = {bg.table} /\ bg'.edit.last = db.last
  BY <1>1, BuildTableTypes
<1>4. bg.table \notin Named(Current) \cup Named(db) /\ (bg.inputs # {} => bg.table # bg.output)
  BY <1>1, <1>2 DEF BgNumbers, Dumping
<1>5. /\ Named(Current) \cup Named(db) \subseteq DOMAIN disk.tables
      /\ bg.inputs \subseteq Named(db) /\ UpTo(db.imm, db.last)
      /\ Current.last <= db.last /\ db.last <= db.last
  BY <1>2, OpenTables
<1>6. /\ disk'.logs = disk.logs /\ disk'.manifests = disk.manifests
      /\ disk'.current = disk.current
      /\ DOMAIN disk.tables \subseteq DOMAIN disk'.tables
      /\ disk'.tables[bg.table] = db.imm
      /\ \A k \in Named(Current) \cup Named(db) : disk'.tables[k] = disk.tables[k]
  BY <1>1, <1>2, <1>4, <1>5, TableAdded
<1>7. /\ DOMAIN disk'.tables = DOMAIN disk.tables \cup {bg.table}
      /\ \A k \in DOMAIN disk.tables : k # bg.table => disk'.tables[k] = disk.tables[k]
  BY <1>1, <1>2, AddTable DEF Shape
<1>8. OutputInv'
  <2>1. ASSUME bg.inputs # {}, bg.output \in DOMAIN disk'.tables
        PROVE  disk'.tables[bg.output] = UNION {disk'.tables[n] : n \in bg.inputs}
    <3>1. bg.output # bg.table /\ bg.output \in DOMAIN disk.tables
      BY <1>4, <1>7, <2>1
    <3>2. disk'.tables[bg.output] = UNION {disk.tables[n] : n \in bg.inputs}
      BY <1>1, <1>7, <2>1, <3>1 DEF OutputInv, TableEntries
    <3> QED
      BY <1>5, <1>6, <3>2
  <2>2. bg'.inputs \subseteq Named(Current')
    BY <1>1, <1>2, <1>3, <1>6 DEF OutputInv, Current
  <2> QED
    BY <1>2, <1>3, <1>6, <2>1, <2>2 DEF OutputInv, TableEntries
<1>9. UpTo(TableEntries(Named(bg.edit)), bg.edit.last)'
  BY <1>3, <1>5, <1>6 DEF UpTo, TableEntries
<1> QED
  BY <1>2, <1>3, <1>5, <1>6, <1>8, <1>9, QuietContained

\* So is the output of a merge, which holds what its inputs hold.
LEMMA MergeTablesContained ==
  ASSUME Inv, MergeTables
  PROVE  Contained' /\ Found' = Found /\ StoreKept
<1>1. /\ TypeInv /\ Shape /\ BgNumbers /\ bg \in BgState /\ bg.output \in Nat
  BY NumberTypes DEF Inv, TypeInv, Shape, Numbers
<1>2. /\ db.status = "open" /\ bg.at = "merging" /\ UNCHANGED <<db, writing, answered, left>>
      /\ disk' = [disk EXCEPT !.tables = With(@, bg.output, TableEntries(bg.inputs))]
      /\ bg' = [bg EXCEPT !.at = "merged"]
  BY <1>1, OpenWhen DEF MergeTables, TypeInv
<1>3. /\ bg'.at = "merged" /\ bg'.inputs = bg.inputs /\ bg'.output = bg.output
  BY <1>1, <1>2 DEF BgState
<1>4. bg.output \notin Named(Current) \cup Named(db)
  BY <1>1, <1>2 DEF BgNumbers
<1>5. /\ Named(Current) \cup Named(db) \subseteq DOMAIN disk.tables
      /\ bg.inputs \subseteq Named(db)
  BY <1>2, OpenTables
<1>6. TableEntries(bg.inputs) \in SUBSET Entry
  <2>1. bg.inputs \subseteq DOMAIN disk.tables /\ disk \in Disk
    BY <1>1, <1>5 DEF Shape
  <2> QED
    BY <2>1, TableEntriesType
<1>7. /\ disk'.logs = disk.logs /\ disk'.manifests = disk.manifests
      /\ disk'.current = disk.current
      /\ DOMAIN disk.tables \subseteq DOMAIN disk'.tables
      /\ disk'.tables[bg.output] = TableEntries(bg.inputs)
      /\ \A k \in Named(Current) \cup Named(db) : disk'.tables[k] = disk.tables[k]
  BY <1>1, <1>2, <1>4, <1>5, <1>6, TableAdded
<1>8. OutputInv'
  <2>1. TableEntries(bg.inputs) = UNION {disk'.tables[n] : n \in bg.inputs}
    BY <1>5, <1>7 DEF TableEntries
  <2>2. bg'.inputs \subseteq Named(Current')
    BY <1>2, <1>3, <1>7 DEF Inv, Contained, OutputInv, Current
  <2> QED
    BY <1>3, <1>7, <2>1, <2>2 DEF OutputInv, TableEntries
<1> QED
  BY <1>2, <1>3, <1>7, <1>8, QuietContained

\* The edit of a merge is made up.
LEMMA MergeDoneContained ==
  ASSUME Inv, MergeDone
  PROVE  Contained' /\ Found' = Found /\ StoreKept
<1>1. /\ TypeInv /\ Shape /\ BgNumbers /\ EditNumbers /\ OutputInv
  BY DEF Inv, TypeInv, Shape, Numbers, Contained
<1>2. /\ db.status = "open" /\ bg.at = "merged" /\ UNCHANGED <<disk, db, writing, answered, left>>
  BY <1>1, OpenWhen DEF MergeDone, TypeInv
<1>3. /\ bg'.at = "mergeLogging" /\ bg'.inputs = bg.inputs /\ bg'.output = bg.output
      /\ Named(bg'.edit) = {bg.output} /\ bg'.edit.last = db.last
  BY <1>1, MergeDoneTypes
<1>4. bg.output \in DOMAIN disk.tables /\ bg.inputs # {}
  BY <1>1, <1>2 DEF BgNumbers, EditNumbers
<1>5. /\ UpTo(TableEntries(bg.inputs), db.last) /\ Current.last <= db.last /\ db.last <= db.last
  BY <1>2, OpenTables
<1>6. OutputInv'
  BY <1>1, <1>2, <1>3, SameFiles DEF OutputInv, TableEntries
<1>7. UpTo(TableEntries(Named(bg.edit)), bg.edit.last)'
  <2>1. TableEntries(Named(bg.edit))' = disk.tables[bg.output]
    BY <1>2, <1>3 DEF TableEntries
  <2>2. disk.tables[bg.output] = TableEntries(bg.inputs)
    BY <1>1, <1>4 DEF OutputInv
  <2> QED
    BY <1>3, <1>5, <2>1, <2>2 DEF UpTo
<1> QED
  BY <1>2, <1>3, <1>5, <1>6, <1>7, QuietContained

\* An edit changes what the manifest names, not what is found: a table holds what
\* it replaces, the memtable of the logs that are given up or the inputs of a merge.
\* Logs that the manifest has passed are in its tables.
LEMMA AppliedFinds ==
  ASSUME Inv, bg.at \in {"logging", "mergeLogging"},
         disk'.logs = disk.logs, disk'.tables = disk.tables,
         Current' = Applied(Current, bg.edit)
  PROVE  /\ Found' = Found /\ Firm \subseteq Firm'
         /\ TableEntries(Named(Current)) \subseteq TableEntries(Named(Current'))
         /\ db.log <= Current'.log
         /\ \A n \in DOMAIN disk.logs : db.log <= n /\ n < Current'.log =>
              LogEntries(disk.logs[n]) \subseteq TableEntries(Named(Current'))
         /\ bg.at = "logging" =>
              Named(Current) \subseteq Named(Current') /\ Current'.log = db.logfile
<1>1. /\ TypeInv /\ db.status = "open" /\ Live /\ BgNumbers /\ EditNumbers /\ LiveNumbers
  BY OpenWhen DEF Inv, TypeInv, Numbers
<1>2. OutputInv /\ ImmInv /\ VersionTables
  BY DEF Inv, Contained
<1> DEFINE old == bg.edit.inputs  new == Named(bg.edit)  low == Current.log  log == bg.edit.log
<1>3. Named(Current') = (Named(Current) \ old) \cup new /\ Current'.log = log
  BY <1>1, AppliedIs, NumberTypes
<1>4. /\ low \in Nat /\ log \in Nat /\ db.logfile \in Nat /\ db.log \in Nat
      /\ DOMAIN disk.logs \in SUBSET Nat
  BY <1>1, NumberTypes
<1>5. db.log <= low /\ low <= db.logfile /\ \A n \in DOMAIN disk.logs : n <= db.logfile
  BY <1>1, <1>2 DEF LiveNumbers, ImmInv
<1>6. \A S : TableEntries(S)' = TableEntries(S)
  BY DEF TableEntries
<1>7. /\ TableEntries(old) \subseteq TableEntries(new)
      /\ TableEntries(new) \subseteq Contents
      /\ \/ log = db.log
         \/ log = db.logfile /\ TableEntries(new) = db.imm
      /\ bg.at = "logging" => old = {} /\ log = db.logfile
  <2>1. CASE bg.at = "logging"
    <3>1. old = {} /\ new = {bg.table} /\ log = db.logfile
      BY <1>1, <2>1 DEF EditNumbers
    <3>2. TableEntries(new) = db.imm
      BY <1>2, <2>1, <3>1 DEF OutputInv, TableEntries
    <3>3. TableEntries(old) = {}
      BY <3>1 DEF TableEntries
    <3> QED
      BY <3>1, <3>2, <3>3 DEF Contents
  <2>2. CASE bg.at = "mergeLogging"
    <3>1. old = bg.inputs /\ new = {bg.output} /\ log = db.log
      BY <1>1, <2>2 DEF EditNumbers, MergeEnds
    <3>2. bg.inputs # {} /\ bg.output \in DOMAIN disk.tables /\ bg.inputs \subseteq Named(db)
      BY <1>1, <2>2 DEF BgNumbers, EditNumbers
    <3>3. TableEntries(new) = TableEntries(bg.inputs)
      BY <1>2, <3>1, <3>2 DEF OutputInv, TableEntries
    <3>4. TableEntries(bg.inputs) \subseteq TableEntries(Named(db))
      BY <3>2 DEF TableEntries
    <3> QED
      BY <2>2, <3>1, <3>3, <3>4 DEF Contents, Named
  <2> QED
    BY <2>1, <2>2
<1>8. Contents \subseteq Found
  BY <1>2 DEF VersionTables
<1>9. ASSUME NEW n \in DOMAIN disk.logs, db.log <= n, n < db.logfile
      PROVE  /\ LogEntries(disk.logs[n]) \subseteq db.imm
             /\ FirmEntries(disk.logs[n]) \subseteq db.imm
  <2>1. LogEntries(disk.logs[n]) \subseteq db.imm
    BY <1>1, <1>2, <1>9 DEF ImmInv
  <2>2. FirmEntries(disk.logs[n]) \subseteq LogEntries(disk.logs[n])
    BY DEF FirmEntries, LogEntries
  <2> QED
    BY <2>1, <2>2
<1> HIDE DEF old, new, low, log
<1>10. /\ TableEntries(Named(Current)) \subseteq TableEntries(Named(Current'))
       /\ TableEntries(new) \subseteq TableEntries(Named(Current'))
       /\ TableEntries(Named(Current')) \subseteq TableEntries(Named(Current)) \cup TableEntries(new)
  <2>1. TableEntries(Named(Current)) \subseteq TableEntries(Named(Current) \ old) \cup TableEntries(old)
    BY DEF TableEntries
  <2>2. TableEntries(Named(Current')) = TableEntries(Named(Current) \ old) \cup TableEntries(new)
    BY <1>3 DEF TableEntries
  <2>3. TableEntries(Named(Current) \ old) \subseteq TableEntries(Named(Current))
    BY DEF TableEntries
  <2> QED
    BY <1>7, <2>1, <2>2, <2>3
<1>11. /\ Found = TableEntries(Named(Current)) \cup LogsFrom(low)
       /\ Found' = TableEntries(Named(Current')) \cup LogsFrom(log)
  <2>1. TableEntries(Named(Current))' = TableEntries(Named(Current'))
    BY DEF TableEntries
  <2>2. LogsFrom(Current.log)' = LogsFrom(log)
    BY <1>3 DEF LogsFrom
  <2> QED
    BY <2>1, <2>2 DEF Found, low
<1>12. ASSUME NEW n \in DOMAIN disk.logs, n >= low, ~(n >= log)
       PROVE  /\ LogEntries(disk.logs[n]) \subseteq TableEntries(new)
              /\ FirmEntries(disk.logs[n]) \subseteq TableEntries(new)
  <2>1. n \in Nat /\ db.log <= n /\ n < log
    BY <1>4, <1>5, <1>12
  <2>2. log = db.logfile /\ TableEntries(new) = db.imm
    BY <1>4, <1>7, <2>1
  <2> QED
    BY <1>9, <2>1, <2>2
<1>13. ASSUME NEW n \in DOMAIN disk.logs, n >= log, ~(n >= low)
       PROVE  LogEntries(disk.logs[n]) \subseteq db.imm
  <2>1. n \in Nat /\ n < db.logfile /\ log <= n
    BY <1>4, <1>5, <1>13
  <2>2. log = db.log
    BY <1>4, <1>7, <2>1
  <2> QED
    BY <1>9, <2>1, <2>2
<1>14. db.imm \subseteq Found
  BY <1>8 DEF Contents
<1>15. Found \subseteq Found'
  <2>1. LogsFrom(low) \subseteq LogsFrom(log) \cup TableEntries(new)
    BY <1>12 DEF LogsFrom
  <2> QED
    BY <1>10, <1>11, <2>1
<1>16. Found' \subseteq Found
  <2>1. LogsFrom(log) \subseteq LogsFrom(low) \cup db.imm
    BY <1>13 DEF LogsFrom
  <2> QED
    BY <1>7, <1>8, <1>10, <1>11, <1>14, <2>1
<1>17. Firm \subseteq Firm'
  <2> DEFINE firm(S) == UNION {FirmEntries(disk.logs[n]) : n \in S}
             A == {n \in DOMAIN disk.logs : n >= low}
             B == {n \in DOMAIN disk.logs : n >= log}
  <2>1. Firm = TableEntries(Named(Current)) \cup firm(A)
    BY DEF Firm, LogsToReplay, low
  <2>2. Firm' = TableEntries(Named(Current')) \cup firm(B)
    <3>1. TableEntries(Named(Current))' = TableEntries(Named(Current'))
      BY DEF TableEntries
    <3>2. LogsToReplay(Current)' = B
      BY <1>3 DEF LogsToReplay
    <3> QED
      BY <3>1, <3>2 DEF Firm
  <2>3. firm(A) \subseteq firm(B) \cup TableEntries(new)
    BY <1>12
  <2> QED
    BY <1>10, <2>1, <2>2, <2>3
<1>18. ASSUME NEW n \in DOMAIN disk.logs, db.log <= n, n < log
       PROVE  LogEntries(disk.logs[n]) \subseteq TableEntries(Named(Current'))
  <2>1. CASE n >= low
    <3>1. ~(n >= log)
      BY <1>4, <1>18
    <3> QED
      BY <1>10, <1>12, <2>1, <3>1
  <2>2. CASE n < low
    <3>1. LogEntries(disk.logs[n]) \subseteq TableEntries(Named(Current))
      BY <1>1, <1>2, <1>18, <2>2 DEF ImmInv, low
    <3> QED
      BY <1>10, <3>1
  <2> QED
    BY <1>4, <2>1, <2>2
<1>19. db.log <= Current'.log
  BY <1>3, <1>4, <1>5, <1>7
<1> QED
  BY <1>3, <1>7, <1>10, <1>15, <1>16, <1>17, <1>18, <1>19

\* The manifest takes the edit or stays as it is.
LEMMA EditContained ==
  ASSUME Inv, bg.at \in {"logging", "mergeLogging"},
         disk'.logs = disk.logs, disk'.tables = disk.tables,
         Current' = Current \/ Current' = Applied(Current, bg.edit),
         writing'.queue = writing.queue, writing'.at = writing.at,
         writing'.group = writing.group, answered' = answered,
         left'.damage = left.damage, left'.crashes = left.crashes,
         db'.status = "open", db'.mem = db.mem, db'.imm = db.imm, db'.hasImm = db.hasImm,
         db'.last = db.last, db'.log = db.log, db'.logfile = db.logfile,
         db'.l0 = db.l0, db'.l1 = db.l1, db.error => db'.error,
         bg'.at \notin {"logging", "mergeLogging"},
         bg'.at = "installing" => bg.at = "logging" /\ Current' = Applied(Current, bg.edit),
         OutputInv', ManifestInv'
  PROVE  Contained' /\ Found' = Found
<1>1. /\ TypeInv /\ FileSide /\ WriterSide /\ Budget /\ Live /\ Live' /\ db.status = "open"
      /\ EditNumbers /\ BgNumbers
  BY Sides, OpenWhen DEF Inv, TypeInv, Numbers, Live
<1>2. Found' = Found /\ Firm \subseteq Firm'
  <2>1. CASE Current' = Current
    BY <2>1, FoundOf
  <2>2. CASE Current' = Applied(Current, bg.edit)
    BY <2>2, AppliedFinds
  <2> QED
    BY <2>1, <2>2
<1>3. Contents' = Contents
  BY DEF Contents, TableEntries
<1>4. \A S : TableEntries(S)' = TableEntries(S)
  BY DEF TableEntries
<1>5. /\ Current.last \in Nat /\ bg.edit.last \in Nat /\ db.last \in Nat
      /\ Current \in Manifest /\ bg.edit \in Edit
  BY <1>1, NumberTypes
<1>6. /\ Current.last <= bg.edit.last /\ bg.edit.last <= db.last
      /\ UpTo(TableEntries(Named(bg.edit)), bg.edit.last)
      /\ UpTo(TableEntries(Named(Current)), Current.last)
      /\ ~Current.corrupt /\ Current.inStep /\ Named(Current) \subseteq DOMAIN disk.tables
      /\ Current.last <= db.last
  BY <1>1 DEF WriterSide, SequenceInv, FileSide, Readability
<1>7. Found \subseteq Entry /\ TableEntries(Named(Current)) \subseteq Found
  BY <1>1, FoundType DEF FileSide, Found
<1>8. Readability' /\ Current'.last <= db.last
  <2>1. CASE Current' = Current
    BY <1>4, <1>6, <2>1 DEF Readability, UpTo, TableEntries
  <2>2. CASE Current' = Applied(Current, bg.edit)
    <3>1. /\ Named(Current') = (Named(Current) \ bg.edit.inputs) \cup Named(bg.edit)
          /\ Current'.last = bg.edit.last /\ ~Current'.corrupt /\ Current'.inStep
      <4> DEFINE A == Applied(Current, bg.edit)
      <4>1. /\ Named(A) = (Named(Current) \ bg.edit.inputs) \cup Named(bg.edit)
            /\ A.last = bg.edit.last /\ A.inStep = Current.inStep
            /\ A.corrupt = Current.corrupt
        BY <1>5, AppliedIs
      <4>2. Current' = A
        BY <2>2
      <4> HIDE DEF A
      <4>3. A.inStep /\ ~A.corrupt
        BY <1>6, <4>1, Zenon
      <4> QED
        BY <4>1, <4>2, <4>3
    <3>2. Named(bg.edit) \subseteq DOMAIN disk.tables
      BY <1>1 DEF EditNumbers, MergeEnds
    <3>3. Named(Current') \subseteq DOMAIN disk'.tables
      BY <1>6, <3>1, <3>2
    <3>4. ASSUME NEW e \in TableEntries(Named(Current)) PROVE e.seq <= bg.edit.last
      <4>1. e.seq \in Nat /\ e.seq <= Current.last
        BY <1>6, <1>7 DEF UpTo, Entry
      <4> QED
        BY <1>5, <1>6, <4>1
    <3>5. ASSUME NEW e \in TableEntries(Named(Current))' PROVE e.seq <= bg.edit.last
      <4>1. TableEntries(Named(Current))' \subseteq
              TableEntries(Named(Current)) \cup TableEntries(Named(bg.edit))
        BY <3>1 DEF TableEntries
      <4> QED
        BY <1>6, <3>4, <4>1 DEF UpTo
    <3>6. UpTo(TableEntries(Named(Current)), Current.last)'
      BY <3>1, <3>5 DEF UpTo
    <3> QED
      BY <1>6, <3>1, <3>3, <3>6 DEF Readability
  <2> QED
    BY <2>1, <2>2
<1>9. VersionTables' /\ NoMemory' /\ Replaying' /\ AllReplayed'
  BY <1>1, <1>2, <1>3 DEF FileSide, VersionTables, NoMemory, Replaying, AllReplayed
<1>10. ImmInv'
  <2>1. ImmInv
    BY <1>1 DEF FileSide
  <2>2. /\ db'.log <= Current'.log
        /\ bg'.at = "installing" => Current'.log = db.logfile
        /\ \A n \in DOMAIN disk.logs : db.log <= n /\ n < Current'.log =>
             LogEntries(disk.logs[n]) \subseteq TableEntries(Named(Current'))
    <3>1. CASE Current' = Applied(Current, bg.edit)
      BY <3>1, AppliedFinds
    <3>2. CASE Current' = Current /\ bg'.at # "installing"
      BY <1>1, <2>1, <3>2 DEF ImmInv
    <3> QED
      BY <3>1, <3>2
  <2>3. TableEntries(Named(Current))' = TableEntries(Named(Current'))
    BY DEF TableEntries
  <2> QED
    BY <1>1, <2>1, <2>2, <2>3 DEF ImmInv
<1>11. Readability
  BY <1>1 DEF FileSide
<1>12. /\ Entitled' /\ QueueInv' /\ LogInv' /\ AckInv'
       /\ UpTo(Found' \ GroupEntries', db'.last)
  BY <1>1, <1>2, <1>11, WriterSideKept
<1>13. SequenceInv'
  BY <1>8, <1>12 DEF SequenceInv
<1> QED
  BY <1>1, <1>2, <1>8, <1>9, <1>10, <1>12, <1>13, Sides DEF WriterSide, Budget, Contained, FileSide

\* The memtable's table takes the place of its log in the manifest.
LEMMA LogMemTableContained ==
  ASSUME Inv, LogMemTable \/ LogMerge
  PROVE  /\ Contained' /\ Found' = Found
         /\ disk'.logs = disk.logs /\ disk'.tables = disk.tables
         /\ Current' = Applied(Current, bg.edit)
<1>1. /\ TypeInv /\ Shape /\ db.status = "open" /\ Live /\ bg.at \in {"logging", "mergeLogging"}
      /\ LogEdit(bg.edit) /\ UNCHANGED <<db, writing, answered, left>> /\ bg \in BgState
  BY OpenWhen DEF LogMemTable, LogMerge, Inv, TypeInv, Shape
<1>2. /\ bg'.at = (IF bg.at = "logging" THEN "installing" ELSE "mergeInstalling")
      /\ bg'.edit = bg.edit /\ bg'.table = bg.table
      /\ bg'.inputs = bg.inputs /\ bg'.output = bg.output
  BY <1>1 DEF LogMemTable, LogMerge, BgState
<1>3. /\ disk'.logs = disk.logs /\ disk'.tables = disk.tables
      /\ Current' = Applied(Current, bg.edit) /\ Current \in Manifest /\ bg.edit \in Edit
  <2>1. Current.inStep /\ Named(bg.edit) \subseteq DOMAIN disk.tables
    BY <1>1 DEF Inv, Contained, Readability, TypeInv, Numbers, EditNumbers, MergeEnds
  <2> QED
    BY <1>1, <2>1, NumberTypes, LogEditDoes, LiveFacts DEF OnlyCurrent
<1>4. OutputInv /\ ManifestInv
  BY DEF Inv, Contained
<1>5. OutputInv'
  <2>1. bg'.at # "mergeInstalling" => bg'.inputs \subseteq Named(Current')
    BY <1>1, <1>2, <1>3, <1>4, AppliedFinds DEF OutputInv
  <2> QED
    BY <1>1, <1>2, <1>3, <1>4, <2>1 DEF OutputInv, TableEntries
<1>6. ManifestInv'
  <2>1. /\ Named(Current') = (Named(Current) \ bg.edit.inputs) \cup Named(bg.edit)
        /\ Current'.log = bg.edit.log
    BY <1>3, AppliedIs
  <2>2. ~db.error => Named(Current) = Named(db)
    BY <1>1, <1>4 DEF ManifestInv
  <2> QED
    BY <1>1, <1>2, <2>1, <2>2 DEF ManifestInv
<1> QED
  BY <1>1, <1>2, <1>3, <1>5, <1>6, EditContained

\* An edit that fails may be in the manifest or not; what is found is the same.
LEMMA LogEditFailsContained ==
  ASSUME Inv, LogMemTableFails \/ LogMergeFails, Undamaged'
  PROVE  /\ Contained' /\ Found' = Found
         /\ disk'.logs = disk.logs /\ disk'.tables = disk.tables
         /\ Current' = Current \/ Current' = Applied(Current, bg.edit)
<1>1. /\ TypeInv /\ Shape /\ db.status = "open" /\ Live /\ bg.at \in {"logging", "mergeLogging"}
      /\ LogEditFails(bg.edit) /\ UNCHANGED answered /\ bg \in BgState /\ db \in Db
      /\ Within /\ left.damage = MaxDamage
  BY OpenWhen DEF LogMemTableFails, LogMergeFails, MergeEndsBadly, Inv, TypeInv, Shape, Contained
<1>2. MayFail /\ left' = OneError /\ (disk' = disk \/ LogEdit(bg.edit))
  <2>1. CASE MayDamage /\ left' = OneDamage
    <3>1. left'.damage < left.damage /\ left'.damage = left.damage /\ left.damage \in Nat
      BY <1>1, <2>1, LeftTypes DEF Undamaged, Within, Bounds
    <3> QED
      BY <3>1
  <2> QED
    BY <1>1, <2>1 DEF LogEditFails
<1>3. left'.damage = left.damage /\ left'.crashes = left.crashes
  BY <1>1, <1>2, LeftTypes
<1>4. /\ disk'.logs = disk.logs /\ disk'.tables = disk.tables
      /\ Current' = Current \/ Current' = Applied(Current, bg.edit)
  <2>1. CASE disk' = disk
    BY <2>1 DEF Current
  <2>2. CASE LogEdit(bg.edit)
    <3>1. Current.inStep /\ Named(bg.edit) \subseteq DOMAIN disk.tables
      BY <1>1 DEF Inv, Contained, Readability, TypeInv, Numbers, EditNumbers, MergeEnds
    <3> QED
      BY <1>1, <2>2, <3>1, NumberTypes, LogEditDoes, LiveFacts DEF OnlyCurrent
  <2> QED
    BY <1>2, <2>1, <2>2
<1>5. db' = RecordBackgroundError(db)
  BY DEF LogMemTableFails, LogMergeFails, MergeEndsBadly, MemTableFails
<1>6. /\ writing'.queue = writing.queue /\ writing'.at = writing.at
      /\ writing'.group = writing.group
      /\ bg'.at \notin {"logging", "installing", "mergeLogging", "mergeInstalling"}
      /\ \/ bg'.inputs = {}
         \/ bg.inputs # {} /\ bg'.inputs = bg.inputs /\ bg'.output = bg.output
  BY <1>1, EndsAre DEF LogMemTableFails, LogMergeFails, MergeEndsBadly, MemTableFails
<1>7. OutputInv'
  <2>1. OutputInv
    BY DEF Inv, Contained
  <2>2. bg'.inputs \subseteq Named(Current')
    <3>1. CASE bg'.inputs = {}
      BY <3>1
    <3>2. CASE bg'.inputs = bg.inputs /\ bg.at = "logging"
      BY <1>4, <2>1, <3>2, AppliedFinds DEF OutputInv
    <3>3. bg.at = "mergeLogging" => bg'.inputs = {}
      <4> SUFFICES ASSUME bg.at = "mergeLogging" PROVE bg'.inputs = {}
        OBVIOUS
      <4>1. BackgroundCallEnds(db') /\ writing \in WriterState
        BY <1>1 DEF LogMemTableFails, LogMergeFails, MergeEndsBadly, Shape
      <4> QED
        BY <4>1, BackgroundCallEndsTypes
    <3> QED
      BY <1>1, <1>6, <3>1, <3>2, <3>3
  <2>3. bg'.at \notin {"logging", "installing"}
    BY <1>6
  <2> QED
    BY <1>4, <1>6, <2>1, <2>2, <2>3 DEF OutputInv, TableEntries
<1>8. db'.error
  BY <1>1, <1>5, ErrorRecorded
<1>9. ManifestInv'
  BY <1>8 DEF ManifestInv
<1> QED
  BY <1>1, <1>3, <1>4, <1>5, <1>6, <1>7, <1>8, <1>9, ErrorRecorded, EditContained

\* Obsolete files are those that neither the manifest nor the version names.
LEMMA DeletedFinds ==
  ASSUME TypeInv, Live, disk' = DeleteObsoleteFiles(db'), Current' = Current,
         Named(Current) \subseteq DOMAIN disk.tables,
         db'.log \in Nat, ~db'.error => Named(Current) = Named(db') /\ Current.log = db'.log
  PROVE  /\ Found' = Found /\ Firm' = Firm /\ StoreKept
         /\ Named(Current) \subseteq DOMAIN disk'.tables
         /\ DOMAIN disk'.tables \subseteq DOMAIN disk.tables
         /\ \A n \in DOMAIN disk'.tables : disk'.tables[n] = disk.tables[n]
         /\ \A n \in Named(db') \cup PendingOutputs :
              n \in DOMAIN disk.tables => n \in DOMAIN disk'.tables
         /\ DOMAIN disk'.logs \subseteq DOMAIN disk.logs
         /\ \A n \in DOMAIN disk'.logs : disk'.logs[n] = disk.logs[n]
<1>1. /\ DOMAIN disk'.logs = {n \in DOMAIN disk.logs : ~db'.error => n >= db'.log}
      /\ DOMAIN disk'.tables =
           {n \in DOMAIN disk.tables : ~db'.error => n \in Named(db') \cup PendingOutputs}
      /\ \A n \in DOMAIN disk'.logs : disk'.logs[n] = disk.logs[n]
      /\ \A n \in DOMAIN disk'.tables : disk'.tables[n] = disk.tables[n]
  BY DeleteDoes DEF TypeInv, DeletesFiles
<1>2. Named(Current) \subseteq DOMAIN disk'.tables
  BY <1>1
<1>3. ASSUME NEW n \in DOMAIN disk.logs, n >= Current.log
      PROVE  n \in DOMAIN disk'.logs /\ disk'.logs[n] = disk.logs[n]
  BY <1>1, <1>3
<1>4. Found' = Found /\ Firm' = Firm /\ StoreKept
  BY <1>1, <1>2, <1>3, FoundOf
<1> QED
  BY <1>1, <1>2, <1>4

\* A version is installed and obsolete files are deleted: the same is shown.
LEMMA InstallContained ==
  ASSUME Inv, db.status = "open", db'.status = "open", Current' = Current,
         Found' = Found, Firm' = Firm, StoreKept, Contents' = Contents,
         Named(Current) \subseteq DOMAIN disk'.tables,
         \A n \in Named(Current) : disk'.tables[n] = disk.tables[n],
         disk'.logs[db.logfile] = disk.logs[db.logfile],
         writing'.queue = writing.queue, writing'.at = writing.at,
         writing'.group = writing.group, answered' = answered, left' = left,
         db'.mem = db.mem, db'.last = db.last, db'.logfile = db.logfile, db'.error = db.error,
         db'.imm \subseteq db.imm,
         bg'.at \notin {"logging", "mergeLogging"},
         ImmInv', ManifestInv', OutputInv'
  PROVE  Contained' /\ Found' = Found /\ StoreKept
<1>1. /\ TypeInv /\ FileSide /\ WriterSide /\ Budget /\ Live /\ Live'
  BY Sides DEF Inv, Live
<1>2. TableEntries(Named(Current))' = TableEntries(Named(Current))
  BY DEF TableEntries
<1>3. Readability' /\ VersionTables'
  BY <1>1, <1>2 DEF FileSide, Readability, VersionTables
<1>4. NoMemory' /\ Replaying' /\ AllReplayed'
  BY DEF NoMemory, Replaying, AllReplayed
<1>5. Readability
  BY <1>1 DEF FileSide
<1>6. /\ Entitled' /\ QueueInv' /\ LogInv' /\ AckInv'
      /\ UpTo(Found' \ GroupEntries', db'.last)
  BY <1>1, <1>5, WriterSideKept
<1>7. SequenceInv'
  BY <1>1, <1>6 DEF WriterSide, SequenceInv
<1> QED
  BY <1>1, <1>3, <1>4, <1>6, <1>7, Sides DEF WriterSide, Budget, Contained, FileSide

\* The log is obsolete: what it holds is in the table.
LEMMA InstallMemTableContained ==
  ASSUME Inv, InstallMemTable
  PROVE  Contained' /\ Found' = Found /\ StoreKept
<1>1. /\ TypeInv /\ Shape /\ db.status = "open" /\ Live /\ bg.at = "installing"
      /\ disk' = DeleteObsoleteFiles(db') /\ CompactMemTableEnds(db')
      /\ UNCHANGED <<answered, left>>
  BY OpenWhen DEF InstallMemTable, Inv, TypeInv
<1>2. /\ Current' = Current
      /\ Named(db') = Named(db) \cup {bg.table} /\ db'.log = db.logfile
      /\ db'.status = "open" /\ db'.logfile = db.logfile /\ db'.mem = db.mem
      /\ db'.imm = {} /\ ~db'.hasImm /\ db'.last = db.last /\ db'.error = db.error
  BY <1>1, InstallMemTableTypes
<1>3. /\ bg.edit.inputs = {} /\ Named(bg.edit) = {bg.table} /\ bg.edit.log = db.logfile
      /\ bg.table \in DOMAIN disk.tables
      /\ bg.inputs \subseteq Named(db) /\ Named(db) \subseteq DOMAIN disk.tables
  BY <1>1 DEF TypeInv, Numbers, EditNumbers, BgNumbers, LiveNumbers
<1>4. /\ OutputInv /\ ManifestInv /\ ImmInv /\ Named(Current) \subseteq DOMAIN disk.tables
      /\ Current.log = db.logfile
  BY <1>1 DEF Inv, Contained, Readability, ImmInv
<1>5. ~db'.error => Named(Current) = Named(db') /\ Current.log = db'.log
  BY <1>1, <1>2, <1>3, <1>4 DEF ManifestInv
<1>6. /\ Found' = Found /\ Firm' = Firm /\ StoreKept
      /\ Named(Current) \subseteq DOMAIN disk'.tables
      /\ DOMAIN disk'.tables \subseteq DOMAIN disk.tables
      /\ \A n \in DOMAIN disk'.tables : disk'.tables[n] = disk.tables[n]
      /\ \A n \in Named(db') \cup PendingOutputs :
           n \in DOMAIN disk.tables => n \in DOMAIN disk'.tables
      /\ DOMAIN disk'.logs \subseteq DOMAIN disk.logs
      /\ \A n \in DOMAIN disk'.logs : disk'.logs[n] = disk.logs[n]
  <2>1. db'.log \in Nat
    BY <1>1, <1>2, NumberTypes
  <2>2. TypeInv /\ Live /\ disk' = DeleteObsoleteFiles(db')
    BY <1>1
  <2> QED
    BY <1>2, <1>4, <1>5, <2>1, <2>2, DeletedFinds
<1>7. /\ writing'.queue = writing.queue /\ writing'.at = writing.at
      /\ writing'.group = writing.group
      /\ bg'.at \notin {"logging", "installing", "mergeLogging", "mergeInstalling"}
      /\ \/ bg'.inputs = {}
         \/ bg.inputs # {} /\ bg'.inputs = bg.inputs /\ bg'.output = bg.output
  BY <1>1, EndsAre
<1>8. \A n \in Named(db') : n \in DOMAIN disk'.tables /\ disk'.tables[n] = disk.tables[n]
  BY <1>2, <1>3, <1>6
<1>9. Contents' = Contents
  <2>1. TableEntries(Named(db))' = TableEntries(Named(db)) \cup disk.tables[bg.table]
    BY <1>2, <1>8 DEF TableEntries
  <2>2. disk.tables[bg.table] = db.imm
    BY <1>1, <1>4 DEF OutputInv
  <2>3. /\ Contents = db.mem \cup db.imm \cup TableEntries(Named(db))
        /\ Contents' = db'.mem \cup db'.imm \cup TableEntries(Named(db))'
    BY DEF Contents, Named
  <2> QED
    BY <1>2, <2>1, <2>2, <2>3
<1>10. disk'.logs[db.logfile] = disk.logs[db.logfile]
  BY <1>1, <1>2, <1>6, InstallMemTableTypes DEF TypeInv, Numbers, LiveNumbers, Live
<1>11. ImmInv'
  <2>1. \A n \in DOMAIN disk'.logs : ~(db'.log <= n /\ n < db'.logfile)
    <3>1. \A n \in DOMAIN disk'.logs : n \in Nat
      BY <1>1, <1>6, NumberTypes
    <3>2. db.logfile \in Nat
      BY <1>1, NumberTypes
    <3> QED
      BY <1>2, <3>1, <3>2
  <2>2. db'.log = Current'.log /\ db'.log <= Current'.log
    BY <1>1, <1>2, <1>4, NumberTypes
  <2> QED
    BY <1>2, <1>4, <1>7, <2>1, <2>2 DEF ImmInv
<1>12. ManifestInv'
  BY <1>2, <1>5, <1>7 DEF ManifestInv
<1>13. OutputInv'
  <2>1. ASSUME bg.inputs # {}, bg.output \in DOMAIN disk'.tables
        PROVE  disk'.tables[bg.output] = UNION {disk'.tables[n] : n \in bg.inputs}
    <3>1. disk'.tables[bg.output] = UNION {disk.tables[n] : n \in bg.inputs}
      BY <1>4, <1>6, <2>1 DEF OutputInv, TableEntries
    <3>2. \A n \in bg.inputs : disk'.tables[n] = disk.tables[n]
      BY <1>2, <1>3, <1>8
    <3> QED
      BY <3>1, <3>2
  <2>2. bg'.inputs \subseteq Named(Current')
    BY <1>1, <1>2, <1>4, <1>7 DEF OutputInv
  <2> QED
    BY <1>7, <2>1, <2>2 DEF OutputInv, TableEntries
<1>14. \A n \in Named(Current) : disk'.tables[n] = disk.tables[n]
  BY <1>6
<1> QED
  BY <1>1, <1>2, <1>6, <1>7, <1>9, <1>10, <1>11, <1>12, <1>13, <1>14, InstallContained

\* The inputs are obsolete: what they hold is in the output.
LEMMA InstallMergeContained ==
  ASSUME Inv, InstallMerge
  PROVE  Contained' /\ Found' = Found /\ StoreKept
<1>1. /\ TypeInv /\ Shape /\ db.status = "open" /\ Live /\ bg.at = "mergeInstalling"
      /\ db' = Installed(db, bg.edit) /\ db \in Db
      /\ disk' = DeleteObsoleteFiles(db') /\ BackgroundCallEnds(db')
      /\ UNCHANGED <<answered, left>>
  BY OpenWhen DEF InstallMerge, Inv, TypeInv, Shape
<1>2. /\ bg.edit.inputs = bg.inputs /\ Named(bg.edit) = {bg.output} /\ bg.edit.log = db.log
      /\ bg.output \in DOMAIN disk.tables /\ bg.inputs # {}
      /\ bg.inputs \subseteq Named(db) /\ Named(db) \subseteq DOMAIN disk.tables
  BY <1>1 DEF TypeInv, Numbers, EditNumbers, BgNumbers, LiveNumbers, MergeEnds
<1>3. /\ Named(db') = (Named(db) \ bg.inputs) \cup {bg.output} /\ db'.log = db.log
      /\ db'.status = "open" /\ db'.logfile = db.logfile /\ db'.mem = db.mem
      /\ db'.imm = db.imm /\ db'.hasImm = db.hasImm /\ db'.last = db.last
      /\ db'.error = db.error
  BY <1>1, <1>2, NumberTypes, InstalledIs
<1>4. OutputInv /\ ManifestInv /\ ImmInv /\ Named(Current) \subseteq DOMAIN disk.tables
  BY DEF Inv, Contained, Readability
<1>5. ~db'.error => Named(Current) = Named(db') /\ Current.log = db'.log
  BY <1>1, <1>2, <1>3, <1>4 DEF ManifestInv
<1>6. Current' = Current
  <2>1. /\ disk'.current = disk.current
        /\ DOMAIN disk'.manifests =
             {n \in DOMAIN disk.manifests : DeletesFiles(db') => n >= db'.manifest}
        /\ \A n \in DOMAIN disk'.manifests : disk'.manifests[n] = disk.manifests[n]
    <3>1. Shape /\ disk' = DeleteObsoleteFiles(db')
      BY <1>1
    <3> QED
      BY <3>1, DeleteDoes
  <2>2. db'.manifest = disk.current /\ disk.current \in DOMAIN disk.manifests
    BY <1>1, NumberTypes, InstalledIs, LiveFacts
  <2>3. disk.current \in Nat
    BY <1>1, <2>2, NumberTypes
  <2>4. disk.current >= db'.manifest
    BY <2>2, <2>3
  <2> QED
    BY <2>1, <2>2, <2>4 DEF Current
<1>7. /\ Found' = Found /\ Firm' = Firm /\ StoreKept
      /\ Named(Current) \subseteq DOMAIN disk'.tables
      /\ DOMAIN disk'.tables \subseteq DOMAIN disk.tables
      /\ \A n \in DOMAIN disk'.tables : disk'.tables[n] = disk.tables[n]
      /\ \A n \in Named(db') \cup PendingOutputs :
           n \in DOMAIN disk.tables => n \in DOMAIN disk'.tables
      /\ DOMAIN disk'.logs \subseteq DOMAIN disk.logs
      /\ \A n \in DOMAIN disk'.logs : disk'.logs[n] = disk.logs[n]
  <2>1. db'.log \in Nat
    BY <1>1, <1>3, NumberTypes
  <2>2. TypeInv /\ Live /\ disk' = DeleteObsoleteFiles(db')
    BY <1>1
  <2> QED
    BY <1>4, <1>5, <1>6, <2>1, <2>2, DeletedFinds
<1>8. /\ writing'.queue = writing.queue /\ writing'.at = writing.at
      /\ writing'.group = writing.group /\ bg'.at \in {"none", "scheduled"} /\ bg'.inputs = {}
  <2>1. Shape /\ BackgroundCallEnds(db') /\ writing \in WriterState
    BY <1>1 DEF Shape
  <2> QED
    BY <2>1, EndsAre, BackgroundCallEndsTypes
<1>9. \A n \in Named(db') : n \in DOMAIN disk'.tables /\ disk'.tables[n] = disk.tables[n]
  BY <1>2, <1>3, <1>7
<1>10. Contents' = Contents
  <2>1. TableEntries(Named(db))' = TableEntries(Named(db) \ bg.inputs) \cup disk.tables[bg.output]
    BY <1>3, <1>9 DEF TableEntries
  <2>2. disk.tables[bg.output] = TableEntries(bg.inputs)
    BY <1>2, <1>4 DEF OutputInv
  <2>3. TableEntries(Named(db)) = TableEntries(Named(db) \ bg.inputs) \cup TableEntries(bg.inputs)
    BY <1>2 DEF TableEntries
  <2>4. /\ Contents = db.mem \cup db.imm \cup TableEntries(Named(db))
        /\ Contents' = db'.mem \cup db'.imm \cup TableEntries(Named(db))'
    BY DEF Contents, Named
  <2> QED
    BY <1>3, <2>1, <2>2, <2>3, <2>4
<1>11. disk'.logs[db.logfile] = disk.logs[db.logfile]
  BY <1>1, <1>3, <1>7, InstallMergeTypes DEF TypeInv, Numbers, LiveNumbers, Live
<1>12. ImmInv'
  <2>1. TableEntries(Named(Current))' = TableEntries(Named(Current))
    BY <1>6, <1>7 DEF TableEntries
  <2> QED
    BY <1>1, <1>3, <1>4, <1>6, <1>7, <1>8, <2>1 DEF ImmInv
<1>13. ManifestInv' /\ OutputInv'
  BY <1>3, <1>5, <1>6, <1>8 DEF ManifestInv, OutputInv
<1>14. \A n \in Named(Current) : disk'.tables[n] = disk.tables[n]
  BY <1>7
<1> QED
  BY <1>1, <1>3, <1>6, <1>7, <1>8, <1>10, <1>11, <1>12, <1>13, <1>14, InstallContained

-----------------------------------------------------------------------------
(* What the files hold: DB::Open.                                          *)

\* While nobody writes, what is found stays as entitled as it was.
LEMMA OpeningWriterSide ==
  ASSUME TypeInv, WriterSide, db.status # "open", db'.status # "open",
         UNCHANGED <<writing, bg, answered>>, left'.crashes = left.crashes,
         Found' = Found, Firm \subseteq Firm',
         Live' => Current'.last <= db'.last /\ LogInv'
  PROVE  WriterSide'
<1>1. writing = NoWriting /\ bg = NoBackground
  BY OpeningFacts
<1>2. /\ writing.at = "idle" /\ writing'.at = "idle" /\ bg'.at = "none"
  BY <1>1 DEF NoWriting, NoBackground
<1>3. GroupEntries = {} /\ GroupEntries' = {}
  BY <1>2 DEF GroupEntries, Recorded
<1>4. Entitled' /\ AckInv'
  BY <1>3, EntitledKept, AckKept DEF WriterSide
<1>5. QueueInv'
  BY DEF WriterSide, QueueInv
<1>6. LogInv' /\ SequenceInv'
  BY <1>2 DEF LogInv, SequenceInv, Live
<1> QED
  BY <1>4, <1>5, <1>6 DEF WriterSide

\* The files' side of a database that is not on its manifest yet, or no longer.
LEMMA NotLiveFileSide ==
  ASSUME ~Live', bg' = NoBackground, db'.mem = {}, db'.imm = {}, ~db'.hasImm, ~db'.error,
         ~Current'.corrupt, (Named(Current) \subseteq DOMAIN disk.tables)',
         UpTo(TableEntries(Named(Current)), Current.last)',
         ~Starting' => Named(db') = {},
         VersionTables', Replaying', AllReplayed'
  PROVE  FileSide'
<1>1. db'.status # "open"
  BY DEF Live
<1>2. Readability' /\ NoMemory'
  BY DEF Readability, NoMemory
<1>3. ImmInv' /\ ManifestInv'
  BY DEF ImmInv, ManifestInv
<1>4. OutputInv'
  BY DEF OutputInv, NoBackground
<1> QED
  BY <1>2, <1>3, <1>4 DEF FileSide

\* DB::Open reads the manifest.
LEMMA RecoverContained ==
  ASSUME Inv, Recover
  PROVE  Contained' /\ Found' = Found /\ StoreKept
<1>1. /\ TypeInv /\ FileSide /\ WriterSide /\ Budget /\ db.status = "down"
      /\ UNCHANGED <<disk, writing, bg, answered, left>> /\ bg = NoBackground
  BY Sides, OpeningFacts DEF Recover, Inv
<1>2. /\ ~Current.corrupt /\ Named(Current) \subseteq DOMAIN disk.tables
      /\ UpTo(TableEntries(Named(Current)), Current.last)
  BY <1>1 DEF FileSide, Readability
<1>3. db' = [Closed EXCEPT !.status = "replaying", !.last = Current.last,
                 !.next = Current.next + 1, !.log = Current.log, !.l0 = Current.l0,
                 !.l1 = Current.l1, !.manifest = Current.next,
                 !.replay = LogsToReplay(Current)]
  BY <1>2, Zenon DEF Recover, Current, Named
<1> DEFINE replay == LogsToReplay(Current)  next == Current.next + 1
<1>4. db' = [Closed EXCEPT !.status = "replaying", !.last = Current.last,
                 !.next = next, !.log = Current.log, !.l0 = Current.l0,
                 !.l1 = Current.l1, !.manifest = Current.next, !.replay = replay]
  BY <1>3
<1> HIDE DEF replay, next
<1>5. /\ db'.status = "replaying" /\ db'.mem = {} /\ db'.imm = {} /\ ~db'.hasImm /\ ~db'.error
      /\ db'.l0 = Current.l0 /\ db'.l1 = Current.l1 /\ db'.replay = replay
      /\ db'.last = Current.last
  BY <1>4 DEF Closed
<1>6. /\ Current' = Current /\ Found' = Found /\ Firm' = Firm /\ StoreKept
      /\ \A S : TableEntries(S)' = TableEntries(S)
  BY <1>1, SameFiles
<1>7. ~Live' /\ Starting' /\ db.status # "open" /\ db'.status # "open"
  BY <1>1, <1>5 DEF Live, Starting
<1>8. Contents' = TableEntries(Named(Current))
  BY <1>5, <1>6 DEF Contents, Named
<1>9. VersionTables'
  BY <1>2, <1>5, <1>6, <1>8 DEF VersionTables, Found
<1>10. Replaying'
  <2>1. TableEntries(Named(db))' = TableEntries(Named(Current))
    BY <1>5, <1>6 DEF Named
  <2>2. (UNION {LogEntries(disk.logs[n]) : n \in db.replay})' = LogsFrom(Current.log)
    BY <1>1, <1>5 DEF LogsFrom, LogsToReplay, replay
  <2> QED
    BY <1>6, <2>1, <2>2 DEF Replaying, Found
<1>11. AllReplayed'
  BY <1>5 DEF AllReplayed
<1>12. /\ ~Current'.corrupt /\ (Named(Current) \subseteq DOMAIN disk.tables)'
       /\ UpTo(TableEntries(Named(Current)), Current.last)'
  BY <1>1, <1>2, <1>6 DEF UpTo, TableEntries
<1>13. FileSide'
  BY <1>1, <1>5, <1>7, <1>9, <1>10, <1>11, <1>12, NotLiveFileSide
<1>14. WriterSide'
  BY <1>1, <1>6, <1>7, OpeningWriterSide
<1> QED
  BY <1>1, <1>6, <1>13, <1>14, Sides DEF WriterSide, Budget, Contained, FileSide

\* Outside an open database a version is all there is to show.
LEMMA VersionShown ==
  ASSUME db.mem = {}, db.imm = {}
  PROVE  Contents = TableEntries(Named(db))
BY DEF Contents, Named

\* What every step of DB::Open starts from.
LEMMA WhileStarting ==
  ASSUME Inv, Starting
  PROVE  /\ TypeInv /\ FileSide /\ WriterSide /\ Budget /\ db.status # "open"
         /\ writing = NoWriting /\ bg = NoBackground /\ ~db.error
         /\ db.mem = {} /\ db.imm = {} /\ ~db.hasImm
         /\ db.manifest = Current.next /\ Current.next < db.next
         /\ Below(Named(db), db.next) /\ Named(db) \subseteq DOMAIN disk.tables
         /\ ~Current.corrupt /\ Named(Current) \subseteq DOMAIN disk.tables
         /\ Below(Named(Current), db.next)
         /\ UpTo(TableEntries(Named(Current)), Current.last)
         /\ UpTo(TableEntries(Named(db)), db.last) /\ TableEntries(Named(db)) \subseteq Found
         /\ Found \subseteq Entry
<1>1. /\ TypeInv /\ FileSide /\ WriterSide /\ Budget /\ db.status # "open"
  BY Sides DEF Inv, Starting
<1>2. /\ writing = NoWriting /\ bg = NoBackground /\ ~db.error
  BY <1>1, OpeningFacts
<1>3. db.mem = {} /\ db.imm = {} /\ ~db.hasImm
  BY <1>1 DEF FileSide, NoMemory
<1>4. /\ db.manifest = Current.next /\ Current.next < db.next
      /\ Below(Named(db), db.next) /\ Named(db) \subseteq DOMAIN disk.tables
  BY <1>1 DEF TypeInv, Numbers, StartNumbers
<1>5. /\ ~Current.corrupt /\ Named(Current) \subseteq DOMAIN disk.tables
      /\ UpTo(TableEntries(Named(Current)), Current.last)
  BY <1>1 DEF FileSide, Readability
<1>6. Below(Named(Current), db.next)
  <2>1. Below(Named(Current), Current.next)
    BY <1>1 DEF TypeInv, Numbers, ManifestNumbers
  <2>2. Named(Current) \in SUBSET Nat /\ Current.next \in Nat /\ db.next \in Nat
    BY <1>1, NumberTypes
  <2> QED
    BY <1>4, <2>1, <2>2 DEF Below
<1>7. UpTo(TableEntries(Named(db)), db.last) /\ TableEntries(Named(db)) \subseteq Found
  BY <1>1, <1>3, VersionShown DEF FileSide, VersionTables
<1>8. Found \subseteq Entry
  BY <1>1, FoundType DEF FileSide
<1> QED
  BY <1>1, <1>2, <1>3, <1>4, <1>5, <1>6, <1>7, <1>8

\* It replays the oldest log that is left.
LEMMA ReplayLogContained ==
  ASSUME Inv, ReplayLog
  PROVE  Contained' /\ Found' = Found /\ StoreKept
<1>1. /\ Inv /\ Starting /\ TypeInv /\ ReplayLog /\ db.status = "replaying"
  <2>1. db.status = "replaying"
    BY DEF ReplayLog
  <2>2. TypeInv
    BY DEF Inv
  <2> QED
    BY <2>1, <2>2 DEF Starting
<1>0. PICK n \in db.replay :
         /\ Replayed(n, LogEntries(disk.logs[n])) /\ disk.logs[n] \in Log
         /\ UNCHANGED <<writing, bg, answered, left>>
  <2>1. PICK n \in db.replay, log \in Log :
          Replayed(n, LogEntries(log)) /\ log = disk.logs[n]
    BY <1>1, ReplayLogDoes
  <2> QED
    BY <1>1, <2>1 DEF ReplayLog
<1>2. /\ n \in LogsToReplay(Current) /\ disk.logs[n] \in Log
      /\ UNCHANGED <<writing, bg, answered, left>>
      /\ disk' \in Disk /\ disk'.logs = disk.logs /\ disk'.manifests = disk.manifests
      /\ disk'.current = disk.current
      /\ DOMAIN disk.tables \subseteq DOMAIN disk'.tables
      /\ LogEntries(disk.logs[n]) # {} => /\ disk'.tables[db.next] = LogEntries(disk.logs[n])
                                         /\ db.next \in DOMAIN disk'.tables
      /\ \A k \in DOMAIN disk.tables : k # db.next => disk'.tables[k] = disk.tables[k]
      /\ db' \in Db /\ db'.status = "replaying" /\ db'.log = db.log
      /\ db'.mem = db.mem /\ db'.imm = db.imm
      /\ db'.hasImm = db.hasImm /\ db'.error = db.error
      /\ db'.replay = db.replay \ {n}
      /\ db'.last = LastSequence(LogEntries(disk.logs[n]))
      /\ Named(db') = Named(db) \cup (IF LogEntries(disk.logs[n]) = {} THEN {} ELSE {db.next})
  BY <1>0 DEF Replayed
<1> DEFINE entries == LogEntries(disk.logs[n])
<1>3. /\ TypeInv /\ FileSide /\ WriterSide /\ Budget /\ db.status # "open"
      /\ writing = NoWriting /\ bg = NoBackground /\ ~db.error
      /\ db.mem = {} /\ db.imm = {} /\ ~db.hasImm
      /\ Below(Named(db), db.next) /\ Named(db) \subseteq DOMAIN disk.tables
      /\ ~Current.corrupt /\ Named(Current) \subseteq DOMAIN disk.tables
      /\ Below(Named(Current), db.next)
      /\ UpTo(TableEntries(Named(Current)), Current.last)
      /\ UpTo(TableEntries(Named(db)), db.last) /\ TableEntries(Named(db)) \subseteq Found
      /\ Found \subseteq Entry
  BY <1>1, WhileStarting
<1>4. db.next \in Nat /\ Named(db) \in SUBSET Nat /\ Named(Current) \in SUBSET Nat /\ db.last \in Nat
  BY <1>1, NumberTypes
<1>5. db.next \notin Named(db) /\ db.next \notin Named(Current)
  <2>1. ~(db.next < db.next)
    BY <1>4
  <2> QED
    BY <1>3, <2>1 DEF Below
<1>6. Current' = Current
  BY <1>2 DEF Current
<1>7. /\ \A k \in Named(Current) : disk'.tables[k] = disk.tables[k]
      /\ \A k \in Named(db) : disk'.tables[k] = disk.tables[k]
  BY <1>2, <1>3, <1>5
<1>8. Found' = Found /\ Firm' = Firm /\ StoreKept
  BY <1>2, <1>6, <1>7, FoundOf
<1>9. TableEntries(Named(db))' = TableEntries(Named(db)) \cup entries
  <2>1. CASE entries = {}
    BY <1>2, <1>7, <2>1 DEF TableEntries
  <2>2. CASE entries # {}
    <3>1. /\ Named(db') = Named(db) \cup {db.next} /\ disk'.tables[db.next] = entries
      BY <1>2, <2>2
    <3> HIDE DEF entries
    <3> QED
      BY <1>7, <3>1 DEF TableEntries
  <2> QED
    BY <2>1, <2>2
<1>10. entries \subseteq Found
  BY <1>2 DEF Found, LogsFrom, LogsToReplay
<1>11. /\ db'.last \in Nat /\ db.last <= db'.last /\ \A e \in entries : e.seq <= db'.last
  <2>1. Shape
    BY <1>1 DEF TypeInv
  <2> QED
    BY <1>2, <2>1, LastSequenceIsLast
<1> HIDE DEF entries
<1>12. Contents' = TableEntries(Named(db))'
  BY <1>2, <1>3 DEF Contents, Named
<1>13. VersionTables'
  <2>1. ASSUME NEW e \in TableEntries(Named(db)) PROVE e.seq <= db'.last
    <3>1. e.seq \in Nat /\ e.seq <= db.last
      BY <1>3 DEF UpTo, Entry
    <3> QED
      BY <1>4, <1>11, <3>1
  <2> QED
    BY <1>3, <1>8, <1>9, <1>10, <1>11, <1>12, <2>1 DEF VersionTables, UpTo
<1>14. Replaying'
  <2>1. Found \subseteq TableEntries(Named(db)) \cup UNION {LogEntries(disk.logs[k]) : k \in db.replay}
    BY <1>1, <1>3 DEF FileSide, Replaying
  <2>2. UNION {LogEntries(disk.logs[k]) : k \in db.replay}
          \subseteq entries \cup UNION {LogEntries(disk.logs[k]) : k \in db.replay \ {n}}
    BY DEF entries
  <2>3. (UNION {LogEntries(disk.logs[k]) : k \in db.replay})'
          = UNION {LogEntries(disk.logs[k]) : k \in db.replay \ {n}}
    BY <1>2
  <2>4. Found' \subseteq TableEntries(Named(db))' \cup (UNION {LogEntries(disk.logs[k]) : k \in db.replay})'
    BY <1>8, <1>9, <2>1, <2>2, <2>3
  <2> QED
    BY <2>4 DEF Replaying
<1>15. AllReplayed'
  BY <1>2 DEF AllReplayed
<1>16. ~Live' /\ Starting' /\ db'.status # "open"
  BY <1>2 DEF Live, Starting
<1>17. /\ ~Current'.corrupt /\ (Named(Current) \subseteq DOMAIN disk.tables)'
       /\ UpTo(TableEntries(Named(Current)), Current.last)'
  <2>1. TableEntries(Named(Current))' = TableEntries(Named(Current))
    BY <1>6, <1>7 DEF TableEntries
  <2> QED
    BY <1>2, <1>3, <1>6, <2>1
<1>18. FileSide'
  BY <1>2, <1>3, <1>13, <1>14, <1>15, <1>16, <1>17, NotLiveFileSide
<1>19. WriterSide'
  BY <1>2, <1>3, <1>8, <1>16, OpeningWriterSide
<1> QED
  BY <1>2, <1>3, <1>8, <1>18, <1>19, Sides DEF WriterSide, Budget, Contained, FileSide

\* It creates a new log.
LEMMA NewLogContained ==
  ASSUME Inv, NewLog
  PROVE  Contained' /\ Found' = Found /\ StoreKept
<1>1. /\ db.status = "replaying" /\ db.replay = {} /\ UNCHANGED <<writing, bg, answered, left>>
      /\ disk' = [disk EXCEPT !.logs = With(@, db.next, EmptyLog)]
      /\ db' = [db EXCEPT !.status = "saving", !.logfile = db.next, !.log = db.next,
                          !.next = @ + 1]
      /\ TypeInv /\ disk \in Disk /\ db \in Db
  BY DEF NewLog, Inv, TypeInv, Shape
<1>2. /\ FileSide /\ WriterSide /\ Budget /\ db.status # "open"
      /\ writing = NoWriting /\ bg = NoBackground /\ ~db.error
      /\ db.mem = {} /\ db.imm = {} /\ ~db.hasImm
      /\ Current.next < db.next
      /\ ~Current.corrupt /\ Named(Current) \subseteq DOMAIN disk.tables
      /\ UpTo(TableEntries(Named(Current)), Current.last)
      /\ UpTo(TableEntries(Named(db)), db.last) /\ TableEntries(Named(db)) \subseteq Found
  BY <1>1, WhileStarting DEF Starting
<1>3. EmptyLog \in Log /\ db.next \in Nat
  BY <1>1, NumberTypes DEF EmptyLog, Log
<1>4. /\ disk'.tables = disk.tables
      /\ disk'.manifests = disk.manifests /\ disk'.current = disk.current
      /\ DOMAIN disk'.logs = DOMAIN disk.logs \cup {db.next}
      /\ disk'.logs[db.next] = EmptyLog
      /\ \A m \in DOMAIN disk.logs : m # db.next => disk'.logs[m] = disk.logs[m]
  BY <1>1, <1>3, AddLog
<1> DEFINE file == db.next  next == db.next + 1
<1>5. db' = [db EXCEPT !.status = "saving", !.logfile = file, !.log = file, !.next = next]
  BY <1>1
<1> HIDE DEF file, next
<1>6. /\ db'.status = "saving" /\ db'.log = file /\ db'.mem = db.mem /\ db'.imm = db.imm
      /\ db'.hasImm = db.hasImm /\ db'.error = db.error /\ db'.l0 = db.l0 /\ db'.l1 = db.l1
      /\ db'.last = db.last
  BY <1>1, <1>5 DEF Db
<1>7. Current' = Current /\ Named(db') = Named(db) /\ \A S : TableEntries(S)' = TableEntries(S)
  BY <1>4, <1>6 DEF Current, Named, TableEntries
<1>8. db.next >= Current.log /\ db.next \notin DOMAIN disk.logs
  <2>1. Current.log < Current.next /\ Current.next \in Nat /\ Current.log \in Nat
    BY <1>1, NumberTypes DEF TypeInv, Numbers, ManifestNumbers
  <2>2. db.next >= Current.log /\ ~(db.next < db.next)
    BY <1>2, <1>3, <2>1
  <2>3. Below(LogsToReplay(Current), db.next)
    BY <1>1 DEF TypeInv, Numbers, ReplayNumbers
  <2>4. db.next \notin LogsToReplay(Current)
    BY <2>2, <2>3 DEF Below
  <2> QED
    BY <2>2, <2>4 DEF LogsToReplay
<1>9. Found' = Found /\ Firm' = Firm /\ StoreKept
  BY <1>4, <1>7, <1>8, EmptyLogFinds
<1>10. Contents' = TableEntries(Named(db))
  BY <1>2, <1>6, <1>7 DEF Contents, Named
<1>11. VersionTables' /\ Replaying'
  BY <1>2, <1>6, <1>9, <1>10 DEF VersionTables, Replaying
<1>12. AllReplayed'
  <2>1. Found \subseteq TableEntries(Named(db))
    BY <1>1, <1>2 DEF FileSide, Replaying
  <2>2. disk'.logs[db'.log] = EmptyLog
    BY <1>4, <1>6 DEF file
  <2> QED
    BY <1>7, <1>9, <2>1, <2>2 DEF AllReplayed
<1>13. ~Live' /\ Starting' /\ db'.status # "open"
  BY <1>6 DEF Live, Starting
<1>14. /\ ~Current'.corrupt /\ (Named(Current) \subseteq DOMAIN disk.tables)'
       /\ UpTo(TableEntries(Named(Current)), Current.last)'
  BY <1>2, <1>4, <1>7
<1>15. FileSide'
  BY <1>1, <1>2, <1>6, <1>11, <1>12, <1>13, <1>14, NotLiveFileSide
<1>16. WriterSide'
  BY <1>1, <1>2, <1>9, <1>13, OpeningWriterSide
<1> QED
  BY <1>1, <1>2, <1>9, <1>15, <1>16, Sides DEF WriterSide, Budget, Contained, FileSide

\* It writes a new manifest, which CURRENT does not name yet.
LEMMA SaveManifestContained ==
  ASSUME Inv, SaveManifest
  PROVE  Contained' /\ Found' = Found /\ StoreKept
<1>1. /\ db.status = "saving" /\ UNCHANGED <<writing, bg, answered, left>>
      /\ disk' = [disk EXCEPT !.manifests = With(@, db.manifest, NewManifest)]
      /\ db' = [db EXCEPT !.status = "pointing"]
      /\ TypeInv /\ disk \in Disk /\ db \in Db
  BY DEF SaveManifest, NewManifest, Inv, TypeInv, Shape
<1>2. /\ FileSide /\ WriterSide /\ Budget /\ db.status # "open"
      /\ writing = NoWriting /\ bg = NoBackground /\ ~db.error
      /\ db.mem = {} /\ db.imm = {} /\ ~db.hasImm
      /\ db.manifest = Current.next
      /\ ~Current.corrupt /\ Named(Current) \subseteq DOMAIN disk.tables
      /\ UpTo(TableEntries(Named(Current)), Current.last)
      /\ UpTo(TableEntries(Named(db)), db.last) /\ TableEntries(Named(db)) \subseteq Found
  BY <1>1, WhileStarting DEF Starting
<1>3. NewManifest \in Manifest /\ db.manifest \in Nat
  BY <1>1, NumberTypes DEF NewManifest, Manifest
<1>4. /\ disk'.logs = disk.logs /\ disk'.tables = disk.tables /\ disk'.current = disk.current
      /\ \A m \in DOMAIN disk.manifests : m # db.manifest => disk'.manifests[m] = disk.manifests[m]
  <2> HIDE DEF NewManifest
  <2> QED
    BY <1>1, <1>3, AddManifest
<1>5. /\ db'.status = "pointing" /\ db'.log = db.log /\ db'.mem = db.mem /\ db'.imm = db.imm
      /\ db'.hasImm = db.hasImm /\ db'.error = db.error /\ db'.l0 = db.l0 /\ db'.l1 = db.l1
      /\ db'.last = db.last
  BY <1>1 DEF Db
<1>6. disk.current # db.manifest /\ disk.current \in DOMAIN disk.manifests
  BY <1>1, <1>2, NumberTypes DEF TypeInv, Numbers, ManifestNumbers
<1>7. Current' = Current /\ Named(db') = Named(db) /\ \A S : TableEntries(S)' = TableEntries(S)
  BY <1>4, <1>5, <1>6 DEF Current, Named, TableEntries
<1>8. Found' = Found /\ Firm' = Firm /\ StoreKept
  BY <1>4, <1>7, FoundOf
<1>9. Contents' = TableEntries(Named(db))
  BY <1>2, <1>5, <1>7 DEF Contents, Named
<1>10. VersionTables' /\ Replaying'
  BY <1>2, <1>5, <1>8, <1>9 DEF VersionTables, Replaying
<1>11. AllReplayed'
  BY <1>1, <1>2, <1>4, <1>5, <1>7, <1>8 DEF FileSide, AllReplayed
<1>12. ~Live' /\ Starting' /\ db'.status # "open"
  BY <1>5 DEF Live, Starting
<1>13. /\ ~Current'.corrupt /\ (Named(Current) \subseteq DOMAIN disk.tables)'
       /\ UpTo(TableEntries(Named(Current)), Current.last)'
  BY <1>2, <1>4, <1>7
<1>14. FileSide'
  BY <1>1, <1>2, <1>5, <1>10, <1>11, <1>12, <1>13, NotLiveFileSide
<1>15. WriterSide'
  BY <1>1, <1>2, <1>8, <1>12, OpeningWriterSide
<1> QED
  BY <1>1, <1>2, <1>8, <1>14, <1>15, Sides DEF WriterSide, Budget, Contained, FileSide

\* What is found is in the new version alone, and so it stays when CURRENT moves to it.
LEMMA SetCurrentFileContained ==
  ASSUME Inv, SetCurrentFile
  PROVE  /\ Contained' /\ Found' = Found
         /\ StoredWrites' = WritesOf(Found) /\ LoggedGroups' = {}
<1>1. /\ db.status = "pointing" /\ UNCHANGED <<writing, bg, answered, left>>
      /\ disk' = [disk EXCEPT !.current = db.manifest]
      /\ db' = [db EXCEPT !.status = "installing"]
      /\ TypeInv /\ disk \in Disk /\ db \in Db /\ Starting
  BY DEF SetCurrentFile, Inv, TypeInv, Shape, Starting
<1>2. /\ FileSide /\ WriterSide /\ Budget /\ db.status # "open"
      /\ writing = NoWriting /\ bg = NoBackground /\ ~db.error
      /\ db.mem = {} /\ db.imm = {} /\ ~db.hasImm
      /\ Named(db) \subseteq DOMAIN disk.tables
      /\ UpTo(TableEntries(Named(db)), db.last) /\ TableEntries(Named(db)) \subseteq Found
  BY <1>1, WhileStarting
<1>3. /\ disk'.logs = disk.logs /\ disk'.tables = disk.tables
  BY <1>1 DEF Disk
<1>4. /\ db'.status = "installing" /\ db'.log = db.log /\ db'.logfile = db.logfile
      /\ db'.mem = db.mem /\ db'.imm = db.imm
      /\ db'.hasImm = db.hasImm /\ db'.error = db.error /\ db'.l0 = db.l0 /\ db'.l1 = db.l1
      /\ db'.last = db.last
  BY <1>1 DEF Db
<1>5. /\ Named(Current') = Named(db) /\ Current'.log = db.log /\ Current'.last = db.last
      /\ ~Current'.corrupt /\ Current'.inStep
  BY <1>1, SetCurrentFileTypes DEF NewManifest, Named
<1>6. Named(db') = Named(db) /\ \A S : TableEntries(S)' = TableEntries(S)
  BY <1>3, <1>4 DEF Named, TableEntries
<1>7. /\ db.log = db.logfile /\ db.log \in DOMAIN disk.logs /\ db.log \in Nat
      /\ \A n \in DOMAIN disk.logs : n \in Nat /\ n <= db.log
      /\ disk.logs[db.log] = EmptyLog /\ Found \subseteq TableEntries(Named(db))
  BY <1>1, <1>2, NumberTypes DEF TypeInv, Numbers, StartNumbers, FileSide, AllReplayed
<1>8. LogEntries(disk.logs[db.log]) = {}
  BY <1>7, EmptyLogHasNone
<1>9. Found' = TableEntries(Named(db)) /\ Found' = Found /\ Firm \subseteq Firm'
  <2>1. \A n \in DOMAIN disk.logs : n >= db.log => n = db.log
    BY <1>7
  <2>2. LogsFrom(Current.log)' = {}
    BY <1>3, <1>5, <1>8, <2>1 DEF LogsFrom
  <2>3. TableEntries(Named(Current))' = TableEntries(Named(db))
    BY <1>5, <1>6
  <2>4. Found' = TableEntries(Named(db))
    BY <2>2, <2>3 DEF Found
  <2>5. TableEntries(Named(db)) \subseteq Firm'
    BY <2>3 DEF Firm
  <2> QED
    BY <1>2, <1>7, <2>4, <2>5, FirmIsFound
<1>10. Contents' = TableEntries(Named(db))
  BY <1>2, <1>4, <1>6 DEF Contents, Named
<1>11. Live' /\ ~Starting' /\ db'.status # "open"
  BY <1>4 DEF Live, Starting
<1>12. VersionTables' /\ Readability'
  <2>1. VersionTables'
    BY <1>2, <1>4, <1>9, <1>10 DEF VersionTables
  <2> QED
    BY <1>2, <1>3, <1>5, <1>6, <2>1 DEF Readability
<1>13. NoMemory' /\ Replaying' /\ AllReplayed'
  BY <1>2, <1>4, <1>11 DEF NoMemory, Replaying, AllReplayed
<1>14. ImmInv'
  <2>1. \A n \in DOMAIN disk.logs : ~(db.log <= n /\ n < db.logfile)
    BY <1>7
  <2>2. db'.log <= Current'.log /\ \A n \in DOMAIN disk.logs : ~(db.log <= n /\ n < Current'.log)
    BY <1>4, <1>5, <1>7
  <2>3. bg'.at = "none"
    BY <1>1, <1>2 DEF NoBackground
  <2> QED
    BY <1>2, <1>3, <1>4, <2>1, <2>2, <2>3 DEF ImmInv
<1>15. ManifestInv' /\ OutputInv'
  BY <1>1, <1>2, <1>4, <1>5, <1>6 DEF ManifestInv, OutputInv, NoBackground
<1>16. FileSide'
  BY <1>12, <1>13, <1>14, <1>15 DEF FileSide
<1>17. LogInv'
  <2>1. ~Recorded' /\ writing'.at = "idle"
    BY <1>1, <1>2 DEF Recorded, NoWriting
  <2>2. disk'.logs[db'.logfile].inStep
    BY <1>3, <1>4, <1>7 DEF EmptyLog
  <2>3. LogEntries(disk'.logs[db'.logfile]) = {}
    BY <1>3, <1>4, <1>7, <1>8
  <2> QED
    BY <2>1, <2>2, <2>3 DEF LogInv
<1>18. Current'.last <= db'.last
  BY <1>1, <1>4, <1>5, NumberTypes
<1>19. WriterSide'
  BY <1>1, <1>2, <1>9, <1>11, <1>17, <1>18, OpeningWriterSide
<1>20. StoredWrites' = WritesOf(Found)
  <2>1. TableEntries(Named(Current))' = TableEntries(Named(db))
    BY <1>5, <1>6
  <2>2. StoredWrites' = WritesOf(TableEntries(Named(Current))')
    BY DEF StoredWrites, WritesOf
  <2> QED
    BY <1>9, <2>1, <2>2
<1>21. LoggedGroups' = {}
  <2>1. \A n \in LogsToReplay(Current)' : n = db.log
    BY <1>3, <1>5, <1>7 DEF LogsToReplay
  <2>2. disk'.logs[db.log].records = <<>>
    BY <1>3, <1>7 DEF EmptyLog
  <2>3. \A n \in LogsToReplay(Current)' : ToSet(disk'.logs[n].records) = {}
    BY <2>1, <2>2 DEF ToSet
  <2>4. RecordsToReplay' = {}
    BY <2>3, RecordsAreNext
  <2> QED
    BY <2>4 DEF LoggedGroups
<1> QED
  BY <1>1, <1>2, <1>9, <1>16, <1>19, <1>20, <1>21, Sides
     DEF WriterSide, Budget, Contained, FileSide

\* It fails: the files hold what they held.
LEMMA OpenFailsContained ==
  ASSUME Inv, OpenFails
  PROVE  Contained' /\ Found' = Found /\ StoreKept
<1>1. /\ Starting /\ MayFail /\ left' = OneError /\ TypeInv /\ Shape
      /\ UNCHANGED <<writing, bg, answered>> /\ db' = [Closed EXCEPT !.status = "failed"]
  BY DEF OpenFails, Starting, Inv, TypeInv
<1>2. /\ FileSide /\ WriterSide /\ Budget /\ db.status # "open"
      /\ writing = NoWriting /\ bg = NoBackground
      /\ ~Current.corrupt /\ Named(Current) \subseteq DOMAIN disk.tables
      /\ UpTo(TableEntries(Named(Current)), Current.last)
  BY <1>1, WhileStarting
<1>3. Current' = Current /\ disk'.logs = disk.logs /\ disk'.tables = disk.tables
  BY <1>1, OpenFailsTypes
<1>4. Found' = Found /\ Firm' = Firm /\ StoreKept /\ \A S : TableEntries(S)' = TableEntries(S)
  BY <1>3, FoundOf DEF TableEntries
<1>5. /\ db'.status = "failed" /\ db'.mem = {} /\ db'.imm = {} /\ ~db'.hasImm /\ ~db'.error
      /\ db'.l0 = {} /\ db'.l1 = {}
  BY <1>1 DEF Closed
<1>6. ~Live' /\ ~Starting' /\ db'.status # "open"
  BY <1>5 DEF Live, Starting
<1>7. Contents' = {} /\ Named(db') = {}
  BY <1>5 DEF Contents, Named, TableEntries
<1>8. VersionTables' /\ Replaying' /\ AllReplayed'
  BY <1>5, <1>7 DEF VersionTables, Replaying, AllReplayed, UpTo
<1>9. /\ ~Current'.corrupt /\ (Named(Current) \subseteq DOMAIN disk.tables)'
      /\ UpTo(TableEntries(Named(Current)), Current.last)'
  BY <1>2, <1>3, <1>4
<1>10. FileSide'
  BY <1>1, <1>2, <1>5, <1>6, <1>7, <1>8, <1>9, NotLiveFileSide
<1>11. left'.crashes = left.crashes /\ left'.damage = left.damage
  BY <1>1, LeftTypes DEF Shape
<1>12. WriterSide'
  BY <1>1, <1>2, <1>4, <1>6, <1>11, OpeningWriterSide
<1> QED
  BY <1>2, <1>4, <1>10, <1>11, <1>12, Sides DEF WriterSide, Budget, Contained, FileSide

\* Without an error, what a restart would find is what the database shows, and the
\* group that is being written.
LEMMA ShownIsFound ==
  ASSUME Inv, Live, ~db.error
  PROVE  Found \subseteq Contents \cup GroupEntries
<1>1. TypeInv /\ FileSide /\ WriterSide
  BY Sides DEF Inv
<1>2. ASSUME NEW n \in DOMAIN disk.logs, n >= Current.log
      PROVE  LogEntries(disk.logs[n]) \subseteq Contents \cup GroupEntries
  <2>1. /\ db.log <= Current.log /\ n <= db.logfile /\ n \in Nat /\ db.log \in Nat
        /\ Current.log \in Nat /\ db.logfile \in Nat
    BY <1>1, NumberTypes DEF TypeInv, Numbers, LiveNumbers
  <2>2. CASE n = db.logfile
    BY <1>1, <2>2 DEF WriterSide, LogInv, Contents
  <2>3. CASE n # db.logfile
    <3>1. db.log <= n /\ n < db.logfile
      BY <1>2, <2>1, <2>3
    <3> QED
      BY <1>1, <3>1 DEF FileSide, ImmInv, Contents
  <2> QED
    BY <2>2, <2>3
<1>3. LogsFrom(Current.log) \subseteq Contents \cup GroupEntries
  BY <1>2 DEF LogsFrom
<1>4. TableEntries(Named(db)) \cup db.imm \subseteq Contents
  BY DEF Contents, Named
<1>5. TableEntries(Named(Current)) \subseteq Contents
  <2>1. CASE bg.at \notin {"installing", "mergeInstalling"}
    BY <1>1, <1>4, <2>1 DEF FileSide, ManifestInv
  <2>2. CASE bg.at = "installing"
    <3>1. /\ Named(Current) = Named(db) \cup {bg.table} /\ disk.tables[bg.table] = db.imm
      BY <1>1, <2>2 DEF FileSide, ManifestInv, OutputInv, TypeInv, Numbers, EditNumbers
    <3> QED
      BY <1>4, <3>1 DEF TableEntries
  <2>3. CASE bg.at = "mergeInstalling"
    <3>1. /\ Named(Current) \subseteq Named(db) \cup {bg.output}
          /\ disk.tables[bg.output] = TableEntries(bg.inputs) /\ bg.inputs \subseteq Named(db)
      BY <1>1, <2>3 DEF FileSide, ManifestInv, OutputInv, TypeInv, Numbers, EditNumbers,
                        BgNumbers, MergeEnds
    <3> QED
      BY <1>4, <3>1 DEF TableEntries
  <2> QED
    BY <2>1, <2>2, <2>3
<1> QED
  BY <1>3, <1>5 DEF Found

\* It removes what is obsolete, and is through.
LEMMA OpenedContained ==
  ASSUME Inv, Opened
  PROVE  Contained' /\ Found' = Found /\ StoreKept
<1>1. /\ db.status = "installing" /\ UNCHANGED <<writing, answered, left>>
      /\ disk' = DeleteObsoleteFiles(db) /\ db' = [db EXCEPT !.status = "open"]
      /\ bg' = Scheduled(db) /\ Live /\ TypeInv /\ Shape /\ db \in Db
      /\ FileSide /\ WriterSide /\ Budget
  BY Sides DEF Opened, Inv, TypeInv, Shape, Live
<1>2. writing = NoWriting /\ bg = NoBackground /\ ~db.error
  BY <1>1, OpeningFacts
<1>3. /\ db'.status = "open" /\ db'.logfile = db.logfile /\ db'.log = db.log
      /\ db'.l0 = db.l0 /\ db'.l1 = db.l1 /\ db'.mem = db.mem /\ db'.imm = db.imm
      /\ db'.hasImm = db.hasImm /\ db'.last = db.last
      /\ db'.manifest = db.manifest /\ db'.error = db.error
  BY <1>1 DEF Db
<1>4. Named(db') = Named(db) /\ Live'
  BY <1>3 DEF Named, Live
<1>5. Shape /\ disk' = DeleteObsoleteFiles(db')
  BY <1>1, <1>3 DEF DeleteObsoleteFiles, DeletesFiles, ManifestsToKeep
<1>6. /\ Named(Current) = Named(db) /\ Current.log = db.log
      /\ ~Current.corrupt /\ Current.inStep /\ Named(Current) \subseteq DOMAIN disk.tables
      /\ UpTo(TableEntries(Named(Current)), Current.last)
  BY <1>1, <1>2 DEF FileSide, ManifestInv, Readability, NoBackground
<1>7. Current' = Current
  <2>1. /\ disk'.current = disk.current
        /\ DOMAIN disk'.manifests =
             {n \in DOMAIN disk.manifests : DeletesFiles(db') => n >= db'.manifest}
        /\ \A n \in DOMAIN disk'.manifests : disk'.manifests[n] = disk.manifests[n]
    BY <1>5, DeleteDoes
  <2>2. db'.manifest = disk.current /\ disk.current \in DOMAIN disk.manifests
    BY <1>1, <1>3, LiveFacts
  <2>3. disk.current \in Nat
    BY <1>1, <2>2, NumberTypes
  <2>4. disk.current >= db'.manifest
    BY <2>2, <2>3
  <2> QED
    BY <2>1, <2>2, <2>4 DEF Current
<1>8. /\ Found' = Found /\ Firm' = Firm /\ StoreKept
      /\ Named(Current) \subseteq DOMAIN disk'.tables
      /\ \A n \in DOMAIN disk'.tables : disk'.tables[n] = disk.tables[n]
      /\ DOMAIN disk'.logs \subseteq DOMAIN disk.logs
      /\ \A n \in DOMAIN disk'.logs : disk'.logs[n] = disk.logs[n]
  <2>1. /\ TypeInv /\ Live /\ disk' = DeleteObsoleteFiles(db') /\ db'.log \in Nat
        /\ (~db'.error => Named(Current) = Named(db') /\ Current.log = db'.log)
    BY <1>1, <1>3, <1>4, <1>5, <1>6, NumberTypes
  <2> QED
    BY <1>6, <1>7, <2>1, DeletedFinds
<1>9. /\ \A n \in Named(db) : disk'.tables[n] = disk.tables[n]
      /\ TableEntries(Named(Current))' = TableEntries(Named(Current))
      /\ Contents' = Contents
  <2>1. \A n \in Named(db) : disk'.tables[n] = disk.tables[n]
    BY <1>6, <1>8
  <2>2. TableEntries(Named(db))' = TableEntries(Named(db))
    BY <1>4, <2>1 DEF TableEntries
  <2>3. Contents' = Contents
    BY <1>3, <2>2 DEF Contents, Named
  <2> QED
    BY <1>4, <1>6, <1>7, <2>1, <2>2, <2>3
<1>10. disk'.logs[db.logfile] = disk.logs[db.logfile]
  <2>1. db.logfile \in DOMAIN disk'.logs
    BY <1>1, <1>3, <1>4, OpenedTypes DEF TypeInv, Numbers, LiveNumbers
  <2> QED
    BY <1>8, <2>1
<1>11. /\ writing.at = "idle" /\ ~Recorded /\ ~Recorded' /\ GroupEntries = {} /\ GroupEntries' = {}
       /\ bg'.at \in {"none", "scheduled"} /\ bg'.inputs = {} /\ bg.at = "none"
  BY <1>1, <1>2, ScheduledIs DEF Recorded, GroupEntries, NoWriting, NoBackground
<1>12. Readability' /\ VersionTables'
  BY <1>1, <1>3, <1>6, <1>7, <1>8, <1>9 DEF FileSide, Readability, VersionTables
<1>13. NoMemory' /\ Replaying' /\ AllReplayed'
  BY <1>3 DEF NoMemory, Replaying, AllReplayed
<1>14. ImmInv'
  BY <1>1, <1>3, <1>7, <1>8, <1>9, <1>11 DEF FileSide, ImmInv
<1>15. ManifestInv' /\ OutputInv'
  BY <1>3, <1>4, <1>6, <1>7, <1>11 DEF ManifestInv, OutputInv
<1>16. FileSide'
  BY <1>12, <1>13, <1>14, <1>15 DEF FileSide
<1>17. Entitled' /\ AckInv'
  BY <1>1, <1>8, <1>11, EntitledKept, AckKept DEF WriterSide
<1>18. QueueInv'
  BY <1>1 DEF WriterSide, QueueInv
<1>19. LogInv'
  <2>1. ~Recorded' /\ writing'.at = "idle"
    BY <1>1, <1>11
  <2> QED
    BY <1>1, <1>2, <1>3, <1>10, <1>11, <2>1 DEF WriterSide, LogInv
<1>20. SequenceInv'
  <2>1. Current.last <= db.last
    BY <1>1 DEF WriterSide, SequenceInv
  <2>2. UpTo(Found, db.last)
    <3>1. Found \subseteq Contents
      BY <1>1, <1>2, <1>11, ShownIsFound
    <3>2. UpTo(Contents, db.last)
      BY <1>1 DEF FileSide, VersionTables
    <3> QED
      BY <3>1, <3>2 DEF UpTo
  <2> QED
    BY <1>3, <1>7, <1>8, <1>11, <2>1, <2>2 DEF SequenceInv, UpTo
<1>21. WriterSide'
  BY <1>17, <1>18, <1>19, <1>20 DEF WriterSide
<1> QED
  BY <1>1, <1>8, <1>16, <1>21, Sides DEF WriterSide, Budget, Contained, FileSide

-----------------------------------------------------------------------------
(* What the files hold: deaths.                                            *)

\* Whoever dies leaves nothing in memory; what was not answered is died of.
LEMMA DieContained ==
  ASSUME Inv, Die, disk'.tables = disk.tables,
         Named(Current') = Named(Current), Current'.last = Current.last,
         Current'.corrupt = Current.corrupt,
         Found' \subseteq Found, Firm \subseteq Firm',
         ~Crashed' => Found' = Found /\ ~Crashed,
         left'.damage = left.damage, left'.crashes <= MaxCrashes
  PROVE  Contained'
<1>1. TypeInv /\ Shape /\ FileSide /\ WriterSide /\ Budget
  BY Sides DEF Inv, TypeInv
<1>2. /\ db' = Closed /\ writing' = NoWriting /\ bg' = NoBackground
      /\ answered' = [w \in Writes |-> IF Issued(w) /\ answered[w] = "none"
                                       THEN "died" ELSE answered[w]]
  BY DEF Die
<1>3. /\ db'.status = "down" /\ db'.mem = {} /\ db'.imm = {} /\ ~db'.hasImm /\ ~db'.error
      /\ db'.l0 = {} /\ db'.l1 = {} /\ writing'.at = "idle" /\ writing'.queue = <<>>
      /\ writing'.group = <<>> /\ bg'.at = "none"
  BY <1>2 DEF Closed, NoWriting, NoBackground
<1>4. ~Live' /\ ~Starting'
  BY <1>3 DEF Live, Starting
<1>5. Contents' = {} /\ Named(db') = {}
  BY <1>3 DEF Contents, Named, TableEntries
<1>6. VersionTables' /\ Replaying' /\ AllReplayed'
  BY <1>3, <1>5 DEF VersionTables, Replaying, AllReplayed, UpTo
<1>7. /\ ~Current'.corrupt /\ (Named(Current) \subseteq DOMAIN disk.tables)'
      /\ UpTo(TableEntries(Named(Current)), Current.last)'
  <2>1. TableEntries(Named(Current))' = TableEntries(Named(Current))
    BY DEF TableEntries
  <2> QED
    BY <1>1, <2>1 DEF FileSide, Readability
<1>8. FileSide'
  BY <1>2, <1>3, <1>4, <1>5, <1>6, <1>7, NotLiveFileSide
<1>9. \A w \in Writes : /\ answered'[w] = "none" => answered[w] = "none" /\ ~Issued(w)
                        /\ answered'[w] = "ok" => answered[w] = "ok"
  BY <1>2
<1>10. Entitled'
  <2>1. Found \subseteq Entry
    BY <1>1, FoundType DEF FileSide
  <2>2. ASSUME NEW e \in Found, answered'[e.write] = "none"
        PROVE  answered[e.write] = "none" /\ e \notin GroupEntries
    <3>1. e.write \in Writes
      BY <2>1 DEF Entry
    <3>2. answered[e.write] = "none" /\ ~Issued(e.write)
      BY <1>9, <2>2, <3>1
    <3>3. ASSUME e \in GroupEntries PROVE FALSE
      <4>1. e.write \in ToSet(writing.group)
        BY <1>1, <3>3, GroupIs DEF GroupEntries
      <4> QED
        BY <1>1, <3>2, <4>1, GroupPending DEF WriterSide
    <3> QED
      BY <3>2, <3>3
  <2>3. Entitled
    BY <1>1 DEF WriterSide
  <2> QED
    BY <2>2, <2>3, EntitledKept
<1>11. AckInv'
  BY <1>1, <1>9 DEF WriterSide, AckInv, WritesOf
<1>12. QueueInv' /\ LogInv' /\ SequenceInv'
  BY <1>3, <1>4 DEF QueueInv, LogInv, SequenceInv
<1>13. WriterSide'
  BY <1>10, <1>11, <1>12 DEF WriterSide
<1> QED
  BY <1>1, <1>8, <1>13, Sides DEF WriterSide, Budget, Contained, FileSide

\* The process dies: the files hold what they held.
LEMMA KillContained ==
  ASSUME Inv, Kill
  PROVE  Contained' /\ Found' \subseteq Found /\ Firm \subseteq Firm'
<1>1. /\ TypeInv /\ Kill /\ Shape /\ Budget
  BY Sides DEF Inv, TypeInv
<1>2. Die /\ disk' = disk
  BY <1>1, KillDoes DEF Inv, Contained, Readability
<1>3. /\ disk'.tables = disk.tables /\ Current' = Current
      /\ Found' = Found /\ Firm' = Firm /\ StoreKept
  BY <1>2, SameFiles
<1>4. left'.damage = left.damage /\ left'.crashes = left.crashes
  BY <1>1, OneLess DEF Kill, Shape
<1>5. (Crashed' <=> Crashed) /\ left'.crashes <= MaxCrashes
  BY <1>1, <1>4 DEF Crashed, Budget
<1> QED
  BY <1>2, <1>3, <1>4, <1>5, DieContained

\* The beginning of a log holds what was synced of it, and nothing new.
LEMMA ShortenedEntries ==
  ASSUME NEW log \in Log, NEW k \in log.synced..Len(log.records),
         NEW new, new.records = SubSeq(log.records, 1, k), new.synced = log.synced
  PROVE  /\ LogEntries(new) \subseteq LogEntries(log)
         /\ FirmEntries(log) \subseteq FirmEntries(new)
<1> DEFINE r == log.records  s == SubSeq(r, 1, k)  n == Len(r)
<1>1. /\ r \in Seq(Record) /\ n \in Nat /\ log.synced \in Nat /\ log.synced <= k /\ k <= n
      /\ k \in Nat /\ new.records = s /\ new.synced = log.synced
  BY DEF Log
<1> HIDE DEF r, n
<1>2. DOMAIN r = 1..n /\ DOMAIN s = 1..k /\ \A i \in 1..k : s[i] = r[i] /\ i \in 1..n
  BY <1>1 DEF n
<1> HIDE DEF s
<1>4. DOMAIN s = DOMAIN r \cap 1..k
  BY <1>1, <1>2
<1>5. \A i \in DOMAIN s : Entries(s[i]) = Entries(r[i])
  BY <1>2, <1>4
<1>6. LogEntries(new) \subseteq LogEntries(log)
  <2>1. UNION {Entries(s[i]) : i \in DOMAIN s} \subseteq UNION {Entries(r[i]) : i \in DOMAIN r}
    BY <1>4, <1>5
  <2>2. LogEntries(new) = UNION {Entries(s[i]) : i \in DOMAIN s}
    BY <1>1, Zenon DEF LogEntries
  <2>3. LogEntries(log) = UNION {Entries(r[i]) : i \in DOMAIN r}
    BY DEF LogEntries, r
  <2> QED
    BY <2>1, <2>2, <2>3
<1>7. FirmEntries(log) \subseteq FirmEntries(new)
  <2>1. \A i \in 1..log.synced : i \in 1..k
    BY <1>1
  <2>2. DOMAIN r \cap 1..log.synced \subseteq DOMAIN s \cap 1..log.synced
    BY <1>4, <2>1
  <2>3. UNION {Entries(r[i]) : i \in DOMAIN r \cap 1..log.synced}
          \subseteq UNION {Entries(s[i]) : i \in DOMAIN s \cap 1..log.synced}
    BY <1>5, <2>2
  <2>4. FirmEntries(new) = UNION {Entries(s[i]) : i \in DOMAIN s \cap 1..log.synced}
    BY <1>1, Zenon DEF FirmEntries
  <2>5. FirmEntries(log) = UNION {Entries(r[i]) : i \in DOMAIN r \cap 1..log.synced}
    BY DEF FirmEntries, r
  <2> QED
    BY <2>3, <2>4, <2>5
<1> QED
  BY <1>6, <1>7

\* The machine dies: what was not synced is gone, and no such write counts as kept.
LEMMA CrashContained ==
  ASSUME Inv, Crash
  PROVE  Contained' /\ Found' \subseteq Found /\ Firm \subseteq Firm'
<1>1. /\ TypeInv /\ Crash /\ Shape /\ Budget
  BY Sides DEF Inv, TypeInv
<1>2. /\ Die /\ disk'.tables = disk.tables /\ disk'.current = disk.current
      /\ disk'.manifests = disk.manifests /\ DOMAIN disk'.logs = DOMAIN disk.logs
  BY <1>1, CrashDoes
<1>3. Current' = Current
  BY <1>2 DEF Current
<1>4. ASSUME NEW n \in DOMAIN disk.logs
      PROVE  /\ LogEntries(disk'.logs[n]) \subseteq LogEntries(disk.logs[n])
             /\ FirmEntries(disk.logs[n]) \subseteq FirmEntries(disk'.logs[n])
  <2>1. PICK k \in disk.logs[n].synced..Len(disk.logs[n].records) :
          disk'.logs[n] = [records |-> SubSeq(disk.logs[n].records, 1, k),
                           synced |-> disk.logs[n].synced,
                           inStep |-> disk.logs[n].inStep]
    BY <1>1, CrashDoes
  <2>2. disk.logs[n] \in Log
    BY <1>1, CrashDoes
  <2> QED
    BY <2>1, <2>2, ShortenedEntries
<1>5. Found' \subseteq Found /\ Firm \subseteq Firm'
  BY <1>2, <1>3, <1>4, LogsChanged
<1>6. /\ left.crashes > 0 /\ left' = [left EXCEPT !.crashes = @ - 1] /\ Within
  BY <1>1 DEF Crash, Shape
<1>7. left'.damage = left.damage /\ left'.crashes = left.crashes - 1
  BY <1>6, OneLess
<1>8. Crashed' /\ left'.crashes <= MaxCrashes
  <2>1. left.crashes \in Nat /\ MaxCrashes \in Nat /\ left.crashes <= MaxCrashes
    BY <1>1, <1>6, SizesAssumption DEF Within, Bounds, Budget
  <2> QED
    BY <1>7, <2>1 DEF Crashed
<1> QED
  BY <1>2, <1>3, <1>5, <1>7, <1>8, DieContained

\* Either death.
LEMMA DeathContained ==
  ASSUME Inv, Kill \/ Crash
  PROVE  Contained' /\ Found' \subseteq Found /\ Firm \subseteq Firm'
BY KillContained, CrashContained

-----------------------------------------------------------------------------
(* The whole invariant, as long as nothing is damaged.                      *)

\* A new database holds nothing.
LEMMA InvInit ==
  ASSUME Init
  PROVE  Inv
<1>1. TypeInv /\ Shape /\ db = Closed /\ writing = NoWriting /\ bg = NoBackground
  BY TypeInvInit DEF Init, TypeInv
<1>2. /\ db.status = "down" /\ db.mem = {} /\ db.imm = {} /\ ~db.hasImm /\ ~db.error
      /\ db.l0 = {} /\ db.l1 = {} /\ writing.at = "idle" /\ writing.queue = <<>>
      /\ writing.group = <<>> /\ bg.at = "none" /\ bg.inputs = {}
  BY <1>1 DEF Closed, NoWriting, NoBackground
<1> DEFINE m == [l0 |-> {}, l1 |-> {}, log |-> 0, next |-> 2, last |-> 0,
                 inStep |-> TRUE, corrupt |-> FALSE]
           f == [n \in {1} |-> m]
<1>3. disk = [logs |-> <<>>, tables |-> <<>>, manifests |-> f, current |-> 1,
              lost |-> {}]
  BY DEF Init
<1>4. f[1] = m /\ Named(m) = {} /\ ~m.corrupt
  BY DEF Named
<1> HIDE DEF m, f
<1>5. /\ disk.logs = <<>> /\ disk.manifests = f /\ disk.current = 1
  BY <1>3
<1>6. Current = m /\ Named(Current) = {} /\ ~Current.corrupt
  BY <1>4, <1>5 DEF Current
<1>7. DOMAIN disk.logs = {}
  BY <1>5
<1>8. Found = {}
  BY <1>6, <1>7 DEF Found, LogsFrom, TableEntries
<1>9. ~Live /\ ~Starting /\ Named(db) = {} /\ Contents = {}
  BY <1>2 DEF Live, Starting, Named, Contents, TableEntries
<1>10. Readability
  BY <1>6, <1>9 DEF Readability, UpTo, TableEntries
<1>11. Entitled /\ VersionTables /\ NoMemory
  BY <1>2, <1>8, <1>9 DEF Entitled, VersionTables, NoMemory, Unique, UpTo
<1>12. Replaying /\ AllReplayed /\ QueueInv /\ LogInv
  BY <1>2, <1>9 DEF Replaying, AllReplayed, QueueInv, LogInv
<1>13. ImmInv /\ ManifestInv /\ SequenceInv /\ OutputInv
  BY <1>2, <1>9 DEF ImmInv, ManifestInv, SequenceInv, OutputInv
<1>14. AckInv
  BY DEF Init, AckInv
<1>15. left.damage = MaxDamage /\ left.crashes <= MaxCrashes
  BY SizesAssumption DEF Init
<1> QED
  BY <1>1, <1>10, <1>11, <1>12, <1>13, <1>14, <1>15 DEF Inv, Contained

\* Every step that damages nothing keeps the invariant.
LEMMA InvStep == Inv /\ [Next]_vars /\ Undamaged' => Inv'
<1> SUFFICES ASSUME Inv, [Next]_vars, Undamaged' PROVE Inv'
  OBVIOUS
<1> USE DEF Inv
<1>1. TypeInv'
  BY TypeInvStep
<1> SUFFICES Contained'
  BY <1>1
<1>2. CASE UNCHANGED vars
  <2>1. UNCHANGED <<disk, db, bg>> /\ writing' = writing /\ answered' = answered /\ left' = left
    BY <1>2 DEF vars
  <2>2. FileSide' /\ Found' = Found /\ Firm' = Firm /\ StoreKept /\ Current' = Current
    BY <2>1, FileSideKept, SameFiles, Sides
  <2>3. \A S : TableEntries(S)' = TableEntries(S)
    BY <2>1, SameFiles
  <2>4. GroupEntries' = GroupEntries /\ (Recorded' <=> Recorded) /\ GroupRecord' = GroupRecord
    BY <2>1, SameGroup
  <2>5. Entitled' /\ AckInv' /\ QueueInv'
    <3>1. Entitled' /\ AckInv'
      BY <2>1, <2>2, <2>4, EntitledKept, AckKept DEF Contained
    <3> QED
      BY <2>1, <3>1 DEF Contained, QueueInv
  <2>6. LogInv' /\ SequenceInv'
    <3>1. LogInv'
      BY <2>1, <2>4 DEF Contained, LogInv, Live
    <3>2. SequenceInv'
      BY <2>1, <2>2, <2>3, <2>4 DEF Contained, SequenceInv, Live, UpTo
    <3> QED
      BY <3>1, <3>2
  <2> QED
    BY <2>1, <2>2, <2>5, <2>6 DEF Contained, FileSide
<1>3. CASE \E w \in Writes : \/ Write(w) \/ WriteFails(w) \/ WriteHasRoom(w) \/ WriteWaits(w)
                             \/ SwitchFails(w)
  BY <1>3, QueueStepContained
<1>4. CASE \E w \in Writes : SwitchMemTable(w)
  BY <1>4, SwitchContained
<1>5. CASE LogAppend \/ LogSync \/ LogSyncFails \/ InsertInto
  BY <1>5, LogAppendContained, LogSyncContained, LogFinishContained
<1>6. CASE BackgroundStarts \/ MemTableFirst \/ BuildTable \/ LogMemTable \/ InstallMemTable
  BY <1>6, StartsContained, BuildTableContained, LogMemTableContained, InstallMemTableContained
<1>7. CASE MergeTables \/ MergeDone \/ LogMerge \/ InstallMerge
  BY <1>7, MergeTablesContained, MergeDoneContained, LogMemTableContained, InstallMergeContained
<1>8. CASE BuildTableFails \/ LogMemTableFails \/ MergeFails \/ LogMergeFails
  BY <1>8, ErrorsContained, LogEditFailsContained
<1>9. CASE Recover \/ ReplayLog \/ NewLog \/ SaveManifest
  BY <1>9, RecoverContained, ReplayLogContained, NewLogContained, SaveManifestContained
<1>10. CASE SetCurrentFile \/ Opened \/ OpenFails
  BY <1>10, SetCurrentFileContained, OpenedContained, OpenFailsContained
<1>11. CASE Kill \/ Crash
  BY <1>11, DeathContained
<1>12. CASE LogAppendFails \/ ReplayLogFails
  <2>1. Within /\ left.damage = MaxDamage
    BY DEF TypeInv, Shape, Contained
  <2>2. left'.damage < left.damage
    BY <1>12, <2>1, LeftTypes DEF LogAppendFails, ReplayLogFails
  <2> QED
    BY <2>1, <2>2 DEF Undamaged, Within, Bounds
<1> QED
  BY <1>2, <1>3, <1>4, <1>5, <1>6, <1>7, <1>8, <1>9, <1>10, <1>11, <1>12
     DEF Next, Writing, Background, Opening, Faults

\* What is left of damage gets no more, and only the machine's death is counted as one.
LEMMA FaultsAreCounted ==
  ASSUME TypeInv, [Next]_vars
  PROVE  /\ left'.damage <= left.damage
         /\ Crash \/ left'.crashes = left.crashes
<1>1. Within
  BY DEF TypeInv, Shape
<1>2. \/ left' = left
      \/ MayFail /\ left' = OneError
      \/ MayDamage /\ left' = OneDamage
      \/ left.kills > 0 /\ left' = [left EXCEPT !.kills = @ - 1]
      \/ Crash /\ left.crashes > 0 /\ left' = [left EXCEPT !.crashes = @ - 1]
  <2>1. CASE UNCHANGED vars \/ \E w \in Writes : Write(w)
    BY <2>1, Zenon DEF vars, Write
  <2>2. CASE Writing
    BY <2>2, Zenon DEF Writing, WriteFails, WriteHasRoom, WriteWaits, SwitchMemTable, LogAppend,
                       LogSync, InsertInto
  <2>3. CASE Background
    BY <2>3, Zenon DEF Background, BackgroundStarts, MemTableFirst, BuildTable, LogMemTable,
                       InstallMemTable, MergeTables, MergeDone, LogMerge, InstallMerge
  <2>4. CASE Opening
    BY <2>4, Zenon DEF Opening, Recover, ReplayLog, NewLog, SaveManifest, SetCurrentFile, Opened
  <2>5. CASE Kill \/ Crash
    BY <2>5, Zenon DEF Kill, Crash
  <2>6. CASE LogMemTableFails \/ LogMergeFails
    BY <2>6, Zenon DEF LogMemTableFails, LogMergeFails, LogEditFails
  <2>7. CASE \/ \E w \in Writes : SwitchFails(w)
             \/ LogAppendFails \/ LogSyncFails \/ BuildTableFails \/ MergeFails
             \/ ReplayLogFails \/ OpenFails
    BY <2>7, Zenon DEF SwitchFails, LogAppendFails, LogSyncFails, BuildTableFails, MergeFails,
                       ReplayLogFails, OpenFails
  <2> QED
    BY <2>1, <2>2, <2>3, <2>4, <2>5, <2>6, <2>7, Zenon DEF Next, Faults
<1> QED
  BY <1>1, <1>2, LeftTypes, OneLess DEF Within, Bounds

\* What has not happened yet has not happened before.
LEMMA UndamagedBefore == TypeInv /\ [Next]_vars /\ Undamaged' => Undamaged
<1> SUFFICES ASSUME TypeInv, [Next]_vars, left'.damage = MaxDamage
             PROVE  left.damage = MaxDamage
  BY DEF Undamaged
<1>1. left'.damage <= left.damage
  BY FaultsAreCounted
<1> QED
  BY <1>1, SizesAssumption DEF TypeInv, Shape, Within, Bounds

\* As long as no append has failed and no log was unreadable, files, memory and answers
\* agree, whatever else failed and whoever died: what DB::Open would find is what was
\* promised.
THEOREM FilesAgree == Spec => [](Undamaged => Inv)
<1>1. Init => TypeInv /\ (Undamaged => Inv)
  BY InvInit, TypeInvInit
<1>2. TypeInv /\ (Undamaged => Inv) /\ [Next]_vars => TypeInv' /\ (Undamaged' => Inv')
  BY InvStep, TypeInvStep, UndamagedBefore
<1> QED
  BY <1>1, <1>2, PTL DEF Spec

\* What Recoverable says, by the invariant.
LEMMA FoundKept ==
  ASSUME Inv
  PROVE  /\ Recoverable = Found /\ TypeInv /\ Shape
         /\ {e.write : e \in Recoverable} = WritesOf(Found)
         /\ Found \subseteq Entry
<1>1. Recoverable = Found
  BY FoundIsRecoverable DEF Inv, Contained
<1>2. TypeInv /\ Shape /\ Found \subseteq Entry
  BY FoundType DEF Inv, TypeInv, Contained
<1> QED
  BY <1>1, <1>2 DEF WritesOf

\* No write that was answered with success is lost, whatever disk.lost says: not at the
\* death of the process, and a sync write not at that of the machine.
AllAckedSurvive ==
  \A w \in Writes : answered[w] = "ok" /\ (Crashed => w \in Synced) => w \in KeptWrites

\* By AckInv.
LEMMA InvImpliesAckedSurvives == Inv => AckedSurvives /\ AllAckedSurvive
<1> SUFFICES ASSUME Inv, NEW w \in Writes, answered[w] = "ok", Crashed => w \in Synced
             PROVE  w \in WritesOf(Found)
  BY FoundKept DEF AckedSurvives, AllAckedSurvive, KeptWrites
<1>1. AckInv
  BY DEF Inv, Contained
<1>2. CASE ~Crashed
  BY <1>1, <1>2 DEF AckInv
<1>3. CASE Crashed
  BY <1>1, <1>3, FirmIsFound DEF AckInv, WritesOf
<1> QED
  BY <1>2, <1>3

\* By VersionTables, LogInv, ImmInv and ManifestInv.
LEMMA InvImpliesRestartChangesNothing ==
  Inv => RestartChangesNothing /\ (Open => Contents \subseteq Recoverable)
<1> SUFFICES ASSUME Inv, Open
             PROVE  /\ Contents \subseteq Recoverable
                    /\ \A e \in Recoverable \ Contents :
                         db.error \/ e.write \in ToSet(writing.group)
  BY DEF RestartChangesNothing
<1>1. Recoverable = Found /\ Shape
  BY FoundKept
<1>2. Contents \subseteq Found
  BY DEF Inv, Contained, VersionTables
<1>3. ASSUME NEW e \in Found \ Contents, ~db.error PROVE e.write \in ToSet(writing.group)
  <2>1. e \in GroupEntries
    BY <1>3, ShownIsFound DEF Open, Live
  <2> QED
    BY <1>1, <2>1, GroupIs DEF GroupEntries
<1> QED
  BY <1>1, <1>2, <1>3

\* By Entitled and SequenceInv.
LEMMA InvImpliesSequencesUnique == Inv => SequencesUnique
<1> SUFFICES ASSUME Inv PROVE SequencesUnique
  OBVIOUS
<1>1. /\ Recoverable = Found /\ Shape /\ TypeInv /\ Found \subseteq Entry
      /\ Entitled /\ VersionTables /\ SequenceInv
  BY FoundKept DEF Inv, Contained
<1>2. Recoverable \cup Contents = Found
  BY <1>1 DEF VersionTables
<1>3. \A e, f \in Found : e.seq = f.seq <=> e.write = f.write
  BY <1>1 DEF Entitled, Unique
<1>4. ASSUME Open, NEW e \in Found PROVE e.seq <= db.last + Len(writing.group)
  <2>1. CASE e \in GroupEntries
    BY <1>1, <2>1, GroupIs DEF GroupEntries
  <2>2. CASE e \notin GroupEntries
    <3>1. e.seq <= db.last
      BY <1>1, <1>4, <2>2 DEF SequenceInv, UpTo, Open
    <3>2. e.seq \in Nat /\ db.last \in Nat /\ Len(writing.group) \in Nat
      BY <1>1, NumberTypes DEF Entry, Shape, WriterState
    <3> QED
      BY <3>1, <3>2
  <2> QED
    BY <2>1, <2>2
<1> QED
  BY <1>2, <1>3, <1>4 DEF SequencesUnique

\* What DB::Write has answered with success is found by every later DB::Open, wherever
\* the process died; what asked for sync, wherever the machine died.
THEOREM AcknowledgedWritesSurvive == Spec => [](Undamaged => AckedSurvives /\ AllAckedSurvive)
<1>1. Spec => [](Undamaged => Inv)
  BY FilesAgree
<1> QED
  BY <1>1, InvImpliesAckedSurvives, PTL

\* An open database shows what a restart would bring back, the group that is being
\* written apart, and nothing that a restart would lose.
THEOREM RestartsChangeNothing ==
  Spec => [](Undamaged => RestartChangesNothing /\ (Open => Contents \subseteq Recoverable))
<1>1. Spec => [](Undamaged => Inv)
  BY FilesAgree
<1> QED
  BY <1>1, InvImpliesRestartChangesNothing, PTL

\* A sequence number is never given to a second write, nor a write a second number,
\* through failed syncs, merges, replays and deaths.
THEOREM SequencesStayUnique == Spec => [](Undamaged => SequencesUnique)
<1>1. Spec => [](Undamaged => Inv)
  BY FilesAgree
<1> QED
  BY <1>1, InvImpliesSequencesUnique, PTL

-----------------------------------------------------------------------------
(* LevelDb implements DurableWrites.                                       *)

\* What DurableWrites calls stored, logged and kept.
LEMMA StoreIs ==
  /\ {e.write : e \in TableEntries(NamedTables)} = StoredWrites
  /\ {ToSet(record.writes) : record \in RecordsToReplay} = LoggedGroups
  /\ Store!Kept = StoredWrites \cup UNION LoggedGroups
BY DEF StoredWrites, LoggedGroups, WritesOf, NamedTables, Named, Current, Store!Kept

\* And after a step.
LEMMA StoreIsNext ==
  /\ {e.write : e \in TableEntries(NamedTables)}' = StoredWrites'
  /\ {ToSet(record.writes) : record \in RecordsToReplay}' = LoggedGroups'
  /\ Store!Kept' = StoredWrites' \cup UNION LoggedGroups'
BY DEF StoredWrites, LoggedGroups, WritesOf, NamedTables, Named, Current, Store!Kept

\* A record is of a group of writes, and so is what it adds to what is found.
LEMMA RecordsFound ==
  ASSUME Shape
  PROVE  /\ StoredWrites \cup UNION LoggedGroups = WritesOf(Found)
         /\ \A n \in DOMAIN disk.logs : \A record \in ToSet(disk.logs[n].records) :
              /\ record \in Record
              /\ ToSet(record.writes) \subseteq WritesOf(LogEntries(disk.logs[n]))
         /\ \A n \in DOMAIN disk.logs : \A e \in LogEntries(disk.logs[n]) :
              \E record \in ToSet(disk.logs[n].records) : e.write \in ToSet(record.writes)
<1>1. ASSUME NEW n \in DOMAIN disk.logs, NEW record \in ToSet(disk.logs[n].records)
      PROVE  /\ record \in Record
             /\ ToSet(record.writes) \subseteq WritesOf(LogEntries(disk.logs[n]))
  <2>1. disk.logs[n] \in Log
    BY FileOf DEF Shape, Disk
  <2>2. PICK i \in DOMAIN disk.logs[n].records : record = disk.logs[n].records[i]
    BY DEF ToSet
  <2>3. record \in Record
    BY <2>1, <2>2 DEF Log
  <2>4. Entries(record) \subseteq LogEntries(disk.logs[n])
    BY <2>2 DEF LogEntries
  <2>5. WritesOf(Entries(record)) = ToSet(record.writes)
    BY <2>3, EntriesAre
  <2> QED
    BY <2>3, <2>4, <2>5 DEF WritesOf
<1>2. ASSUME NEW n \in DOMAIN disk.logs, NEW e \in LogEntries(disk.logs[n])
      PROVE  \E record \in ToSet(disk.logs[n].records) : e.write \in ToSet(record.writes)
  <2>1. PICK i \in DOMAIN disk.logs[n].records : e \in Entries(disk.logs[n].records[i])
    BY DEF LogEntries
  <2> DEFINE record == disk.logs[n].records[i]
  <2>2. record \in ToSet(disk.logs[n].records)
    BY DEF ToSet
  <2>3. record \in Record
    BY <1>1, <2>2
  <2> HIDE DEF record
  <2>4. WritesOf(Entries(record)) = ToSet(record.writes)
    BY <2>3, EntriesAre
  <2>5. e.write \in WritesOf(Entries(record))
    BY <2>1 DEF WritesOf, record
  <2> QED
    BY <2>2, <2>4, <2>5
<1>3. UNION LoggedGroups = WritesOf(LogsFrom(Current.log))
  <2>1. ASSUME NEW w \in UNION LoggedGroups PROVE w \in WritesOf(LogsFrom(Current.log))
    <3>1. PICK record \in RecordsToReplay : w \in ToSet(record.writes)
      BY DEF LoggedGroups
    <3>2. PICK n \in LogsToReplay(Current) : record \in ToSet(disk.logs[n].records)
      BY <3>1, RecordsAre
    <3>3. n \in DOMAIN disk.logs /\ n >= Current.log
      BY DEF LogsToReplay
    <3>4. w \in WritesOf(LogEntries(disk.logs[n]))
      BY <1>1, <3>1, <3>2, <3>3
    <3> QED
      BY <3>3, <3>4 DEF WritesOf, LogsFrom
  <2>2. ASSUME NEW w \in WritesOf(LogsFrom(Current.log)) PROVE w \in UNION LoggedGroups
    <3>1. PICK e \in LogsFrom(Current.log) : w = e.write
      BY DEF WritesOf
    <3>2. PICK n \in {j \in DOMAIN disk.logs : j >= Current.log} : e \in LogEntries(disk.logs[n])
      BY DEF LogsFrom
    <3>3. PICK record \in ToSet(disk.logs[n].records) : w \in ToSet(record.writes)
      BY <1>2, <3>1, <3>2
    <3>4. record \in RecordsToReplay
      BY <3>2, RecordsAre DEF LogsToReplay
    <3> QED
      BY <3>3, <3>4 DEF LoggedGroups
  <2> QED
    BY <2>1, <2>2
<1> QED
  BY <1>1, <1>2, <1>3 DEF Found, StoredWrites, WritesOf

\* What is found after a step, as DurableWrites sees it.
LEMMA RecordsFoundNext ==
  Shape' => StoredWrites' \cup UNION LoggedGroups' = WritesOf(Found)'
<1>1. Shape => StoredWrites \cup UNION LoggedGroups = WritesOf(Found)
  BY RecordsFound
<1>2. (Shape => StoredWrites \cup UNION LoggedGroups = WritesOf(Found))'
  BY <1>1, PTL
<1> QED
  BY <1>2

\* A step that changes neither the store nor an answer is none.
LEMMA OthersStutter ==
  ASSUME StoreKept, answered' = answered, left'.crashes = left.crashes
  PROVE  [Store!Next]_(Store!vars)
BY StoreIs, StoreIsNext DEF Store!vars, StoreKept

\* A group that is answered, as DurableWrites sees it.
LEMMA FinishAnswers ==
  ASSUME StoreKept, left'.crashes = left.crashes,
         NEW group \in Seq(Writes), NEW status \in {"ok", "error"},
         Finish(group, status), \A w \in ToSet(group) : answered[w] = "none",
         status = "ok" => ToSet(group) \subseteq StoredWrites \cup UNION LoggedGroups
  PROVE  [Store!Next]_(Store!vars)
<1> DEFINE S == ToSet(group)
<1>1. S \in SUBSET Store!Pending
  BY DEF ToSet, Store!Pending
<1>2. answered' = Store!Answers(S, status)
  BY DEF Finish, Store!Answers
<1>3. Store!Answer(S, status)
  BY <1>2, StoreIs, StoreIsNext DEF Store!Answer, StoreKept
<1> QED
  BY <1>1, <1>3 DEF Store!Next

\* An append is the step in which a group is logged.
LEMMA LogLogs ==
  ASSUME Inv, LogAppend, left'.crashes = left.crashes
  PROVE  [Store!Next]_(Store!vars)
<1> DEFINE log == disk.logs[db.logfile]  group == ToSet(writing.group)
<1>1. /\ Shape /\ QueueInv /\ answered' = answered /\ writing.at = "append" /\ TypeInv
  BY LogAppendContained DEF Inv
<1>2. /\ db.status = "open" /\ Live /\ log.inStep
      /\ disk' = [disk EXCEPT !.logs[db.logfile].records = Append(@, GroupRecord)]
  <2>1. Live
    BY <1>1, LogStepDoes DEF LogAppend
  <2>2. log.inStep
    BY <2>1 DEF Inv, Contained, LogInv
  <2> QED
    BY <1>1, <2>1, <2>2, LogStepDoes DEF LogAppend
<1>3. /\ db.logfile \in LogsToReplay(Current) /\ db.logfile \in DOMAIN disk.logs
  BY <1>1, <1>2, LogInUseFound
<1>4. /\ log \in Log /\ GroupRecord \in Record
      /\ disk'.tables = disk.tables /\ disk'.manifests = disk.manifests
      /\ disk'.current = disk.current /\ DOMAIN disk'.logs = DOMAIN disk.logs
      /\ disk'.logs[db.logfile].records = Append(log.records, GroupRecord)
      /\ \A m \in DOMAIN disk.logs : m # db.logfile => disk'.logs[m] = disk.logs[m]
  <2>1. /\ disk'.logs[db.logfile] = [records |-> Append(log.records, GroupRecord),
                                     synced |-> log.synced, inStep |-> log.inStep]
        /\ log \in Log /\ GroupRecord \in Record
        /\ disk'.tables = disk.tables /\ disk'.manifests = disk.manifests
        /\ disk'.current = disk.current /\ DOMAIN disk'.logs = DOMAIN disk.logs
        /\ \A m \in DOMAIN disk.logs : m # db.logfile => disk'.logs[m] = disk.logs[m]
    BY <1>1, <1>2, <1>3, AppendDoes
  <2> HIDE DEF log
  <2>2. disk'.logs[db.logfile].records = Append(log.records, GroupRecord)
    BY <2>1
  <2> QED
    BY <2>1, <2>2
<1>5. Current' = Current
  BY <1>4 DEF Current
<1>6. StoredWrites' = StoredWrites
  BY <1>4, <1>5 DEF StoredWrites, WritesOf, TableEntries
<1>7. ToSet(disk'.logs[db.logfile].records) = ToSet(log.records) \cup {GroupRecord}
  <2> DEFINE r == log.records  R == GroupRecord
  <2>1. r \in Seq(Record) /\ R \in Record
    BY <1>4 DEF Log
  <2> HIDE DEF r, R
  <2>2. ToSet(Append(r, R)) = ToSet(r) \cup {R}
    BY <2>1 DEF ToSet
  <2> QED
    BY <1>4, <2>2 DEF r, R
<1>8. LoggedGroups' = LoggedGroups \cup {group}
  <2>1. LogsToReplay(Current)' = LogsToReplay(Current)
    BY <1>4, <1>5 DEF LogsToReplay
  <2>2. \A n \in LogsToReplay(Current) :
          n # db.logfile => ToSet(disk'.logs[n].records) = ToSet(disk.logs[n].records)
    BY <1>4 DEF LogsToReplay
  <2>3. RecordsToReplay' = RecordsToReplay \cup {GroupRecord}
    BY <1>3, <1>7, <2>1, <2>2, RecordsAre, RecordsAreNext
  <2>4. GroupRecord.writes = writing.group
    BY DEF GroupRecord
  <2> QED
    BY <2>3, <2>4 DEF LoggedGroups
<1>9. ASSUME NEW w \in group PROVE w \in Store!Pending \ Store!Kept
  <2>1. w \in Writes /\ answered[w] = "none"
    BY <1>1, GroupPending
  <2>2. GroupEntries = {}
    BY <1>1 DEF GroupEntries, Recorded
  <2>3. w \notin WritesOf(Found)
    BY <2>1, <2>2 DEF Inv, Contained, Entitled, WritesOf
  <2> QED
    BY <1>1, <2>1, <2>3, StoreIs, RecordsFound DEF Store!Pending
<1>10. Store!Log(group)
  <2> HIDE DEF group
  <2>1. group \subseteq Store!Pending \ Store!Kept
    BY <1>9
  <2> QED
    BY <1>1, <1>6, <1>8, <2>1, StoreIs, StoreIsNext DEF Store!Log
<1>11. group \in SUBSET Writes
  BY <1>1, GroupPending
<1> QED
  BY <1>10, <1>11 DEF Store!Next

\* A step that takes groups over into tables, and logs that hold nothing else.
Dumps(groups) ==
  /\ StoredWrites' = StoredWrites \cup UNION groups
  /\ LoggedGroups \ groups \subseteq LoggedGroups'
  /\ \A group \in LoggedGroups' \ LoggedGroups : group \subseteq StoredWrites'

\* It is one of DurableWrites.
LEMMA DumpsAre ==
  ASSUME NEW groups \in SUBSET LoggedGroups, Dumps(groups), answered' = answered,
         left'.crashes = left.crashes
  PROVE  [Store!Next]_(Store!vars)
<1>1. Store!Dump(groups)
  BY StoreIs, StoreIsNext DEF Store!Dump, Dumps
<1> QED
  BY <1>1, StoreIs DEF Store!Next

\* An edit takes over the groups of the logs it passes; the log number of a merge's edit
\* may be behind, and then the logs of stored groups would be replayed again.
LEMMA EditDumps ==
  ASSUME Inv, bg.at \in {"logging", "mergeLogging"},
         disk'.logs = disk.logs, disk'.tables = disk.tables,
         Current' = Applied(Current, bg.edit)
  PROVE  \E groups \in SUBSET LoggedGroups : Dumps(groups)
<1> DEFINE low == Current.log  log == Current'.log
           Passed == {n \in LogsToReplay(Current) : n < log}
           groups == {ToSet(record.writes) : record \in UNION {ToSet(disk.logs[n].records) : n \in Passed}}
<1>1. /\ TypeInv /\ Shape /\ Live /\ EditNumbers /\ BgNumbers /\ LiveNumbers
      /\ OutputInv /\ ImmInv /\ VersionTables /\ LogInv
  BY OpenWhen DEF Inv, TypeInv, Numbers, Contained
<1>2. /\ TableEntries(Named(Current)) \subseteq TableEntries(Named(Current'))
      /\ db.log <= log
      /\ \A n \in DOMAIN disk.logs : db.log <= n /\ n < log =>
           LogEntries(disk.logs[n]) \subseteq TableEntries(Named(Current'))
      /\ bg.at = "logging" => log = db.logfile
  BY AppliedFinds
<1>3. /\ Named(Current') = (Named(Current) \ bg.edit.inputs) \cup Named(bg.edit)
      /\ log = bg.edit.log /\ low \in Nat /\ log \in Nat /\ db.log \in Nat /\ db.logfile \in Nat
      /\ DOMAIN disk.logs \in SUBSET Nat
  BY <1>1, AppliedIs, NumberTypes
<1>4. /\ db.log <= low /\ \A n \in DOMAIN disk.logs : n <= db.logfile
      /\ \A n \in DOMAIN disk.logs : db.log <= n /\ n < low =>
           LogEntries(disk.logs[n]) \subseteq TableEntries(Named(Current))
      /\ \A e \in LogEntries(disk.logs[db.logfile]) : e \notin db.imm
  BY <1>1 DEF ImmInv, LiveNumbers, LogInv
<1>5. (TableEntries(Named(Current)))' = TableEntries(Named(Current'))
  BY DEF TableEntries
<1>6. StoredWrites' = WritesOf(TableEntries(Named(Current')))
  BY <1>5 DEF StoredWrites, WritesOf
<1>7. LogsToReplay(Current)' = {n \in DOMAIN disk.logs : n >= log}
  BY DEF LogsToReplay
<1>8. TableEntries(Named(Current')) \subseteq TableEntries(Named(Current)) \cup
        (IF bg.at = "logging" THEN db.imm ELSE {})
  <2>1. CASE bg.at = "logging"
    <3>1. Named(bg.edit) = {bg.table} /\ disk.tables[bg.table] = db.imm
      BY <1>1, <2>1 DEF EditNumbers, OutputInv
    <3> QED
      BY <1>3, <2>1, <3>1 DEF TableEntries
  <2>2. CASE bg.at = "mergeLogging"
    <3>1. /\ Named(bg.edit) = {bg.output} /\ bg.inputs # {} /\ bg.output \in DOMAIN disk.tables
          /\ bg.inputs \subseteq Named(Current)
      BY <1>1, <2>2 DEF EditNumbers, BgNumbers, MergeEnds, OutputInv
    <3>2. disk.tables[bg.output] = TableEntries(bg.inputs)
      BY <1>1, <3>1 DEF OutputInv
    <3>3. TableEntries(bg.inputs) \subseteq TableEntries(Named(Current))
      BY <3>1 DEF TableEntries
    <3> QED
      BY <1>3, <2>2, <3>1, <3>2, <3>3 DEF TableEntries
  <2> QED
    BY <2>1, <2>2
<1> HIDE DEF low, log
<1>9. \A n \in DOMAIN disk.logs : \A record \in ToSet(disk.logs[n].records) :
        ToSet(record.writes) \subseteq WritesOf(LogEntries(disk.logs[n]))
  BY <1>1, RecordsFound
<1>10. ASSUME NEW n \in DOMAIN disk.logs, NEW record \in ToSet(disk.logs[n].records),
              LogEntries(disk.logs[n]) \subseteq TableEntries(Named(Current'))
       PROVE  ToSet(record.writes) \subseteq StoredWrites'
  BY <1>6, <1>9, <1>10 DEF WritesOf
<1>11. UNION groups \subseteq StoredWrites'
  <2>1. ASSUME NEW n \in Passed, NEW record \in ToSet(disk.logs[n].records)
        PROVE  ToSet(record.writes) \subseteq StoredWrites'
    <3>1. n \in DOMAIN disk.logs /\ n >= low /\ n < log
      BY DEF LogsToReplay, low
    <3>2. db.log <= n
      BY <1>3, <1>4, <3>1
    <3> QED
      BY <1>2, <1>10, <3>1, <3>2
  <2> QED
    BY <2>1
<1>12. ASSUME NEW w \in StoredWrites', w \notin StoredWrites PROVE w \in UNION groups
  <2>1. PICK e \in TableEntries(Named(Current')) : w = e.write
    BY <1>6 DEF WritesOf
  <2>2. bg.at = "logging" /\ e \in db.imm /\ e \notin TableEntries(Named(Current))
    BY <1>8, <1>12, <2>1 DEF StoredWrites, WritesOf
  <2>3. e \in Found
    BY <1>1, <2>2 DEF VersionTables, Contents
  <2>4. PICK n \in DOMAIN disk.logs : n >= low /\ e \in LogEntries(disk.logs[n])
    BY <2>2, <2>3 DEF Found, LogsFrom, low
  <2>5. n # db.logfile /\ n <= db.logfile /\ log = db.logfile
    BY <1>2, <1>4, <2>2, <2>4
  <2>6. n \in Passed
    BY <1>3, <2>4, <2>5 DEF LogsToReplay, low
  <2>7. PICK record \in ToSet(disk.logs[n].records) : w \in ToSet(record.writes)
    BY <1>1, <2>1, <2>4, RecordsFound
  <2> QED
    BY <2>6, <2>7
<1>13. StoredWrites \subseteq StoredWrites'
  BY <1>2, <1>6 DEF StoredWrites, WritesOf
<1>14. ASSUME NEW group \in LoggedGroups \ groups PROVE group \in LoggedGroups'
  <2>1. PICK n \in LogsToReplay(Current), record \in RecordsToReplay :
          record \in ToSet(disk.logs[n].records) /\ group = ToSet(record.writes)
    BY RecordsAre DEF LoggedGroups
  <2>2. n \notin Passed
    BY <1>14, <2>1
  <2>3. n \in DOMAIN disk.logs /\ n >= log
    BY <1>3, <2>2 DEF LogsToReplay
  <2>4. record \in RecordsToReplay'
    BY <1>7, <2>1, <2>3, RecordsAreNext
  <2> QED
    BY <2>1, <2>4 DEF LoggedGroups
<1>15. ASSUME NEW group \in LoggedGroups' \ LoggedGroups PROVE group \subseteq StoredWrites'
  <2>1. PICK record \in RecordsToReplay' : group = ToSet(record.writes)
    BY DEF LoggedGroups
  <2>2. PICK n \in DOMAIN disk.logs : n >= log /\ record \in ToSet(disk.logs[n].records)
    BY <1>7, <2>1, RecordsAreNext
  <2>3. ~(n >= low)
    <3>1. ASSUME n >= low PROVE FALSE
      <4>1. record \in RecordsToReplay
        BY <2>2, <3>1, RecordsAre DEF LogsToReplay, low
      <4> QED
        BY <1>15, <2>1, <4>1 DEF LoggedGroups
    <3> QED
      BY <3>1
  <2>4. db.log <= n /\ n < low
    BY <1>2, <1>3, <2>2, <2>3
  <2>5. LogEntries(disk.logs[n]) \subseteq TableEntries(Named(Current'))
    BY <1>2, <1>4, <2>4
  <2> QED
    BY <1>10, <2>1, <2>2, <2>5
<1>16. groups \in SUBSET LoggedGroups
  BY RecordsAre DEF LoggedGroups
<1>17. Dumps(groups)
  <2> HIDE DEF groups
  <2> QED
    BY <1>11, <1>12, <1>13, <1>14, <1>15 DEF Dumps
<1> QED
  BY <1>16, <1>17

\* An edit, failed or not, as DurableWrites sees it.
LEMMA EditSteps ==
  ASSUME Inv, \/ LogMemTable \/ LogMerge
              \/ (LogMemTableFails \/ LogMergeFails) /\ Undamaged',
         left'.crashes = left.crashes
  PROVE  [Store!Next]_(Store!vars)
<1>1. /\ disk'.logs = disk.logs /\ disk'.tables = disk.tables
      /\ Current' = Current \/ Current' = Applied(Current, bg.edit)
  BY LogMemTableContained, LogEditFailsContained
<1>2. answered' = answered /\ bg.at \in {"logging", "mergeLogging"}
  BY DEF LogMemTable, LogMerge, LogMemTableFails, LogMergeFails, MergeEndsBadly
<1>3. CASE Current' = Current
  <2>1. StoreKept
    BY <1>1, <1>3, FoundOf
  <2> QED
    BY <1>2, <2>1, OthersStutter
<1>4. CASE Current' = Applied(Current, bg.edit)
  <2>1. PICK groups \in SUBSET LoggedGroups : Dumps(groups)
    BY <1>1, <1>2, <1>4, EditDumps
  <2> QED
    BY <1>2, <2>1, DumpsAre
<1> QED
  BY <1>1, <1>3, <1>4

\* CURRENT moves to the manifest of a recovery: all that was in the logs is in tables.
LEMMA CurrentDumps ==
  ASSUME Inv, SetCurrentFile
  PROVE  [Store!Next]_(Store!vars)
<1>1. StoredWrites' = WritesOf(Found) /\ LoggedGroups' = {}
  BY SetCurrentFileContained
<1>2. StoredWrites \cup UNION LoggedGroups = WritesOf(Found)
  BY RecordsFound DEF Inv, TypeInv
<1>3. Dumps(LoggedGroups)
  BY <1>1, <1>2 DEF Dumps
<1>4. answered' = answered /\ left'.crashes = left.crashes
  BY DEF SetCurrentFile
<1> QED
  BY <1>3, <1>4, DumpsAre

\* Who is writing when the process or the machine dies has no answer yet.
LEMMA DieAnswers ==
  ASSUME Die
  PROVE  \E S \in SUBSET Store!Pending : answered' = Store!Answers(S, "died")
<1> DEFINE S == {w \in Writes : Issued(w) /\ answered[w] = "none"}
<1>1. S \in SUBSET Store!Pending
  BY DEF Store!Pending
<1>2. answered' = Store!Answers(S, "died")
  BY DEF Die, Store!Answers
<1> QED
  BY <1>1, <1>2

\* The death of the process takes nothing.
LEMMA KillDies ==
  ASSUME Inv, Kill
  PROVE  [Store!Next]_(Store!vars)
<1>1. Die /\ disk' = disk
  BY KillDoes DEF Inv, Contained, Readability
<1>2. StoreKept
  BY <1>1, SameFiles
<1>3. left'.crashes = left.crashes
  BY OneLess DEF Inv, TypeInv, Shape, Kill
<1>4. PICK S \in SUBSET Store!Pending : answered' = Store!Answers(S, "died")
  BY <1>1, DieAnswers
<1>5. Store!ProcessDies(S)
  BY <1>2, <1>3, <1>4, StoreIs, StoreIsNext DEF Store!ProcessDies, StoreKept
<1> QED
  BY <1>4, <1>5 DEF Store!Next

\* That of the machine takes groups of the logs, and no answered sync write.
LEMMA CrashDies ==
  ASSUME Inv, Inv', Crash
  PROVE  [Store!Next]_(Store!vars)
<1>1. /\ Die /\ disk'.current = disk.current /\ disk'.tables = disk.tables
      /\ disk'.manifests = disk.manifests /\ DOMAIN disk'.logs = DOMAIN disk.logs
  BY CrashDoes DEF Inv
<1>2. Current' = Current
  BY <1>1 DEF Current
<1>3. StoredWrites' = StoredWrites
  BY <1>1, <1>2 DEF StoredWrites, WritesOf, TableEntries
<1>4. LogsToReplay(Current)' = LogsToReplay(Current)
  BY <1>1, <1>2 DEF LogsToReplay
<1>5. ASSUME NEW n \in DOMAIN disk.logs
      PROVE  ToSet(disk'.logs[n].records) \subseteq ToSet(disk.logs[n].records)
  <2> DEFINE r == disk.logs[n].records
  <2>1. PICK k \in disk.logs[n].synced..Len(disk.logs[n].records) :
          /\ disk'.logs[n] = [records |-> SubSeq(disk.logs[n].records, 1, k),
                              synced |-> disk.logs[n].synced,
                              inStep |-> disk.logs[n].inStep]
          /\ k \in Nat
    BY CrashDoes DEF Inv
  <2>2. disk.logs[n] \in Log /\ disk'.logs[n].records = SubSeq(r, 1, k)
    BY CrashDoes, <2>1 DEF Inv
  <2>3. r \in Seq(Record) /\ k <= Len(r)
    BY <2>1, <2>2 DEF Log
  <2> HIDE DEF r
  <2>4. ToSet(SubSeq(r, 1, k)) \subseteq ToSet(r)
    BY <2>2, <2>3 DEF ToSet
  <2> QED
    BY <2>1, <2>4 DEF r
<1>6. LoggedGroups' \subseteq LoggedGroups
  <2> DEFINE new(n) == ToSet(disk'.logs[n].records)  old(n) == ToSet(disk.logs[n].records)
             S == LogsToReplay(Current)
  <2>1. RecordsToReplay' = UNION {new(n) : n \in S} /\ RecordsToReplay = UNION {old(n) : n \in S}
    BY <1>4, RecordsAre, RecordsAreNext
  <2>2. \A n \in S : new(n) \subseteq old(n)
    BY <1>5 DEF LogsToReplay
  <2> HIDE DEF new, old, S
  <2>3. RecordsToReplay' \subseteq RecordsToReplay
    BY <2>1, <2>2
  <2> QED
    BY <2>3 DEF LoggedGroups
<1>7. left'.crashes = left.crashes - 1
  BY OneLess DEF Inv, TypeInv, Shape, Crash
<1>8. MaxCrashes - left'.crashes = (MaxCrashes - left.crashes) + 1
  BY <1>7, SizesAssumption DEF Inv, TypeInv, Shape, Within, Bounds
<1>9. ASSUME NEW w \in Synced, answered[w] = "ok"
      PROVE  w \in StoredWrites' \cup UNION LoggedGroups'
  <2>1. w \in WritesOf(Firm)
    BY <1>9, WritesAssumption DEF Inv, Contained, AckInv
  <2>2. Firm \subseteq Firm'
    BY CrashContained
  <2>3. (Firm \subseteq Found)'
    BY FirmIsFound, PTL
  <2>4. StoredWrites' \cup UNION LoggedGroups' = WritesOf(Found)'
    BY RecordsFoundNext DEF Inv, TypeInv
  <2> QED
    BY <2>1, <2>2, <2>3, <2>4 DEF WritesOf
<1>10. PICK S \in SUBSET Store!Pending : answered' = Store!Answers(S, "died")
  BY <1>1, DieAnswers
<1>11. Store!MachineDies(S)
  BY <1>3, <1>6, <1>8, <1>9, <1>10, StoreIs, StoreIsNext DEF Store!MachineDies
<1> QED
  BY <1>10, <1>11 DEF Store!Next

\* Every step of LevelDb that damages nothing is one of DurableWrites, or none.
LEMMA StepIsStored ==
  ASSUME Inv, Inv', Undamaged', [Next]_vars
  PROVE  [Store!Next]_(Store!vars)
<1>1. Shape /\ TypeInv /\ QueueInv /\ LogInv
  BY DEF Inv, TypeInv, Contained
<1>2. Crash \/ left'.crashes = left.crashes
  BY <1>1, FaultsAreCounted
<1>3. CASE Crash
  BY <1>3, CrashDies
<1> SUFFICES ASSUME left'.crashes = left.crashes, ~Crash PROVE [Store!Next]_(Store!vars)
  BY <1>2, <1>3
<1>4. CASE UNCHANGED vars
  <2>1. disk' = disk /\ answered' = answered
    BY <1>4 DEF vars
  <2> QED
    BY <2>1, SameFiles, OthersStutter
<1>5. ASSUME NEW w \in Writes, Write(w) \/ WriteHasRoom(w) \/ WriteWaits(w)
      PROVE  [Store!Next]_(Store!vars)
  <2>1. answered' = answered
    BY <1>5 DEF Write, WriteHasRoom, WriteWaits
  <2> QED
    BY <1>5, <2>1, QueueStepContained, OthersStutter
<1>6. ASSUME NEW w \in Writes, WriteFails(w) \/ SwitchFails(w)
      PROVE  [Store!Next]_(Store!vars)
  <2>1. /\ StoreKept /\ Finish(<<w>>, "error")
        /\ writing.queue # <<>> /\ w = Head(writing.queue)
    BY <1>6, QueueStepContained DEF WriteFails, SwitchFails, First
  <2>2. answered[w] = "none"
    <3>1. writing.queue \in Seq(Writes)
      BY <1>1 DEF Shape, WriterState
    <3>2. 1 \in DOMAIN writing.queue /\ writing.queue[1] = w
      BY <2>1, <3>1
    <3> QED
      BY <1>1, <3>2 DEF QueueInv
  <2>3. <<w>> \in Seq(Writes) /\ \A v \in ToSet(<<w>>) : v = w
    BY DEF ToSet
  <2> QED
    BY <2>1, <2>2, <2>3, FinishAnswers
<1>7. ASSUME NEW w \in Writes, SwitchMemTable(w) PROVE [Store!Next]_(Store!vars)
  <2>1. answered' = answered
    BY <1>7 DEF SwitchMemTable
  <2> QED
    BY <1>7, <2>1, SwitchContained, OthersStutter
<1>8. CASE LogAppend
  BY <1>8, LogLogs
<1>9. CASE LogSync
  <2>1. answered' = answered
    BY <1>9 DEF LogSync
  <2> QED
    BY <1>9, <2>1, LogSyncContained, OthersStutter
<1>10. CASE LogSyncFails \/ InsertInto
  <2>1. StoreKept /\ writing.group \in Seq(Writes)
        /\ \A w \in ToSet(writing.group) : answered[w] = "none"
    BY <1>1, <1>10, LogFinishContained, GroupPending DEF Shape, WriterState
  <2>2. CASE LogSyncFails
    <3>1. Finish(writing.group, "error")
      BY <2>2 DEF LogSyncFails
    <3> QED
      BY <2>1, <3>1, FinishAnswers
  <2>3. CASE InsertInto
    <3>1. Finish(writing.group, "ok") /\ writing.at = "insert" /\ Live
      BY <1>1, <2>3, OpenWhen DEF InsertInto, TypeInv
    <3>2. GroupEntries = Entries(GroupRecord) /\ GroupEntries \subseteq Found
      BY <1>1, <3>1, GroupFound DEF GroupEntries, Recorded
    <3>3. ToSet(writing.group) \subseteq WritesOf(Found)
      BY <1>1, <3>2, GroupIs DEF WritesOf
    <3>4. ToSet(writing.group) \subseteq StoredWrites \cup UNION LoggedGroups
      BY <1>1, <3>3, RecordsFound
    <3> QED
      BY <2>1, <3>1, <3>4, FinishAnswers
  <2> QED
    BY <1>10, <2>2, <2>3
<1>11. CASE \/ BackgroundStarts \/ MemTableFirst \/ BuildTable \/ InstallMemTable
            \/ MergeTables \/ MergeDone \/ InstallMerge \/ BuildTableFails \/ MergeFails
  <2>1. StoreKept
    BY <1>11, StartsContained, BuildTableContained, InstallMemTableContained,
       MergeTablesContained, MergeDoneContained, InstallMergeContained, ErrorsContained
  <2>2. answered' = answered
    BY <1>11, Zenon DEF BackgroundStarts, MemTableFirst, BuildTable, InstallMemTable,
                        MergeTables, MergeDone, InstallMerge, BuildTableFails, MergeFails,
                        MergeEndsBadly
  <2> QED
    BY <2>1, <2>2, OthersStutter
<1>12. CASE LogMemTable \/ LogMerge \/ LogMemTableFails \/ LogMergeFails
  BY <1>12, EditSteps
<1>13. CASE Recover \/ ReplayLog \/ NewLog \/ SaveManifest \/ Opened \/ OpenFails
  <2>1. StoreKept
    BY <1>13, RecoverContained, ReplayLogContained, NewLogContained, SaveManifestContained,
       OpenedContained, OpenFailsContained
  <2>2. answered' = answered
    BY <1>13, Zenon DEF Recover, ReplayLog, NewLog, SaveManifest, Opened, OpenFails
  <2> QED
    BY <2>1, <2>2, OthersStutter
<1>14. CASE SetCurrentFile
  BY <1>14, CurrentDumps
<1>15. CASE Kill
  BY <1>15, KillDies
<1>16. CASE LogAppendFails \/ ReplayLogFails
  <2>1. Within /\ left.damage = MaxDamage
    BY DEF Inv, TypeInv, Shape, Contained
  <2>2. left'.damage < left.damage
    BY <1>16, <2>1, LeftTypes DEF LogAppendFails, ReplayLogFails
  <2> QED
    BY <2>1, <2>2 DEF Undamaged, Within, Bounds
<1> QED
  BY <1>4, <1>5, <1>6, <1>7, <1>8, <1>9, <1>10, <1>11, <1>12, <1>13, <1>14, <1>15, <1>16
     DEF Next, Writing, Background, Opening, Faults

\* A new database is an empty store.
LEMMA InitIsStored ==
  ASSUME Init
  PROVE  Store!Init
<1> DEFINE m == [l0 |-> {}, l1 |-> {}, log |-> 0, next |-> 2, last |-> 0,
                 inStep |-> TRUE, corrupt |-> FALSE]
           f == [n \in {1} |-> m]
<1>1. disk = [logs |-> <<>>, tables |-> <<>>, manifests |-> f, current |-> 1,
              lost |-> {}]
  BY DEF Init
<1>2. f[1] = m /\ Named(m) = {}
  BY DEF Named
<1> HIDE DEF m, f
<1>3. disk.logs = <<>> /\ disk.manifests = f /\ disk.current = 1
  BY <1>1
<1>4. Current = m /\ Named(Current) = {} /\ DOMAIN disk.logs = {}
  BY <1>2, <1>3 DEF Current
<1>5. StoredWrites = {}
  BY <1>4 DEF StoredWrites, WritesOf, TableEntries
<1>6. LoggedGroups = {}
  <2>1. RecordsToReplay = {}
    BY <1>4, RecordsAre DEF LogsToReplay
  <2> QED
    BY <2>1 DEF LoggedGroups
<1>7. MaxCrashes - left.crashes = 0
  BY SizesAssumption DEF Init
<1>8. answered = [w \in Writes |-> "none"]
  BY DEF Init
<1> QED
  BY <1>5, <1>6, <1>7, <1>8, StoreIs DEF Store!Init

\* As long as no append has failed and no log was unreadable, LevelDB keeps what it
\* promises its callers: a batch group becomes durable at once, is moved from the log to
\* tables as a whole, and is answered with success only when it is durable; the death of
\* the process takes nothing away, and that of the machine whole groups that are still
\* in a log, none of them with a sync write that was answered.
THEOREM LevelDbStores == Spec /\ []Undamaged => StoreSpec
<1>1. Init => Store!Init
  BY InitIsStored
<1>2. Inv /\ Inv' /\ Undamaged' /\ [Next]_vars => [Store!Next]_(Store!vars)
  BY StepIsStored
<1>3. Spec => [](Undamaged => Inv)
  BY FilesAgree
<1> QED
  BY <1>1, <1>2, <1>3, PTL DEF Spec, StoreSpec, Store!Spec

=============================================================================
