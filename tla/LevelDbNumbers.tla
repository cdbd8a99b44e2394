----------------------------- MODULE LevelDbNumbers ----------------------------
(***************************************************************************)
(* The file numbers of LevelDb, for every set of writes and every size:    *)
(* what is given out next is above all that is in use, so that no file is  *)
(* written over while it is needed, whatever fails and whenever the       *)
(* process or the machine dies.  Type correctness comes with it, and that  *)
(* the database can be opened again.                                       *)
(***************************************************************************)
EXTENDS LevelDb, FiniteSetTheorems, TLAPS

-----------------------------------------------------------------------------
(* The shape of the state.                                                 *)

\* Files of one kind, by their numbers.
Files(T) == UNION {[S -> T] : S \in SUBSET Nat}

\* What survives the process.
Disk == [logs : Files(Log), tables : Files(SUBSET Entry), manifests : Files(Manifest),
         current : Nat, lost : SUBSET Writes]

\* Where DB::Open is, or that it failed or is through.
Statuses == {"down", "failed", "corrupt", "replaying", "saving", "pointing", "installing",
             "open"}

\* DBImpl and its VersionSet.
Db == [status : Statuses, mem : SUBSET Entry, imm : SUBSET Entry, hasImm : BOOLEAN,
       last : Nat, next : Nat, log : Nat, logfile : Nat, l0 : SUBSET Nat, l1 : SUBSET Nat,
       manifest : Nat, error : BOOLEAN, replay : SUBSET Nat]

\* The queue of writers and what the first of them is at.
WriterState == [queue : Seq(Writes), asleep : SUBSET Writes, waits : BOOLEAN,
                at : {"idle", "append", "sync", "insert"}, group : Seq(Writes)]

\* What the background thread is at.
BgState == [at : {"none", "scheduled", "building", "logging", "installing", "merging",
                  "merged", "mergeLogging", "mergeInstalling"},
            table : Nat, output : Nat, inputs : SUBSET Nat, edit : Edit]

\* What each write was told.
Answers == [Writes -> {"none", "ok", "error", "died"}]

\* The faults that are left.
Bounds == [errors : Nat, damage : Nat, kills : Nat, crashes : Nat]

\* No more can go wrong than at first.
Within == left \in Bounds /\ left.damage <= MaxDamage

\* Every variable has its type, and a log is synced no further than it was written.
Shape ==
  /\ disk \in Disk /\ db \in Db /\ writing \in WriterState /\ bg \in BgState
  /\ answered \in Answers /\ Within
  /\ \A n \in DOMAIN disk.logs : disk.logs[n].synced <= Len(disk.logs[n].records)

-----------------------------------------------------------------------------
(* File numbers: what is in use is below what is given out next.           *)

\* The tables of a manifest, of the current version, of an edit.
Named(v) == v.l0 \cup v.l1

\* The manifest that CURRENT names.
Current == disk.manifests[disk.current]

\* All numbers of a set are below one.
Below(S, n) == \A m \in S : m < n

\* The database is on the manifest that CURRENT names.
Live == db.status \in {"installing", "open"}

\* DB::Open is at work, and has not changed CURRENT.
Starting == db.status \in {"replaying", "saving", "pointing"}

\* The background thread is at a memtable, or at the end of a merge.
Dumping == bg.at \in {"building", "logging", "installing"}

\* A merge has its output and is about to change the version.
MergeEnds == bg.at \in {"mergeLogging", "mergeInstalling"}

\* The manifest's next number is above the manifest, its log and its tables.
ManifestNumbers ==
  /\ disk.current \in DOMAIN disk.manifests
  /\ disk.current < Current.next /\ Current.log < Current.next
  /\ Below(Named(Current), Current.next)

\* A replay uses no number of a log it has replayed.
ReplayNumbers ==
  db.status = "replaying" =>
    /\ db.log = Current.log
    /\ db.replay \subseteq LogsToReplay(Current)
    /\ Below(LogsToReplay(Current) \ db.replay, db.next)

\* The manifest DB::Open writes.
NewManifest == [l0 |-> db.l0, l1 |-> db.l1, log |-> db.log, next |-> db.next,
                last |-> db.last, inStep |-> TRUE, corrupt |-> FALSE]

\* While DB::Open is at work: the new manifest's number is the old one's next, and
\* what it will name is there and below the next number.
StartNumbers ==
  Starting =>
    /\ db.manifest = Current.next /\ Current.next < db.next
    /\ Below(Named(db), db.next) /\ Named(db) \subseteq DOMAIN disk.tables
    /\ db.status # "replaying" =>
         /\ db.log = db.logfile /\ Current.log <= db.log /\ db.log < db.next
         /\ db.log \in DOMAIN disk.logs
         /\ \A n \in DOMAIN disk.logs : n <= db.log
    /\ db.status = "pointing" =>
         /\ db.manifest \in DOMAIN disk.manifests
         /\ disk.manifests[db.manifest] = NewManifest

\* The newest log of an open database is the one in use; the next number is above
\* every table.  A manifest gets out of step only with an error that is recorded.
LiveNumbers ==
  Live =>
    /\ disk.current = db.manifest /\ Current.next <= db.next
    /\ Below(Named(db), db.next) /\ Named(db) \subseteq DOMAIN disk.tables
    /\ db.log <= db.logfile /\ Current.log <= db.logfile /\ db.logfile < db.next
    /\ ~db.error => Current.inStep /\ db.log <= Current.log
    /\ db.logfile \in DOMAIN disk.logs
    /\ \A n \in DOMAIN disk.logs : n <= db.logfile
    /\ db.status = "open" => Below(DOMAIN disk.tables, db.next)

\* Outside an open database nobody writes and no thread runs.
Alone == db.status # "open" => writing = NoWriting /\ bg = NoBackground /\ ~db.error

\* What the thread makes is new: no version names it before its edit is applied.
BgNumbers ==
  /\ bg.inputs \subseteq Named(db)
  /\ bg.at \in {"merging", "merged", "mergeLogging", "mergeInstalling"} => bg.inputs # {}
  /\ bg.at \in {"none", "scheduled"} => bg.inputs = {}
  /\ bg.inputs # {} =>
       /\ bg.output < db.next /\ bg.output \notin Named(db)
       /\ bg.at # "mergeInstalling" => bg.output \notin Named(Current)
  /\ Dumping =>
       /\ db.hasImm
       /\ bg.table < db.next /\ bg.table \notin Named(db)
       /\ bg.at = "building" => bg.table \notin Named(Current)
       /\ bg.inputs # {} => bg.table # bg.output

\* The edit names what the thread has made, which is in a table by then.
EditNumbers ==
  /\ bg.at \in {"logging", "installing"} =>
       /\ bg.edit.inputs = {} /\ Named(bg.edit) = {bg.table} /\ bg.edit.log = db.logfile
  /\ MergeEnds =>
       /\ bg.edit.inputs = bg.inputs /\ Named(bg.edit) = {bg.output} /\ bg.edit.log = db.log
  /\ bg.at \in {"logging", "mergeLogging"} =>
       Current.next <= bg.edit.next /\ bg.edit.log < bg.edit.next
  /\ bg.at \in {"logging", "installing"} \/ MergeEnds =>
       bg.edit.next <= db.next /\ Below(Named(bg.edit), bg.edit.next)
  /\ bg.at = "installing" /\ ~db.error => Current.log = db.logfile
  /\ bg.at \in {"logging", "installing"} => bg.table \in DOMAIN disk.tables
  /\ bg.at \in {"merged", "mergeLogging", "mergeInstalling"} => bg.output \in DOMAIN disk.tables

\* The numbers of every part.
Numbers ==
  /\ ManifestNumbers /\ ReplayNumbers /\ StartNumbers /\ LiveNumbers
  /\ Alone /\ BgNumbers /\ EditNumbers

\* The inductive invariant of types and numbers.
TypeInv == Shape /\ Numbers

-----------------------------------------------------------------------------
(* Sets of naturals.                                                       *)

\* A set of naturals has a least member.
LEMMA LeastOf ==
  ASSUME NEW T \in SUBSET Nat, T # {}
  PROVE  \E m \in T : \A n \in T : m <= n
<1> DEFINE Segments == {0..m : m \in T}
<1>1. \A m \in T : 0..m \in FiniteSubsetsOf(Nat)
  BY FS_Interval DEF FiniteSubsetsOf
<1>2. PICK x \in Segments : \A y \in Segments : <<y, x>> \notin StrictSubsetOrdering(Nat)
  <2>1. Segments \subseteq FiniteSubsetsOf(Nat) /\ Segments # {}
    BY <1>1
  <2> QED
    BY <2>1, FS_StrictSubsetOrderingWellFounded, WFMin
<1>3. PICK m \in T : x = 0..m
  BY <1>2
<1>4. ASSUME NEW n \in T, n < m PROVE FALSE
  <2>1. 0..n \subseteq 0..m /\ 0..n # 0..m /\ 0..n \in SUBSET Nat /\ 0..m \in SUBSET Nat
    <3>1. m \in 0..m /\ m \notin 0..n /\ 0..n \subseteq 0..m
      BY <1>4
    <3> QED
      BY <3>1
  <2>2. <<0..n, 0..m>> \in StrictSubsetOrdering(Nat) /\ 0..n \in Segments
    BY <2>1, Zenon DEF StrictSubsetOrdering
  <2> QED
    BY <1>2, <1>3, <2>2
<1> QED
  BY <1>4

\* A bounded one has a greatest.
LEMMA GreatestOf ==
  ASSUME NEW T \in SUBSET Nat, T # {}, NEW b \in Nat, \A n \in T : n <= b
  PROVE  \E m \in T : \A n \in T : n <= m
<1> DEFINE U == {b - n : n \in T}
<1>1. \A n \in T : b - n \in Nat
  OBVIOUS
<1>2. U \in SUBSET Nat /\ U # {}
  BY <1>1
<1>3. PICK k \in U : \A j \in U : k <= j
  <2> HIDE DEF U
  <2> QED
    BY <1>2, LeastOf
<1>4. PICK m \in T : k = b - m
  BY <1>3
<1>5. ASSUME NEW n \in T PROVE n <= m
  <2>1. b - n \in U
    OBVIOUS
  <2>2. b - m <= b - n /\ b - n \in Nat /\ b - m \in Nat
    BY <1>1, <1>3, <1>4, <2>1
  <2> QED
    BY <2>2
<1> QED
  BY <1>5

-----------------------------------------------------------------------------
(* Files.                                                                  *)

\* What a number of a file stands for.
LEMMA FileOf ==
  ASSUME NEW T, NEW f \in Files(T), NEW n \in DOMAIN f
  PROVE  n \in Nat /\ f[n] \in T
BY DEF Files

\* One file more.
LEMMA WithFile ==
  ASSUME NEW T, NEW f \in Files(T), NEW n \in Nat, NEW v \in T
  PROVE  With(f, n, v) \in Files(T)
<1>1. DOMAIN f \in SUBSET Nat /\ \A m \in DOMAIN f : f[m] \in T
  BY DEF Files
<1>2. With(f, n, v) \in [DOMAIN f \cup {n} -> T]
  BY <1>1 DEF With
<1>3. DOMAIN f \cup {n} \in SUBSET Nat
  BY <1>1
<1> QED
  BY <1>2, <1>3 DEF Files

\* Keep forgets the files outside a set and changes no other.
LEMMA KeepIs ==
  ASSUME NEW f, NEW S
  PROVE  /\ DOMAIN Keep(f, S) = DOMAIN f \cap S
         /\ \A m \in DOMAIN f \cap S : Keep(f, S)[m] = f[m]
BY DEF Keep

\* Some files fewer.
LEMMA KeptFiles ==
  ASSUME NEW T, NEW f \in Files(T), NEW S
  PROVE  Keep(f, S) \in Files(T)
<1>1. DOMAIN f \in SUBSET Nat /\ \A m \in DOMAIN f : f[m] \in T
  BY DEF Files
<1>2. Keep(f, S) \in [DOMAIN f \cap S -> T]
  BY <1>1 DEF Keep
<1>3. DOMAIN f \cap S \in SUBSET Nat
  BY <1>1
<1> QED
  BY <1>2, <1>3 DEF Files

\* A file with new contents.
LEMMA ChangedFile ==
  ASSUME NEW T, NEW f \in Files(T), NEW n, NEW v \in T
  PROVE  /\ [f EXCEPT ![n] = v] \in Files(T)
         /\ DOMAIN [f EXCEPT ![n] = v] = DOMAIN f
         /\ n \in DOMAIN f => [f EXCEPT ![n] = v][n] = v
         /\ \A m \in DOMAIN f : m # n => [f EXCEPT ![n] = v][m] = f[m]
<1>1. DOMAIN f \in SUBSET Nat /\ f \in [DOMAIN f -> T]
  BY DEF Files
<1>2. [f EXCEPT ![n] = v] \in [DOMAIN f -> T]
  BY <1>1
<1> QED
  BY <1>1, <1>2 DEF Files

\* Only the logs change.
LEMMA NewLogs ==
  ASSUME disk \in Disk, NEW f \in Files(Log), disk' = [disk EXCEPT !.logs = f]
  PROVE  /\ disk' \in Disk /\ disk'.logs = f /\ disk'.tables = disk.tables
         /\ disk'.manifests = disk.manifests /\ disk'.current = disk.current
         /\ disk'.lost = disk.lost
BY DEF Disk

\* Only the tables change.
LEMMA NewTables ==
  ASSUME disk \in Disk, NEW f \in Files(SUBSET Entry), disk' = [disk EXCEPT !.tables = f]
  PROVE  /\ disk' \in Disk /\ disk'.logs = disk.logs /\ disk'.tables = f
         /\ disk'.manifests = disk.manifests /\ disk'.current = disk.current
         /\ disk'.lost = disk.lost
BY DEF Disk

\* Only the manifests change.
LEMMA NewManifests ==
  ASSUME disk \in Disk, NEW f \in Files(Manifest), disk' = [disk EXCEPT !.manifests = f]
  PROVE  /\ disk' \in Disk /\ disk'.logs = disk.logs /\ disk'.tables = disk.tables
         /\ disk'.manifests = f /\ disk'.current = disk.current
         /\ disk'.lost = disk.lost
BY DEF Disk

\* A log is created, or an old one of that number replaced.
LEMMA AddLog ==
  ASSUME disk \in Disk, NEW n \in Nat, NEW log \in Log,
         disk' = [disk EXCEPT !.logs = With(@, n, log)]
  PROVE  /\ disk' \in Disk /\ disk'.tables = disk.tables
         /\ disk'.manifests = disk.manifests /\ disk'.current = disk.current
         /\ DOMAIN disk'.logs = DOMAIN disk.logs \cup {n}
         /\ disk'.logs[n] = log
         /\ \A m \in DOMAIN disk.logs : m # n => disk'.logs[m] = disk.logs[m]
<1> DEFINE f == With(disk.logs, n, log)
<1>1. disk.logs \in Files(Log)
  BY DEF Disk
<1>2. /\ f \in Files(Log) /\ DOMAIN f = DOMAIN disk.logs \cup {n} /\ f[n] = log
      /\ \A m \in DOMAIN disk.logs : m # n => f[m] = disk.logs[m]
  <2>1. f \in Files(Log)
    BY <1>1, WithFile
  <2>2. /\ DOMAIN f = DOMAIN disk.logs \cup {n} /\ f[n] = log
        /\ \A m \in DOMAIN disk.logs : m # n => f[m] = disk.logs[m]
    BY DEF With
  <2> QED
    BY <2>1, <2>2
<1>3. disk' = [disk EXCEPT !.logs = f]
  OBVIOUS
<1> HIDE DEF f
<1> QED
  BY <1>2, <1>3, NewLogs

\* The same of a table.
LEMMA AddTable ==
  ASSUME disk \in Disk, NEW n \in Nat, NEW table \in SUBSET Entry,
         disk' = [disk EXCEPT !.tables = With(@, n, table)]
  PROVE  /\ disk' \in Disk /\ disk'.logs = disk.logs
         /\ disk'.manifests = disk.manifests /\ disk'.current = disk.current
         /\ DOMAIN disk'.tables = DOMAIN disk.tables \cup {n}
         /\ disk'.tables[n] = table
         /\ \A m \in DOMAIN disk.tables : m # n => disk'.tables[m] = disk.tables[m]
<1> DEFINE f == With(disk.tables, n, table)
<1>1. disk.tables \in Files(SUBSET Entry)
  BY DEF Disk
<1>2. /\ f \in Files(SUBSET Entry) /\ DOMAIN f = DOMAIN disk.tables \cup {n} /\ f[n] = table
      /\ \A m \in DOMAIN disk.tables : m # n => f[m] = disk.tables[m]
  <2>1. f \in Files(SUBSET Entry)
    BY <1>1, WithFile
  <2>2. /\ DOMAIN f = DOMAIN disk.tables \cup {n} /\ f[n] = table
        /\ \A m \in DOMAIN disk.tables : m # n => f[m] = disk.tables[m]
    BY DEF With
  <2> QED
    BY <2>1, <2>2
<1>3. disk' = [disk EXCEPT !.tables = f]
  OBVIOUS
<1> HIDE DEF f
<1> QED
  BY <1>2, <1>3, NewTables

\* The same of a manifest.
LEMMA AddManifest ==
  ASSUME disk \in Disk, NEW n \in Nat, NEW manifest \in Manifest,
         disk' = [disk EXCEPT !.manifests = With(@, n, manifest)]
  PROVE  /\ disk' \in Disk /\ disk'.logs = disk.logs
         /\ disk'.tables = disk.tables /\ disk'.current = disk.current
         /\ DOMAIN disk'.manifests = DOMAIN disk.manifests \cup {n}
         /\ disk'.manifests[n] = manifest
         /\ \A m \in DOMAIN disk.manifests : m # n => disk'.manifests[m] = disk.manifests[m]
<1> DEFINE f == With(disk.manifests, n, manifest)
<1>1. disk.manifests \in Files(Manifest)
  BY DEF Disk
<1>2. /\ f \in Files(Manifest) /\ DOMAIN f = DOMAIN disk.manifests \cup {n} /\ f[n] = manifest
      /\ \A m \in DOMAIN disk.manifests : m # n => f[m] = disk.manifests[m]
  <2>1. f \in Files(Manifest)
    BY <1>1, WithFile
  <2>2. /\ DOMAIN f = DOMAIN disk.manifests \cup {n} /\ f[n] = manifest
        /\ \A m \in DOMAIN disk.manifests : m # n => f[m] = disk.manifests[m]
    BY DEF With
  <2> QED
    BY <2>1, <2>2
<1>3. disk' = [disk EXCEPT !.manifests = f]
  OBVIOUS
<1> HIDE DEF f
<1> QED
  BY <1>2, <1>3, NewManifests

-----------------------------------------------------------------------------
(* Records and their entries.                                              *)

\* The entries of a record are numbered below its first number and its length.
LEMMA EntriesType ==
  ASSUME NEW record \in Record
  PROVE  /\ Entries(record) \subseteq Entry
         /\ \A e \in Entries(record) : e.seq < record.first + Len(record.writes)
<1>1. ASSUME NEW i \in DOMAIN record.writes
      PROVE  /\ record.first + i - 1 \in Nat /\ record.first + i - 1 < record.first + Len(record.writes)
             /\ record.writes[i] \in Writes
  BY DEF Record
<1> QED
  BY <1>1 DEF Entries, Entry

\* A log holds entries.
LEMMA LogEntriesType ==
  ASSUME NEW log \in Log
  PROVE  LogEntries(log) \subseteq Entry
<1>1. \A i \in DOMAIN log.records : log.records[i] \in Record
  BY DEF Log
<1> QED
  BY <1>1, EntriesType DEF LogEntries

\* The numbers of a log are bounded, whatever it holds.
LEMMA LogBounded ==
  ASSUME NEW log \in Log
  PROVE  \E b \in Nat : \A e \in LogEntries(log) : e.seq <= b
<1> DEFINE r == log.records
           Bound(k, b) == \A i \in 1..k : \A e \in Entries(r[i]) : e.seq <= b
           T == {k \in 0..Len(r) : \A b \in Nat : ~Bound(k, b)}
<1>1. r \in Seq(Record) /\ Len(r) \in Nat
  BY DEF Log
<1> HIDE DEF r
<1>2. Bound(0, 0)
  OBVIOUS
<1>3. ASSUME NEW k \in 1..Len(r), NEW b \in Nat, Bound(k - 1, b)
      PROVE  \E c \in Nat : Bound(k, c)
  <2>1. r[k] \in Record /\ r[k].first + Len(r[k].writes) \in Nat
    <3>1. r[k] \in Record
      BY <1>1
    <3>2. r[k].first \in Nat /\ r[k].writes \in Seq(Writes)
      BY <3>1 DEF Record
    <3> QED
      BY <3>1, <3>2
  <2> DEFINE c == b + (r[k].first + Len(r[k].writes))
  <2>2. c \in Nat
    BY <2>1
  <2>3. ASSUME NEW i \in 1..k, NEW e \in Entries(r[i]) PROVE e.seq <= c
    <3>1. r[i] \in Record
      BY <1>1
    <3>2. e.seq \in Nat /\ e.seq < r[i].first + Len(r[i].writes)
      BY <3>1, EntriesType DEF Entry
    <3>3. CASE i = k
      BY <2>1, <3>2, <3>3
    <3>4. CASE i # k
      <4>1. i \in 1..(k - 1)
        BY <3>4
      <4>2. e.seq <= b
        BY <1>3, <4>1
      <4> QED
        BY <2>1, <3>2, <4>2
    <3> QED
      BY <3>3, <3>4
  <2> QED
    BY <2>2, <2>3
<1> HIDE DEF Bound
<1>4. T = {}
  <2> SUFFICES ASSUME T # {} PROVE FALSE
    OBVIOUS
  <2>1. T \in SUBSET Nat /\ 0 \notin T
    BY <1>1, <1>2
  <2>2. PICK k \in T : \A j \in T : k <= j
    <3> HIDE DEF T
    <3> QED
      BY <2>1, LeastOf
  <2>3. k \in 1..Len(r) /\ k - 1 \in 0..Len(r) /\ k - 1 \notin T
    <3>1. k \in 0..Len(r) /\ k # 0
      BY <2>1
    <3>2. k \in 1..Len(r) /\ k - 1 \in 0..Len(r) /\ ~(k <= k - 1)
      BY <1>1, <3>1
    <3> QED
      BY <2>2, <3>2
  <2>4. PICK b \in Nat : Bound(k - 1, b)
    BY <2>3
  <2>5. \E c \in Nat : Bound(k, c)
    BY <1>3, <2>3, <2>4
  <2> QED
    BY <2>5
<1>5. PICK b \in Nat : Bound(Len(r), b)
  BY <1>1, <1>4
<1>6. ASSUME NEW e \in LogEntries(log) PROVE e.seq <= b
  BY <1>1, <1>5 DEF LogEntries, r, Bound
<1> QED
  BY <1>6

\* What RecoverLogFile has seen as the greatest number.
LEMMA LastSequenceIsLast ==
  ASSUME Shape, NEW log \in Log
  PROVE  /\ LastSequence(LogEntries(log)) \in Nat
         /\ db.last <= LastSequence(LogEntries(log))
         /\ \A e \in LogEntries(log) : e.seq <= LastSequence(LogEntries(log))
<1> DEFINE all == {db.last} \cup {e.seq : e \in LogEntries(log)}
<1>1. all \in SUBSET Nat /\ all # {}
  BY LogEntriesType DEF Shape, Db, Entry
<1>2. PICK b \in Nat : \A e \in LogEntries(log) : e.seq <= b
  BY LogBounded
<1>3. b + db.last \in Nat /\ \A s \in all : s <= b + db.last
  <2>1. db.last \in Nat
    BY DEF Shape, Db
  <2>2. ASSUME NEW e \in LogEntries(log) PROVE e.seq <= b + db.last
    <3>1. e.seq \in Nat
      BY LogEntriesType DEF Entry
    <3> QED
      BY <1>2, <2>1, <3>1
  <2>3. db.last <= b + db.last /\ b + db.last \in Nat
    BY <2>1
  <2> QED
    BY <2>2, <2>3
<1>4. \E s \in all : \A r \in all : r <= s
  <2> HIDE DEF all
  <2> QED
    BY <1>1, <1>3, GreatestOf
<1>5. LastSequence(LogEntries(log)) = CHOOSE s \in all : \A r \in all : r <= s
  BY DEF LastSequence
<1> QED
  BY <1>1, <1>4, <1>5

\* A batch group is a beginning of the queue, and asks for sync if one of it does.
LEMMA BatchGroupIs ==
  ASSUME Shape, writing.queue # <<>>
  PROVE  LET g == BatchGroup  q == writing.queue IN
         /\ g \in Seq(Writes) /\ Len(g) \in 1..Len(q) /\ g = SubSeq(q, 1, Len(g))
         /\ \A i \in DOMAIN g : g[i] \in Synced => g[1] \in Synced
<1> DEFINE q == writing.queue
           fits == {n \in 1..Len(q) : n <= MaxGroup /\ \A i \in 2..n : Joins(q[i], q[1])}
           n == CHOOSE k \in fits : \A m \in fits : m <= k
<1>1. q \in Seq(Writes) /\ Len(q) \in Nat \ {0} /\ MaxGroup \in Nat \ {0}
  BY SizesAssumption DEF Shape, WriterState
<1>2. fits \in SUBSET Nat /\ 1 \in fits /\ \A k \in fits : k <= Len(q)
  BY <1>1
<1>3. \E k \in fits : \A m \in fits : m <= k
  <2> HIDE DEF fits, q
  <2>1. Len(q) \in Nat
    BY <1>1
  <2> QED
    BY <2>1, <1>2, GreatestOf
<1>4. n \in fits
  <2> HIDE DEF fits
  <2> QED
    BY <1>3
<1>5. BatchGroup = SubSeq(q, 1, n)
  BY DEF BatchGroup
<1> HIDE DEF n
<1>6. n \in 1..Len(q) /\ \A i \in 2..n : Joins(q[i], q[1])
  BY <1>4
<1>7. /\ SubSeq(q, 1, n) \in Seq(Writes) /\ Len(SubSeq(q, 1, n)) = n
      /\ \A i \in 1..n : SubSeq(q, 1, n)[i] = q[i]
  BY <1>1, <1>6
<1>8. \A i \in 1..n : q[i] \in Synced => q[1] \in Synced
  BY <1>6 DEF Joins
<1> QED
  BY <1>5, <1>6, <1>7, <1>8

-----------------------------------------------------------------------------
(* What the operations of LevelDb do to the files and the fields.          *)

\* A log of the same number takes another content.
LEMMA LogChanges ==
  ASSUME Shape, NEW n \in DOMAIN disk.logs, NEW log \in Log,
         disk' = [disk EXCEPT !.logs = [disk.logs EXCEPT ![n] = log]]
  PROVE  /\ disk' \in Disk
         /\ disk'.tables = disk.tables /\ disk'.manifests = disk.manifests
         /\ disk'.current = disk.current /\ disk'.lost = disk.lost
         /\ DOMAIN disk'.logs = DOMAIN disk.logs
         /\ disk'.logs[n] = log
         /\ \A m \in DOMAIN disk.logs : m # n => disk'.logs[m] = disk.logs[m]
<1>1. disk.logs \in Files(Log)
  BY DEF Shape, Disk
<1> DEFINE f == [disk.logs EXCEPT ![n] = log]
<1>2. /\ f \in Files(Log) /\ DOMAIN f = DOMAIN disk.logs /\ f[n] = log
      /\ \A m \in DOMAIN disk.logs : m # n => f[m] = disk.logs[m]
  BY <1>1, ChangedFile
<1> HIDE DEF f
<1>3. disk' = [disk EXCEPT !.logs = f]
  BY DEF f
<1> QED
  BY <1>2, <1>3, NewLogs DEF Shape

\* One manifest gets new contents.
LEMMA ManifestChanges ==
  ASSUME Shape, NEW n \in DOMAIN disk.manifests, NEW m \in Manifest,
         disk' = [disk EXCEPT !.manifests = [disk.manifests EXCEPT ![n] = m]]
  PROVE  /\ disk' \in Disk
         /\ disk'.logs = disk.logs /\ disk'.tables = disk.tables /\ disk'.current = disk.current
         /\ disk'.lost = disk.lost
         /\ DOMAIN disk'.manifests = DOMAIN disk.manifests
         /\ disk'.manifests[n] = m
<1>1. disk.manifests \in Files(Manifest)
  BY DEF Shape, Disk
<1> DEFINE f == [disk.manifests EXCEPT ![n] = m]
<1>2. f \in Files(Manifest) /\ DOMAIN f = DOMAIN disk.manifests /\ f[n] = m
  BY <1>1, ChangedFile
<1> HIDE DEF f
<1>3. disk' = [disk EXCEPT !.manifests = f]
  BY DEF f
<1> QED
  BY <1>2, <1>3, NewManifests DEF Shape

\* A log of which one field changes keeps the others.
LEMMA LogWith ==
  ASSUME NEW log \in Log, NEW x
  PROVE  /\ [log EXCEPT !.records = x] =
              [records |-> x, synced |-> log.synced, inStep |-> log.inStep]
         /\ [log EXCEPT !.synced = x] =
              [records |-> log.records, synced |-> x, inStep |-> log.inStep]
         /\ [log EXCEPT !.inStep = x] =
              [records |-> log.records, synced |-> log.synced, inStep |-> x]
BY DEF Log

\* Losing writes changes no file.
LEMMA LosesDoes ==
  ASSUME disk \in Disk, NEW entries \in SUBSET Entry, disk' = Loses(entries)
  PROVE  /\ disk' \in Disk /\ disk'.logs = disk.logs /\ disk'.tables = disk.tables
         /\ disk'.manifests = disk.manifests /\ disk'.current = disk.current
<1>1. disk.lost \cup {e.write : e \in entries} \in SUBSET Writes
  BY DEF Disk, Entry
<1> DEFINE lost == disk.lost \cup {e.write : e \in entries}
<1>2. disk' = [disk EXCEPT !.lost = lost]
  BY DEF Loses
<1> HIDE DEF lost
<1> QED
  BY <1>1, <1>2 DEF Disk, lost

\* The record of a group.
LEMMA GroupRecordIs ==
  ASSUME Shape
  PROVE  /\ GroupRecord \in Record /\ Entries(GroupRecord) \in SUBSET Entry
         /\ GroupRecord.first = db.last + 1 /\ GroupRecord.writes = writing.group
<1>1. GroupRecord \in Record
  BY DEF GroupRecord, Record, Shape, Db, WriterState
<1> QED
  BY <1>1, EntriesType DEF GroupRecord

\* log::Writer::AddRecord: the log in use is longer by the group's record.
LEMMA AppendDoes ==
  ASSUME Shape, db.logfile \in DOMAIN disk.logs,
         disk' = [disk EXCEPT !.logs[db.logfile].records = Append(@, GroupRecord)]
  PROVE  LET log == disk.logs[db.logfile] IN
         /\ disk' \in Disk /\ GroupRecord \in Record /\ log \in Log
         /\ disk'.tables = disk.tables /\ disk'.manifests = disk.manifests
         /\ disk'.current = disk.current /\ disk'.lost = disk.lost
         /\ DOMAIN disk'.logs = DOMAIN disk.logs
         /\ disk'.logs[db.logfile] = [records |-> Append(log.records, GroupRecord),
                                      synced |-> log.synced, inStep |-> log.inStep]
         /\ \A m \in DOMAIN disk.logs : m # db.logfile => disk'.logs[m] = disk.logs[m]
         /\ \A m \in DOMAIN disk'.logs : disk'.logs[m].synced <= Len(disk'.logs[m].records)
<1> DEFINE old == disk.logs[db.logfile]
           record == GroupRecord
           new == [old EXCEPT !.records = Append(@, record)]
<1>1. old \in Log /\ db.logfile \in Nat /\ old.synced <= Len(old.records)
  <2>1. disk.logs \in Files(Log)
    BY DEF Shape, Disk
  <2> QED
    BY <2>1, FileOf DEF Shape
<1>2. record \in Record
  BY GroupRecordIs
<1> HIDE DEF record
<1>3. /\ new = [records |-> Append(old.records, record), synced |-> old.synced,
                inStep |-> old.inStep]
      /\ Append(old.records, record) \in Seq(Record)
      /\ Len(Append(old.records, record)) = Len(old.records) + 1
      /\ old.synced \in Nat /\ Len(old.records) \in Nat /\ old.inStep \in BOOLEAN
  <2>1. old.records \in Seq(Record) /\ old.synced \in Nat /\ old.inStep \in BOOLEAN
    BY <1>1 DEF Log
  <2>2. /\ Append(old.records, record) \in Seq(Record)
        /\ Len(Append(old.records, record)) = Len(old.records) + 1
    BY <1>2, <2>1
  <2>3. new = [records |-> Append(old.records, record), synced |-> old.synced,
               inStep |-> old.inStep]
    BY <1>1, LogWith
  <2> QED
    BY <2>1, <2>2, <2>3
<1>4. new \in Log
  <2> HIDE DEF new, old
  <2> QED
    BY <1>1, <1>2, <1>3 DEF Log
<1>5. disk' = [disk EXCEPT !.logs = [disk.logs EXCEPT ![db.logfile] = new]]
  BY DEF record
<1> HIDE DEF new
<1>6. /\ disk' \in Disk
      /\ disk'.tables = disk.tables /\ disk'.manifests = disk.manifests
      /\ disk'.current = disk.current /\ disk'.lost = disk.lost
      /\ DOMAIN disk'.logs = DOMAIN disk.logs
      /\ disk'.logs[db.logfile] = new
      /\ \A m \in DOMAIN disk.logs : m # db.logfile => disk'.logs[m] = disk.logs[m]
  BY <1>4, <1>5, LogChanges
<1>7. ASSUME NEW m \in DOMAIN disk'.logs
      PROVE  disk'.logs[m].synced <= Len(disk'.logs[m].records)
  <2>1. new.synced <= Len(new.records)
    <3> HIDE DEF old
    <3>1. new.synced = old.synced /\ Len(new.records) = Len(old.records) + 1
      BY <1>3
    <3>2. old.synced \in Nat /\ Len(old.records) \in Nat /\ old.synced <= Len(old.records)
      BY <1>1, <1>3
    <3> QED
      BY <3>1, <3>2
  <2>2. CASE m = db.logfile
    BY <1>6, <2>1, <2>2, Zenon
  <2>3. CASE m # db.logfile
    BY <1>6, <2>3 DEF Shape
  <2> QED
    BY <2>2, <2>3
<1> QED
  BY <1>1, <1>2, <1>3, <1>6, <1>7 DEF record

\* The log in use takes another mark: how far it is synced, or that it is out of step.
LEMMA MarkDoes ==
  ASSUME Shape, db.logfile \in DOMAIN disk.logs, NEW new \in Log,
         new.records = disk.logs[db.logfile].records, new.synced <= Len(new.records),
         disk' = [disk EXCEPT !.logs = [disk.logs EXCEPT ![db.logfile] = new]]
  PROVE  /\ disk' \in Disk /\ disk'.tables = disk.tables /\ disk'.manifests = disk.manifests
         /\ disk'.current = disk.current /\ disk'.lost = disk.lost
         /\ DOMAIN disk'.logs = DOMAIN disk.logs /\ disk'.logs[db.logfile] = new
         /\ \A m \in DOMAIN disk.logs : m # db.logfile => disk'.logs[m] = disk.logs[m]
         /\ \A m \in DOMAIN disk'.logs : disk'.logs[m].synced <= Len(disk'.logs[m].records)
<1>1. /\ disk' \in Disk /\ disk'.tables = disk.tables /\ disk'.manifests = disk.manifests
      /\ disk'.current = disk.current /\ disk'.lost = disk.lost
      /\ DOMAIN disk'.logs = DOMAIN disk.logs /\ disk'.logs[db.logfile] = new
      /\ \A m \in DOMAIN disk.logs : m # db.logfile => disk'.logs[m] = disk.logs[m]
  BY LogChanges
<1>2. ASSUME NEW m \in DOMAIN disk'.logs
      PROVE  disk'.logs[m].synced <= Len(disk'.logs[m].records)
  BY <1>1 DEF Shape
<1> QED
  BY <1>1, <1>2

\* What a manifest says after one more edit.
LEMMA AppliedIs ==
  ASSUME NEW m \in Manifest, NEW edit \in Edit
  PROVE  /\ Applied(m, edit) \in Manifest
         /\ Named(Applied(m, edit)) = (Named(m) \ edit.inputs) \cup Named(edit)
         /\ Applied(m, edit).log = edit.log /\ Applied(m, edit).next = edit.next
         /\ Applied(m, edit).last = edit.last /\ Applied(m, edit).inStep = m.inStep
         /\ Applied(m, edit).corrupt = m.corrupt
BY DEF Applied, Manifest, Edit, Named

\* What an edit changes of the version in memory, and what it leaves.
LEMMA InstalledIs ==
  ASSUME NEW d \in Db, NEW edit \in Edit
  PROVE  /\ Installed(d, edit) \in Db
         /\ Named(Installed(d, edit)) = (Named(d) \ edit.inputs) \cup Named(edit)
         /\ Installed(d, edit).log = edit.log
         /\ Installed(d, edit).status = d.status /\ Installed(d, edit).mem = d.mem
         /\ Installed(d, edit).imm = d.imm /\ Installed(d, edit).hasImm = d.hasImm
         /\ Installed(d, edit).last = d.last /\ Installed(d, edit).next = d.next
         /\ Installed(d, edit).logfile = d.logfile /\ Installed(d, edit).manifest = d.manifest
         /\ Installed(d, edit).error = d.error /\ Installed(d, edit).replay = d.replay
BY DEF Installed, Db, Edit, Named

\* The manifest that CURRENT names says what it said, whatever became of its file.
SameVersion ==
  /\ Named(Current') = Named(Current) /\ Current'.log = Current.log
  /\ Current'.next = Current.next /\ Current'.last = Current.last

\* Only that manifest has changed, and what is lost.
OnlyCurrent ==
  /\ disk' \in Disk
  /\ disk'.logs = disk.logs /\ disk'.tables = disk.tables /\ disk'.current = disk.current
  /\ DOMAIN disk'.manifests = DOMAIN disk.manifests
  /\ Current \in Manifest /\ Current' \in Manifest

\* It cannot be read any more.
LEMMA ManifestUnreadableDoes ==
  ASSUME Shape, db.manifest = disk.current, disk.current \in DOMAIN disk.manifests,
         ManifestUnreadable
  PROVE  OnlyCurrent /\ SameVersion /\ Current'.inStep = Current.inStep
<1> DEFINE new == [Current EXCEPT !.corrupt = TRUE]
           f == [disk.manifests EXCEPT ![disk.current] = new]
<1>1. Current \in Manifest /\ disk.manifests \in Files(Manifest)
  BY FileOf DEF Shape, Disk, Current
<1>2. /\ new \in Manifest /\ Named(new) = Named(Current) /\ new.log = Current.log
      /\ new.next = Current.next /\ new.last = Current.last /\ new.inStep = Current.inStep
  BY <1>1 DEF Manifest, Named
<1>3. disk' = [disk EXCEPT !.manifests = f, !.lost = Writes]
  BY DEF ManifestUnreadable, Current
<1> HIDE DEF new
<1>4. /\ f \in Files(Manifest) /\ DOMAIN f = DOMAIN disk.manifests
      /\ f[disk.current] = new
  BY <1>1, <1>2, ChangedFile
<1> HIDE DEF f
<1>5. /\ disk' \in Disk /\ disk'.manifests = f
      /\ disk'.logs = disk.logs /\ disk'.tables = disk.tables /\ disk'.current = disk.current
  BY <1>3, <1>4 DEF Shape, Disk
<1> QED
  BY <1>1, <1>2, <1>4, <1>5 DEF Current, Named, OnlyCurrent, SameVersion

\* LogAndApply writes the edit to the manifest that CURRENT names, if that one is in
\* step with its reader.
LEMMA LogEditDoes ==
  ASSUME Shape, NEW edit \in Edit, db.manifest = disk.current,
         disk.current \in DOMAIN disk.manifests, Named(edit) \subseteq DOMAIN disk.tables,
         LogEdit(edit)
  PROVE  /\ OnlyCurrent
         /\ \/ Current' = Applied(Current, edit) /\ disk'.lost = disk.lost
            \/ ~Current.inStep /\ ~Current'.inStep /\ SameVersion
<1>1. Current \in Manifest /\ disk \in Disk
  BY FileOf DEF Shape, Disk, Current
<1>2. CASE disk' = [disk EXCEPT !.manifests[db.manifest] = Applied(@, edit)]
  <2>1. Applied(Current, edit) \in Manifest
    BY <1>1, AppliedIs
  <2>2. disk' = [disk EXCEPT !.manifests =
                   [disk.manifests EXCEPT ![disk.current] = Applied(Current, edit)]]
    BY <1>2 DEF Current
  <2> QED
    BY <1>1, <2>1, <2>2, ManifestChanges DEF Current, OnlyCurrent
<1>3. CASE OutOfStep /\ disk' = Loses(TableEntries(edit.l0 \cup edit.l1))
  <2>1. TableEntries(edit.l0 \cup edit.l1) \in SUBSET Entry
    <3>1. \A n \in edit.l0 \cup edit.l1 : disk.tables[n] \in SUBSET Entry
      BY FileOf DEF Named, Shape, Disk
    <3> QED
      BY <3>1 DEF TableEntries
  <2> HIDE DEF TableEntries
  <2>2. /\ disk' \in Disk /\ disk'.logs = disk.logs /\ disk'.tables = disk.tables
        /\ disk'.manifests = disk.manifests /\ disk'.current = disk.current
    BY <1>1, <1>3, <2>1, LosesDoes
  <2> QED
    BY <1>1, <1>3, <2>2 DEF Current, OutOfStep, OnlyCurrent, SameVersion, Named
<1>4. CASE OutOfStep /\ ManifestUnreadable
  BY <1>4, ManifestUnreadableDoes DEF OutOfStep, Current
<1> QED
  BY <1>2, <1>3, <1>4 DEF LogEdit

\* An edit of which nothing or a part was written changes nothing of what it says.
LEMMA EditAppendFailsDoes ==
  ASSUME Shape, db.manifest = disk.current, disk.current \in DOMAIN disk.manifests,
         EditAppendFails
  PROVE  OnlyCurrent /\ SameVersion /\ ~Current'.inStep
<1>1. CASE disk' = [disk EXCEPT !.manifests[db.manifest].inStep = FALSE]
  <2> DEFINE new == [Current EXCEPT !.inStep = FALSE]
  <2>1. Current \in Manifest
    BY FileOf DEF Shape, Disk, Current
  <2>2. /\ new \in Manifest /\ Named(new) = Named(Current) /\ new.log = Current.log
        /\ new.next = Current.next /\ new.last = Current.last /\ ~new.inStep
    BY <2>1 DEF Manifest, Named
  <2>3. disk' = [disk EXCEPT !.manifests = [disk.manifests EXCEPT ![disk.current] = new]]
    BY <1>1 DEF Current
  <2> HIDE DEF new
  <2>4. /\ disk' \in Disk
        /\ disk'.logs = disk.logs /\ disk'.tables = disk.tables /\ disk'.current = disk.current
        /\ DOMAIN disk'.manifests = DOMAIN disk.manifests
        /\ disk'.manifests[disk.current] = new
    BY <2>2, <2>3, ManifestChanges
  <2> QED
    BY <2>1, <2>2, <2>4 DEF Current, OnlyCurrent, SameVersion
<1> QED
  BY <1>1, ManifestUnreadableDoes DEF EditAppendFails, OutOfStep, Current

\* A disk on which some files were removed.
OnlyFiles(L, T, M) ==
  [disk EXCEPT !.logs = Keep(@, L), !.manifests = Keep(@, M), !.tables = Keep(@, T)]

\* Removing files changes no other.
LEMMA SomeFilesKept ==
  ASSUME disk \in Disk, NEW L, NEW T, NEW M
  PROVE  LET D == OnlyFiles(L, T, M) IN
         /\ D \in Disk /\ D.current = disk.current
         /\ DOMAIN D.logs = DOMAIN disk.logs \cap L
         /\ DOMAIN D.tables = DOMAIN disk.tables \cap T
         /\ DOMAIN D.manifests = DOMAIN disk.manifests \cap M
         /\ \A n \in DOMAIN D.logs : D.logs[n] = disk.logs[n]
         /\ \A n \in DOMAIN D.tables : D.tables[n] = disk.tables[n]
         /\ \A n \in DOMAIN D.manifests : D.manifests[n] = disk.manifests[n]
<1> DEFINE logs == Keep(disk.logs, L)
           tables == Keep(disk.tables, T)
           manifests == Keep(disk.manifests, M)
           D == [disk EXCEPT !.logs = logs, !.manifests = manifests, !.tables = tables]
<1>1. disk.logs \in Files(Log)
  BY DEF Disk
<1>2. disk.tables \in Files(SUBSET Entry)
  BY DEF Disk
<1>3. disk.manifests \in Files(Manifest)
  BY DEF Disk
<1>4. /\ logs \in Files(Log) /\ DOMAIN logs = DOMAIN disk.logs \cap L
      /\ \A n \in DOMAIN disk.logs \cap L : logs[n] = disk.logs[n]
  <2>1. logs \in Files(Log)
    BY <1>1, KeptFiles
  <2> QED
    BY <2>1, KeepIs
<1>5. /\ tables \in Files(SUBSET Entry) /\ DOMAIN tables = DOMAIN disk.tables \cap T
      /\ \A n \in DOMAIN disk.tables \cap T : tables[n] = disk.tables[n]
  <2>1. tables \in Files(SUBSET Entry)
    BY <1>2, KeptFiles
  <2> QED
    BY <2>1, KeepIs
<1>6. /\ manifests \in Files(Manifest) /\ DOMAIN manifests = DOMAIN disk.manifests \cap M
      /\ \A n \in DOMAIN disk.manifests \cap M : manifests[n] = disk.manifests[n]
  <2>1. manifests \in Files(Manifest)
    BY <1>3, KeptFiles
  <2> QED
    BY <2>1, KeepIs
<1> HIDE DEF logs, tables, manifests
<1>7. /\ D \in Disk /\ D.current = disk.current
      /\ D.logs = logs /\ D.tables = tables /\ D.manifests = manifests
  BY <1>4, <1>5, <1>6 DEF Disk
<1> HIDE DEF D
<1>8. D = OnlyFiles(L, T, M)
  BY DEF OnlyFiles, D, logs, tables, manifests, Disk
<1> QED
  BY <1>4, <1>5, <1>6, <1>7, <1>8

\* Whatever DeleteObsoleteFiles deletes, it leaves what it leaves as it was.
LEMMA DeleteDoes ==
  ASSUME Shape, NEW d, NEW D, D = DeleteObsoleteFiles(d)
  PROVE  /\ D \in Disk /\ D.current = disk.current
         /\ DOMAIN D.logs = {n \in DOMAIN disk.logs : DeletesFiles(d) => n >= d.log}
         /\ DOMAIN D.tables =
              {n \in DOMAIN disk.tables : DeletesFiles(d) => n \in Named(d) \cup PendingOutputs}
         /\ DOMAIN D.manifests = {n \in DOMAIN disk.manifests : DeletesFiles(d) => n >= d.manifest}
         /\ \A n \in DOMAIN D.logs : D.logs[n] = disk.logs[n]
         /\ \A n \in DOMAIN D.tables : D.tables[n] = disk.tables[n]
         /\ \A n \in DOMAIN D.manifests : D.manifests[n] = disk.manifests[n]
<1>1. CASE ~DeletesFiles(d)
  BY <1>1 DEF DeleteObsoleteFiles, Shape
<1>2. CASE DeletesFiles(d)
  <2> DEFINE L == {n \in DOMAIN disk.logs : n >= d.log}
             T == d.l0 \cup d.l1 \cup PendingOutputs
             M == {n \in DOMAIN disk.manifests : n >= d.manifest}
  <2>1. D = OnlyFiles(L, T, M)
    BY <1>2 DEF OnlyFiles, DeleteObsoleteFiles, ManifestsToKeep
  <2>2. /\ D \in Disk /\ D.current = disk.current
        /\ DOMAIN D.logs = DOMAIN disk.logs \cap L
        /\ DOMAIN D.tables = DOMAIN disk.tables \cap T
        /\ DOMAIN D.manifests = DOMAIN disk.manifests \cap M
        /\ \A n \in DOMAIN D.logs : D.logs[n] = disk.logs[n]
        /\ \A n \in DOMAIN D.tables : D.tables[n] = disk.tables[n]
        /\ \A n \in DOMAIN D.manifests : D.manifests[n] = disk.manifests[n]
    <3> HIDE DEF L, T, M
    <3>1. disk \in Disk
      BY DEF Shape
    <3> QED
      BY <2>1, <3>1, SomeFilesKept
  <2> QED
    BY <1>2, <2>2 DEF Named
<1> QED
  BY <1>1, <1>2

\* The end of a group leaves the beginning of the queue out.
LEMMA FinishDoes ==
  ASSUME Shape, NEW group \in Seq(Writes), NEW status \in {"ok", "error"}, Finish(group, status)
  PROVE  /\ writing' \in WriterState /\ answered' \in Answers
         /\ writing'.queue = SubSeq(writing.queue, Len(group) + 1, Len(writing.queue))
         /\ writing'.at = "idle" /\ writing'.group = <<>>
         /\ \A w \in Writes :
              answered'[w] = IF w \in ToSet(group) THEN status ELSE answered[w]
<1>1. /\ SubSeq(writing.queue, Len(group) + 1, Len(writing.queue)) \in Seq(Writes)
      /\ <<>> \in Seq(Writes)
  BY DEF Shape, WriterState
<1>2. /\ writing' \in WriterState
      /\ writing'.queue = SubSeq(writing.queue, Len(group) + 1, Len(writing.queue))
      /\ writing'.at = "idle" /\ writing'.group = <<>>
  <2> DEFINE rest == SubSeq(writing.queue, Len(group) + 1, Len(writing.queue))
             asleep == writing.asleep \ Wakes(group, rest)
  <2>1. writing' = [writing EXCEPT !.queue = rest, !.at = "idle", !.group = <<>>,
                                   !.asleep = asleep]
    BY DEF Finish
  <2>2. asleep \in SUBSET Writes
    BY DEF Shape, WriterState
  <2> HIDE DEF rest, asleep
  <2>3. rest \in Seq(Writes)
    BY <1>1 DEF rest
  <2> QED
    BY <1>1, <2>1, <2>2, <2>3 DEF Shape, WriterState, rest
<1> QED
  BY <1>2 DEF Finish, Shape, Answers

\* A failed operation leaves one error fewer, a failed append less that may be damaged.
LEMMA LeftTypes ==
  ASSUME Within
  PROVE  /\ left' = left => Within'
         /\ MayFail /\ left' = OneError =>
              Within' /\ left'.damage = left.damage /\ left'.crashes = left.crashes
         /\ MayDamage /\ left' = OneDamage =>
              Within' /\ left'.damage < left.damage /\ left'.crashes = left.crashes
<1>1. ASSUME MayFail, left' = OneError
      PROVE  Within' /\ left'.damage = left.damage /\ left'.crashes = left.crashes
  <2> DEFINE n == left.errors - 1
  <2>1. n \in Nat /\ left' = [left EXCEPT !.errors = n]
    BY <1>1 DEF MayFail, Within, Bounds, OneError
  <2> HIDE DEF n
  <2> QED
    BY <2>1 DEF Within, Bounds
<1>2. ASSUME MayDamage, left' = OneDamage
      PROVE  Within' /\ left'.damage < left.damage /\ left'.crashes = left.crashes
  <2> DEFINE n == left.damage - 1
  <2>1. /\ n \in Nat /\ n < left.damage /\ n <= MaxDamage
        /\ left' = [left EXCEPT !.damage = n]
    BY <1>2, SizesAssumption DEF MayDamage, Within, Bounds, OneDamage
  <2> HIDE DEF n
  <2> QED
    BY <2>1 DEF Within, Bounds
<1> QED
  BY <1>1, <1>2 DEF Within

\* MaybeScheduleCompaction: the thread has nothing in its hands when it is scheduled.
LEMMA ScheduledIs ==
  ASSUME NEW d
  PROVE  /\ Scheduled(d) \in BgState
         /\ Scheduled(d).at \in {"none", "scheduled"} /\ Scheduled(d).inputs = {}
         /\ HasWork(d) <=> Scheduled(d).at = "scheduled"
BY DEF Scheduled, NoBackground, NoEdit, BgState, Edit

\* An edit gets the next number and the last sequence of the version set.
LEMMA CompletedIs ==
  ASSUME Shape, NEW inputs \in SUBSET Nat, NEW l0 \in SUBSET Nat, NEW l1 \in SUBSET Nat,
         NEW log \in Nat, NEW edit, edit = Completed(inputs, l0, l1, log)
  PROVE  /\ edit \in Edit /\ edit.inputs = inputs /\ edit.l0 = l0 /\ edit.l1 = l1
         /\ edit.log = log /\ edit.next = db.next /\ edit.last = db.last
BY DEF Completed, Edit, Shape, Db

-----------------------------------------------------------------------------
(* The numbers stay in order.                                              *)

\* The first conjuncts of Numbers are about the start of a database.
LEMMA WhileOpen ==
  ASSUME db'.status = "open", ManifestNumbers', LiveNumbers', BgNumbers', EditNumbers'
  PROVE  Numbers'
BY DEF Numbers, ReplayNumbers, StartNumbers, Starting, Alone

\* Contents of files and the state of the writers do not matter.
LEMMA SameNumbers ==
  ASSUME Numbers, db.status = "open", db'.status = "open", bg' = bg,
         disk'.current = disk.current, disk'.manifests = disk.manifests,
         DOMAIN disk'.logs = DOMAIN disk.logs, DOMAIN disk'.tables = DOMAIN disk.tables,
         db'.next = db.next, db'.log = db.log, db'.logfile = db.logfile, db'.l0 = db.l0,
         db'.l1 = db.l1, db'.manifest = db.manifest, db'.hasImm = db.hasImm,
         db.error => db'.error
  PROVE  Numbers'
<1>1. ManifestNumbers' /\ LiveNumbers'
  BY DEF Numbers, ManifestNumbers, LiveNumbers, Current, Live, Below, Named
<1>2. BgNumbers'
  BY DEF Numbers, BgNumbers, Dumping, Current, Named
<1>3. EditNumbers'
  BY DEF Numbers, EditNumbers, MergeEnds, Current, Named, Below
<1> QED
  BY <1>1, <1>2, <1>3, WhileOpen

\* A thread with nothing in its hands has no numbers to keep.
LEMMA BgDone ==
  ASSUME bg'.at \in {"none", "scheduled"}, bg'.inputs = {}
  PROVE  BgNumbers' /\ EditNumbers'
BY DEF BgNumbers, EditNumbers, MergeEnds, Dumping

\* Whoever writes, or works, does so in an open database.
LEMMA OpenWhen ==
  ASSUME Numbers, writing.at # "idle" \/ bg.at # "none" \/ bg.inputs # {}
  PROVE  db.status = "open" /\ Live
BY DEF Numbers, Alone, NoWriting, NoBackground, Live

\* The files of an open database are there.
LEMMA LiveFacts ==
  ASSUME TypeInv, Live
  PROVE  /\ db.logfile \in DOMAIN disk.logs /\ db.manifest = disk.current
         /\ disk.current \in DOMAIN disk.manifests
         /\ Current \in Manifest /\ disk.logs[db.logfile] \in Log
<1>1. /\ db.logfile \in DOMAIN disk.logs /\ db.manifest = disk.current
      /\ disk.current \in DOMAIN disk.manifests
  BY DEF TypeInv, Numbers, LiveNumbers, ManifestNumbers
<1>2. disk.logs \in Files(Log) /\ disk.manifests \in Files(Manifest)
  BY DEF TypeInv, Shape, Disk
<1>3. Current \in Manifest
  BY <1>1, <1>2, FileOf DEF Current
<1>4. disk.logs[db.logfile] \in Log
  BY <1>1, <1>2, FileOf
<1> QED
  BY <1>1, <1>3, <1>4

\* One writer joins the queue, waits or is turned away: only the queue changes.
LEMMA QueueStepTypes ==
  ASSUME TypeInv, NEW w \in Writes,
         Write(w) \/ WriteFails(w) \/ WriteHasRoom(w) \/ WriteWaits(w) \/ SwitchFails(w)
  PROVE  TypeInv'
<1>1. db.status = "open" /\ UNCHANGED <<disk, db, bg>>
  BY DEF Write, WriteFails, WriteHasRoom, WriteWaits, SwitchFails, First, Open
<1>2. writing' \in WriterState /\ answered' \in Answers
  <2>1. CASE Write(w)
    <3>1. writing'.queue = Append(writing.queue, w) /\ Append(writing.queue, w) \in Seq(Writes)
      BY <2>1 DEF Write, TypeInv, Shape, WriterState
    <3> QED
      BY <2>1, <3>1 DEF Write, TypeInv, Shape, WriterState
  <2>2. CASE WriteFails(w) \/ SwitchFails(w)
    <3>1. <<w>> \in Seq(Writes) /\ Finish(<<w>>, "error")
      BY <2>2 DEF WriteFails, SwitchFails
    <3> QED
      BY <3>1, FinishDoes DEF TypeInv
  <2>3. CASE WriteHasRoom(w)
    <3>1. BatchGroup \in Seq(Writes)
      BY <2>3, BatchGroupIs DEF WriteHasRoom, First, TypeInv
    <3> QED
      BY <2>3, <3>1 DEF WriteHasRoom, StartGroup, TypeInv, Shape, WriterState
  <2>4. CASE WriteWaits(w)
    BY <2>4 DEF WriteWaits, TypeInv, Shape, WriterState
  <2> QED
    BY <2>1, <2>2, <2>3, <2>4
<1>3. Within'
  <2>1. CASE SwitchFails(w)
    BY <2>1, LeftTypes DEF SwitchFails, TypeInv, Shape
  <2>2. CASE ~SwitchFails(w)
    BY <2>2 DEF Write, WriteFails, WriteHasRoom, WriteWaits, TypeInv, Shape, Within
  <2> QED
    BY <2>1, <2>2
<1>4. Shape'
  BY <1>1, <1>2, <1>3 DEF TypeInv, Shape
<1>5. Numbers'
  BY <1>1, SameNumbers DEF TypeInv
<1> QED
  BY <1>4, <1>5 DEF TypeInv

\* A new log has a number of its own.
LEMMA SwitchTypes ==
  ASSUME TypeInv, NEW w \in Writes, SwitchMemTable(w)
  PROVE  TypeInv'
<1>1. db.status = "open" /\ Live /\ Shape /\ db \in Db
  BY DEF SwitchMemTable, First, Open, Live, TypeInv, Shape
<1>2. /\ disk' = [disk EXCEPT !.logs = With(@, db.next, EmptyLog)]
      /\ db' = [db EXCEPT !.next = @ + 1, !.logfile = db.next,
                          !.imm = db.mem, !.hasImm = TRUE, !.mem = {}]
      /\ bg' = IF bg.at = "none" THEN Scheduled(db') ELSE bg
      /\ StartGroup /\ UNCHANGED <<answered, left>> /\ db.hasImm = FALSE
  BY <1>1 DEF SwitchMemTable, Stopped, Db
<1>3. EmptyLog \in Log /\ disk.logs \in Files(Log) /\ db.next \in Nat
  BY <1>1 DEF EmptyLog, Log, Shape, Disk, Db
<1>4. /\ DOMAIN disk'.logs = DOMAIN disk.logs \cup {db.next}
      /\ disk'.logs[db.next] = EmptyLog
      /\ \A m \in DOMAIN disk.logs : m # db.next => disk'.logs[m] = disk.logs[m]
  BY <1>1, <1>2, <1>3, AddLog DEF Shape
<1>5. /\ disk' \in Disk /\ disk'.tables = disk.tables
      /\ disk'.manifests = disk.manifests /\ disk'.current = disk.current
  BY <1>1, <1>2, <1>3, AddLog DEF Shape
<1>6. /\ db' \in Db /\ db'.status = "open" /\ db'.next = db.next + 1 /\ db'.logfile = db.next
      /\ db'.log = db.log /\ db'.l0 = db.l0 /\ db'.l1 = db.l1 /\ db'.manifest = db.manifest
      /\ db'.hasImm = TRUE /\ db'.error = db.error
  <2>1. /\ db.mem \in SUBSET Entry /\ {} \in SUBSET Entry /\ db.next \in Nat
        /\ db.next + 1 \in Nat
    BY <1>1 DEF Db
  <2> DEFINE mem == db.mem  next == db.next  after == db.next + 1
  <2>2. db' = [db EXCEPT !.next = after, !.logfile = next, !.imm = mem, !.hasImm = TRUE,
                         !.mem = {}]
    BY <1>2
  <2>3. after \in Nat /\ next \in Nat /\ mem \in SUBSET Entry
    BY <2>1
  <2> HIDE DEF mem, next, after
  <2>4. db' \in Db
    BY <1>1, <2>2, <2>3 DEF Db
  <2>5. /\ db'.status = db.status /\ db'.next = after /\ db'.logfile = next
        /\ db'.log = db.log /\ db'.l0 = db.l0 /\ db'.l1 = db.l1 /\ db'.manifest = db.manifest
        /\ db'.hasImm = TRUE /\ db'.error = db.error
    BY <1>1, <2>2 DEF Db
  <2> QED
    BY <1>1, <2>4, <2>5 DEF next, after
<1>7. writing' \in WriterState
  <2>1. BatchGroup \in Seq(Writes)
    BY BatchGroupIs DEF SwitchMemTable, First, TypeInv
  <2> QED
    BY <1>1, <1>2, <2>1 DEF StartGroup, Shape, WriterState
<1>8. bg' \in BgState
  BY <1>1, <1>2, ScheduledIs DEF Shape
<1>9. Shape'
  <2>1. ASSUME NEW m \in DOMAIN disk'.logs
        PROVE  disk'.logs[m].synced <= Len(disk'.logs[m].records)
    <3>1. CASE m = db.next
      BY <1>4, <1>5, <3>1 DEF EmptyLog
    <3>2. CASE m # db.next
      BY <1>1, <1>4, <1>5, <3>2 DEF Shape
    <3> QED
      BY <3>1, <3>2
  <2> QED
    BY <1>1, <1>2, <1>5, <1>6, <1>7, <1>8, <2>1 DEF Shape, Within
<1>10. Current' = Current /\ Current \in Manifest
  BY <1>1, <1>5, LiveFacts DEF Current
<1>11. ManifestNumbers'
  BY <1>5, <1>10 DEF TypeInv, Numbers, ManifestNumbers
<1>12. LiveNumbers'
  <2>1. /\ LiveNumbers /\ db.next \in Nat /\ db.logfile \in Nat /\ db.log \in Nat
        /\ Current.log \in Nat /\ Current.next \in Nat
        /\ DOMAIN disk.logs \subseteq Nat /\ DOMAIN disk.tables \subseteq Nat
        /\ Named(db) \subseteq Nat
    BY <1>1, <1>3, <1>10, FileOf DEF TypeInv, Numbers, Db, Manifest, Shape, Disk, Named
  <2> QED
    BY <1>1, <1>4, <1>5, <1>6, <1>10, <2>1 DEF LiveNumbers, Live, Below, Named
<1>13. BgNumbers' /\ EditNumbers'
  <2>1. CASE bg.at = "none"
    BY <1>2, <2>1, ScheduledIs, BgDone
  <2>2. CASE bg.at # "none"
    <3>1. ~Dumping /\ bg' = bg
      BY <1>2, <2>2 DEF TypeInv, Numbers, BgNumbers
    <3>2. bg \in BgState /\ bg.edit \in Edit /\ db.next \in Nat /\ bg.output \in Nat
      BY <1>1 DEF Shape, BgState, Db
    <3>3. BgNumbers'
      BY <1>6, <1>10, <3>1, <3>2 DEF TypeInv, Numbers, BgNumbers, Dumping, Named
    <3>4. EditNumbers'
      <4>1. bg.at \notin {"logging", "installing"}
        BY <3>1 DEF Dumping
      <4>2. bg.edit.next \in Nat /\ db.next \in Nat /\ db.logfile \in Nat
        BY <1>1, <3>2 DEF Edit, Db
      <4>3. CASE bg.at = "mergeLogging"
        BY <1>5, <1>6, <1>10, <3>1, <4>1, <4>2, <4>3
           DEF TypeInv, Numbers, EditNumbers, MergeEnds, Named
      <4>4. CASE bg.at # "mergeLogging"
        BY <1>5, <1>6, <1>10, <3>1, <4>1, <4>2, <4>4
           DEF TypeInv, Numbers, EditNumbers, MergeEnds, Named
      <4> QED
        BY <4>3, <4>4
    <3> QED
      BY <3>3, <3>4
  <2> QED
    BY <2>1, <2>2
<1> QED
  BY <1>6, <1>9, <1>11, <1>12, <1>13, WhileOpen DEF TypeInv

\* The group is in the log, synced or not, or it failed: no number moves but the last.
LEMMA LogStepDoes ==
  ASSUME TypeInv,
         LogAppend \/ LogSync \/ LogAppendFails \/ LogSyncFails \/ InsertInto
  PROVE  /\ db.status = "open" /\ Live
         /\ disk' \in Disk /\ disk'.tables = disk.tables /\ disk'.manifests = disk.manifests
         /\ disk'.current = disk.current /\ DOMAIN disk'.logs = DOMAIN disk.logs
         /\ \A n \in DOMAIN disk.logs : n # db.logfile => disk'.logs[n] = disk.logs[n]
         /\ \A n \in DOMAIN disk'.logs : disk'.logs[n].synced <= Len(disk'.logs[n].records)
         /\ LogSync => disk'.logs[db.logfile] =
              [records |-> disk.logs[db.logfile].records,
               synced |-> Len(disk.logs[db.logfile].records),
               inStep |-> disk.logs[db.logfile].inStep]
<1> DEFINE old == disk.logs[db.logfile]
<1>1. db.status = "open" /\ Live
  <2>1. writing.at # "idle"
    BY DEF LogAppend, LogSync, LogAppendFails, LogSyncFails, InsertInto
  <2> QED
    BY <2>1, OpenWhen DEF TypeInv
<1>2. /\ db.logfile \in DOMAIN disk.logs /\ old \in Log /\ Shape
      /\ old.synced \in Nat /\ Len(old.records) \in Nat /\ old.synced <= Len(old.records)
  <2>1. db.logfile \in DOMAIN disk.logs /\ old \in Log /\ Shape
    BY <1>1, LiveFacts DEF TypeInv
  <2> QED
    BY <2>1 DEF Shape, Log
<1>3. CASE LogAppend
  <2>1. ~LogSync
    BY <1>3 DEF LogAppend, LogSync
  <2>2. CASE disk' = [disk EXCEPT !.logs[db.logfile].records = Append(@, GroupRecord)]
    <3> HIDE DEF old
    <3> QED
      BY <1>1, <1>2, <2>1, <2>2, AppendDoes
  <2>3. CASE disk' = Loses(Entries(GroupRecord))
    <3>1. /\ disk' \in Disk /\ disk'.logs = disk.logs /\ disk'.tables = disk.tables
          /\ disk'.manifests = disk.manifests /\ disk'.current = disk.current
      BY <1>2, <2>3, GroupRecordIs, LosesDoes DEF Shape
    <3> QED
      BY <1>1, <1>2, <2>1, <3>1 DEF Shape
  <2> QED
    BY <1>3, <2>2, <2>3 DEF LogAppend
<1>4. CASE disk' = disk /\ ~LogSync
  BY <1>1, <1>4 DEF TypeInv, Shape
<1>5. CASE LogSync
  <2> DEFINE new == [old EXCEPT !.synced = Len(old.records)]
  <2>1. disk' = [disk EXCEPT !.logs = [disk.logs EXCEPT ![db.logfile] = new]]
    BY <1>5 DEF LogSync
  <2> HIDE DEF old
  <2>2. new = [records |-> old.records, synced |-> Len(old.records), inStep |-> old.inStep]
    BY <1>2, LogWith
  <2> HIDE DEF new
  <2>3. new \in Log
    BY <1>2, <2>2 DEF Log
  <2> QED
    BY <1>1, <1>2, <2>1, <2>2, <2>3, MarkDoes DEF old
<1>6. CASE LogAppendFails
  <2> DEFINE new == [old EXCEPT !.inStep = FALSE]
  <2>1. disk' = [disk EXCEPT !.logs = [disk.logs EXCEPT ![db.logfile] = new]] /\ ~LogSync
    BY <1>6 DEF LogAppendFails, LogSync
  <2> HIDE DEF old
  <2>2. new = [records |-> old.records, synced |-> old.synced, inStep |-> FALSE]
    BY <1>2, LogWith
  <2> HIDE DEF new
  <2>3. new \in Log
    BY <1>2, <2>2 DEF Log
  <2> QED
    BY <1>1, <1>2, <2>1, <2>2, <2>3, MarkDoes DEF old
<1>7. \/ disk' = disk /\ ~LogSync
      \/ LogAppend \/ LogSync \/ LogAppendFails
  BY DEF LogSync, LogSyncFails, InsertInto
<1> QED
  BY <1>3, <1>4, <1>5, <1>6, <1>7

\* The writer at the head of the queue: the unlocked part of DBImpl::Write and its end.
LEMMA LogStepTypes ==
  ASSUME TypeInv,
         LogAppend \/ LogSync \/ LogAppendFails \/ LogSyncFails \/ InsertInto
  PROVE  TypeInv'
<1>1. Shape /\ db \in Db /\ writing \in WriterState /\ writing.group \in Seq(Writes)
  BY DEF TypeInv, Shape, WriterState
<1>2. /\ db.last + Len(writing.group) \in Nat /\ db.last + 1 \in Nat
  BY <1>1 DEF Db
<1>3. LET d == SequenceAfter(db, writing.group) IN
      /\ d \in Db /\ d.status = db.status /\ d.next = db.next /\ d.log = db.log
      /\ d.logfile = db.logfile /\ d.l0 = db.l0 /\ d.l1 = db.l1 /\ d.manifest = db.manifest
      /\ d.hasImm = db.hasImm /\ d.error = db.error
  <2> DEFINE n == db.last + Len(writing.group)
  <2>1. SequenceAfter(db, writing.group) = [db EXCEPT !.last = n]
    BY DEF SequenceAfter
  <2> HIDE DEF n
  <2> QED
    BY <1>1, <1>2, <2>1 DEF Db, n
<1>4. /\ db' \in Db /\ db'.status = db.status /\ db'.next = db.next /\ db'.log = db.log
      /\ db'.logfile = db.logfile /\ db'.l0 = db.l0 /\ db'.l1 = db.l1
      /\ db'.manifest = db.manifest /\ db'.hasImm = db.hasImm /\ (db.error => db'.error)
  <2>1. CASE LogAppend \/ LogSync
    BY <1>1, <2>1 DEF LogAppend, LogSync
  <2>2. CASE LogAppendFails
    BY <1>3, <2>2 DEF LogAppendFails
  <2>3. CASE LogSyncFails
    BY <1>3, <2>3 DEF LogSyncFails, RecordBackgroundError, Db
  <2>4. CASE InsertInto
    <3> DEFINE new == Entries(GroupRecord)
               d == SequenceAfter(db, writing.group)
    <3>1. new \subseteq Entry
      BY <1>1, GroupRecordIs
    <3>2. db' = [d EXCEPT !.mem = @ \cup new]
      BY <2>4 DEF InsertInto
    <3> HIDE DEF new, d
    <3>3. d \in Db /\ d.mem \cup new \in SUBSET Entry
      BY <1>3, <3>1 DEF d, Db
    <3>4. /\ db' \in Db /\ db'.status = d.status /\ db'.next = d.next /\ db'.log = d.log
          /\ db'.logfile = d.logfile /\ db'.l0 = d.l0 /\ db'.l1 = d.l1
          /\ db'.manifest = d.manifest /\ db'.hasImm = d.hasImm /\ db'.error = d.error
      BY <3>2, <3>3 DEF Db
    <3> QED
      BY <1>3, <3>4 DEF d
  <2> QED
    BY <2>1, <2>2, <2>3, <2>4
<1>5. writing' \in WriterState /\ answered' \in Answers
  <2>1. CASE LogAppend \/ LogSync
    <3>1. answered' = answered
      BY <2>1 DEF LogAppend, LogSync
    <3>2. \E at \in {"sync", "insert"} : writing' = [writing EXCEPT !.at = at]
      BY <2>1 DEF LogAppend, LogSync
    <3> QED
      BY <1>1, <3>1, <3>2 DEF Shape, WriterState
  <2>2. CASE LogAppendFails \/ LogSyncFails \/ InsertInto
    <3>1. PICK status \in {"ok", "error"} : Finish(writing.group, status)
      BY <2>2 DEF LogAppendFails, LogSyncFails, InsertInto
    <3> QED
      BY <1>1, <3>1, FinishDoes
  <2> QED
    BY <2>1, <2>2
<1>6. Within'
  <2>1. \/ left' = left
        \/ MayFail /\ left' = OneError
        \/ MayDamage /\ left' = OneDamage
    BY DEF LogAppend, LogSync, LogAppendFails, LogSyncFails, InsertInto
  <2> QED
    BY <1>1, <2>1, LeftTypes DEF Shape
<1>7. bg' = bg
  BY DEF LogAppend, LogSync, LogAppendFails, LogSyncFails, InsertInto
<1>8. Shape'
  BY <1>1, <1>4, <1>5, <1>6, <1>7, LogStepDoes DEF Shape
<1>9. Numbers'
  BY <1>4, <1>7, LogStepDoes, SameNumbers DEF TypeInv
<1> QED
  BY <1>8, <1>9 DEF TypeInv

\* All numbers are natural.
LEMMA NumberTypes ==
  ASSUME TypeInv
  PROVE  /\ db.next \in Nat /\ db.log \in Nat /\ db.logfile \in Nat /\ db.last \in Nat
         /\ db.manifest \in Nat /\ db.l0 \in SUBSET Nat /\ db.l1 \in SUBSET Nat
         /\ Named(db) \in SUBSET Nat
         /\ bg.table \in Nat /\ bg.output \in Nat /\ bg.inputs \in SUBSET Nat
         /\ bg.edit \in Edit /\ bg.edit.next \in Nat /\ bg.edit.log \in Nat
         /\ bg.edit.last \in Nat /\ Named(bg.edit) \in SUBSET Nat
         /\ Current.next \in Nat /\ Current.log \in Nat /\ Current.last \in Nat
         /\ Named(Current) \in SUBSET Nat /\ Current \in Manifest
         /\ DOMAIN disk.tables \in SUBSET Nat /\ DOMAIN disk.logs \in SUBSET Nat
         /\ DOMAIN disk.manifests \in SUBSET Nat
<1>1. /\ db \in Db /\ bg \in BgState /\ disk.tables \in Files(SUBSET Entry)
      /\ disk.logs \in Files(Log) /\ disk.manifests \in Files(Manifest)
      /\ disk.current \in DOMAIN disk.manifests
  BY DEF TypeInv, Shape, Disk, Numbers, ManifestNumbers
<1>2. Current \in Manifest
  BY <1>1, FileOf DEF Current
<1>3. bg.edit \in Edit
  BY <1>1 DEF BgState
<1>4. /\ DOMAIN disk.tables \in SUBSET Nat /\ DOMAIN disk.logs \in SUBSET Nat
      /\ DOMAIN disk.manifests \in SUBSET Nat
  BY <1>1 DEF Files
<1>5. /\ db.next \in Nat /\ db.log \in Nat /\ db.logfile \in Nat /\ db.last \in Nat
      /\ db.manifest \in Nat /\ db.l0 \in SUBSET Nat /\ db.l1 \in SUBSET Nat
      /\ Named(db) \in SUBSET Nat
  BY <1>1 DEF Db, Named
<1>6. bg.table \in Nat /\ bg.output \in Nat /\ bg.inputs \in SUBSET Nat
  BY <1>1 DEF BgState
<1>7. /\ bg.edit.next \in Nat /\ bg.edit.log \in Nat /\ bg.edit.last \in Nat
      /\ Named(bg.edit) \in SUBSET Nat
  BY <1>3 DEF Edit, Named
<1>8. /\ Current.next \in Nat /\ Current.log \in Nat /\ Current.last \in Nat
      /\ Named(Current) \in SUBSET Nat
  BY <1>2 DEF Manifest, Named
<1> QED
  BY <1>2, <1>3, <1>4, <1>5, <1>6, <1>7, <1>8

\* A number is given out.
LEMMA NextNumber ==
  ASSUME TypeInv, db.status = "open", disk' = disk, db' = [db EXCEPT !.next = @ + 1]
  PROVE  /\ db' \in Db /\ db'.status = "open" /\ db'.next = db.next + 1
         /\ db'.log = db.log /\ db'.logfile = db.logfile /\ db'.l0 = db.l0 /\ db'.l1 = db.l1
         /\ db'.hasImm = db.hasImm /\ db'.manifest = db.manifest
         /\ db'.mem = db.mem /\ db'.imm = db.imm /\ db'.last = db.last /\ db'.error = db.error
         /\ Named(db') = Named(db) /\ Current' = Current
         /\ ManifestNumbers' /\ LiveNumbers'
<1> DEFINE n == db.next + 1
<1>1. n \in Nat /\ db \in Db /\ db' = [db EXCEPT !.next = n]
  BY NumberTypes DEF TypeInv, Shape
<1>2. /\ db' \in Db /\ db'.status = "open" /\ db'.next = n
      /\ db'.log = db.log /\ db'.logfile = db.logfile /\ db'.l0 = db.l0 /\ db'.l1 = db.l1
      /\ db'.hasImm = db.hasImm /\ db'.manifest = db.manifest
      /\ db'.mem = db.mem /\ db'.imm = db.imm /\ db'.last = db.last /\ db'.error = db.error
  <2> HIDE DEF n
  <2> QED
    BY <1>1 DEF Db
<1>3. Named(db') = Named(db) /\ Current' = Current
  BY <1>2 DEF Named, Current
<1>4. ManifestNumbers'
  BY <1>3 DEF TypeInv, Numbers, ManifestNumbers
<1>5. LiveNumbers'
  <2>1. \A m \in Nat : m < db.next => m < n
    BY NumberTypes
  <2>2. Current.next <= n
    BY NumberTypes DEF TypeInv, Numbers, LiveNumbers, Live
  <2>3. LiveNumbers /\ Live
    BY DEF TypeInv, Numbers, Live
  <2> HIDE DEF n
  <2> QED
    BY <1>2, <1>3, <2>1, <2>2, <2>3, NumberTypes DEF LiveNumbers, Live, Below
<1> QED
  BY <1>2, <1>3, <1>4, <1>5

\* RecordBackgroundError sets the error and nothing else.
LEMMA ErrorRecorded ==
  ASSUME NEW d \in Db
  PROVE  LET e == RecordBackgroundError(d) IN
         /\ e \in Db /\ e.error = TRUE
         /\ e.status = d.status /\ e.mem = d.mem /\ e.imm = d.imm /\ e.hasImm = d.hasImm
         /\ e.last = d.last /\ e.next = d.next /\ e.log = d.log /\ e.logfile = d.logfile
         /\ e.l0 = d.l0 /\ e.l1 = d.l1 /\ e.manifest = d.manifest /\ e.replay = d.replay
BY DEF RecordBackgroundError, Db

\* A number that is given out is in no version.
LEMMA NewNumber ==
  ASSUME TypeInv, db.status = "open"
  PROVE  /\ db.next \notin Named(db) /\ db.next \notin Named(Current) /\ db.next < db.next + 1
         /\ db.next \notin DOMAIN disk.tables
BY NumberTypes DEF TypeInv, Numbers, LiveNumbers, ManifestNumbers, Live, Below

\* BackgroundCompaction with a full memtable.
LEMMA StartDumpTypes ==
  ASSUME TypeInv, BackgroundStarts, StartDump
  PROVE  TypeInv'
<1>1. /\ db.status = "open" /\ bg.at = "scheduled" /\ UNCHANGED <<disk, answered, left>>
      /\ db \in Db /\ bg \in BgState
  BY OpenWhen DEF BackgroundStarts, TypeInv, Shape
<1>2. /\ bg' = [NoBackground EXCEPT !.at = "building", !.table = db.next]
      /\ db' = [db EXCEPT !.next = @ + 1] /\ UNCHANGED writing /\ db.hasImm
  BY DEF StartDump
<1>3. /\ bg' \in BgState /\ bg'.at = "building" /\ bg'.table = db.next /\ bg'.inputs = {}
  BY <1>2, NumberTypes DEF NoBackground, NoEdit, BgState, Edit
<1>4. BgNumbers' /\ EditNumbers'
  BY <1>1, <1>2, <1>3, NewNumber, NextNumber DEF BgNumbers, EditNumbers, Dumping, MergeEnds
<1>5. Shape'
  BY <1>1, <1>2, <1>3, NextNumber DEF TypeInv, Shape, Within
<1> QED
  BY <1>1, <1>2, <1>4, <1>5, NextNumber, WhileOpen DEF TypeInv

\* BackgroundCompaction with enough tables at level 0.
LEMMA StartMergeTypes ==
  ASSUME TypeInv, BackgroundStarts, StartMerge
  PROVE  TypeInv'
<1>1. /\ db.status = "open" /\ bg.at = "scheduled" /\ UNCHANGED <<disk, answered, left>>
      /\ db \in Db /\ bg \in BgState
  BY OpenWhen DEF BackgroundStarts, TypeInv, Shape
<1>2. PICK others \in SUBSET db.l1 :
        bg' = [NoBackground EXCEPT !.at = "merging", !.output = db.next,
                                   !.inputs = db.l0 \cup others]
  BY Zenon DEF StartMerge
<1>3. db' = [db EXCEPT !.next = @ + 1] /\ UNCHANGED writing
  BY DEF StartMerge
<1>4. db.l0 # {}
  BY FS_EmptySet, SizesAssumption DEF StartMerge, NeedsCompaction
<1>5. /\ bg' \in BgState /\ bg'.at = "merging" /\ bg'.output = db.next
      /\ bg'.inputs # {} /\ bg'.inputs \subseteq Named(db)
  <2> DEFINE inputs == db.l0 \cup others
  <2>1. inputs \in SUBSET Nat /\ inputs # {} /\ inputs \subseteq Named(db)
    BY <1>4, NumberTypes DEF Named
  <2> HIDE DEF inputs
  <2>2. bg' = [NoBackground EXCEPT !.at = "merging", !.output = db.next, !.inputs = inputs]
    BY <1>2 DEF inputs
  <2> QED
    BY <2>1, <2>2, NumberTypes DEF NoBackground, NoEdit, BgState, Edit
<1>6. BgNumbers' /\ EditNumbers'
  BY <1>1, <1>3, <1>5, NewNumber, NextNumber DEF BgNumbers, EditNumbers, Dumping, MergeEnds
<1>7. Shape'
  BY <1>1, <1>3, <1>5, NextNumber DEF TypeInv, Shape, Within
<1> QED
  BY <1>1, <1>3, <1>6, <1>7, NextNumber, WhileOpen DEF TypeInv

\* The thread is at rest again.
LEMMA BackgroundCallEndsTypes ==
  ASSUME NEW d, writing \in WriterState, BackgroundCallEnds(d)
  PROVE  /\ bg' \in BgState /\ bg'.at \in {"none", "scheduled"} /\ bg'.inputs = {}
         /\ writing' \in WriterState /\ BgNumbers' /\ EditNumbers'
<1>1. bg' = Scheduled(d) /\ writing' = [writing EXCEPT !.waits = FALSE]
  BY DEF BackgroundCallEnds
<1> QED
  BY <1>1, ScheduledIs, BgDone DEF WriterState

\* BackgroundCompaction with neither, or after an error.
LEMMA NothingToDoTypes ==
  ASSUME TypeInv, BackgroundStarts, NothingToDo
  PROVE  TypeInv'
<1>1. /\ db.status = "open" /\ UNCHANGED <<disk, db, answered, left>>
      /\ writing \in WriterState /\ BackgroundCallEnds(db)
  BY OpenWhen DEF BackgroundStarts, NothingToDo, TypeInv, Shape
<1>2. bg' \in BgState /\ writing' \in WriterState /\ BgNumbers' /\ EditNumbers'
  BY <1>1, BackgroundCallEndsTypes
<1>3. ManifestNumbers' /\ LiveNumbers'
  BY <1>1 DEF TypeInv, Numbers, ManifestNumbers, LiveNumbers, Live, Current, Named, Below
<1> QED
  BY <1>1, <1>2, <1>3, WhileOpen DEF TypeInv, Shape, Within

\* A memtable comes first.
LEMMA MemTableFirstTypes ==
  ASSUME TypeInv, MemTableFirst
  PROVE  TypeInv'
<1>1. /\ db.status = "open" /\ bg.at \in {"merging", "merged"} /\ db.hasImm /\ bg \in BgState
      /\ bg' = [bg EXCEPT !.at = "building", !.table = db.next]
      /\ db' = [db EXCEPT !.next = @ + 1] /\ UNCHANGED <<disk, writing, answered, left>>
  BY OpenWhen DEF MemTableFirst, TypeInv, Shape
<1>2. /\ bg' \in BgState /\ bg'.at = "building" /\ bg'.table = db.next
      /\ bg'.inputs = bg.inputs /\ bg'.output = bg.output
  BY <1>1, NumberTypes DEF BgState
<1>3. BgNumbers' /\ EditNumbers'
  <2>1. /\ db.next \notin Named(db) /\ db.next \notin Named(Current) /\ db.next < db.next + 1
        /\ bg.output < db.next => bg.output < db.next + 1 /\ bg.output # db.next
    BY <1>1, NumberTypes DEF TypeInv, Numbers, LiveNumbers, ManifestNumbers, Live, Below
  <2> QED
    BY <1>1, <1>2, <2>1, NextNumber
       DEF TypeInv, Numbers, BgNumbers, EditNumbers, Dumping, MergeEnds
<1>4. Shape'
  BY <1>1, <1>2, NextNumber DEF TypeInv, Shape, Within
<1> QED
  BY <1>1, <1>3, <1>4, NextNumber, WhileOpen DEF TypeInv

\* The numbers of the version and of the manifest, when neither changes.
LEMMA StillLive ==
  ASSUME TypeInv, db.status = "open", db'.status = "open",
         disk'.current = disk.current, disk'.manifests = disk.manifests,
         DOMAIN disk'.logs = DOMAIN disk.logs, Below(DOMAIN disk'.tables, db.next),
         DOMAIN disk.tables \subseteq DOMAIN disk'.tables,
         db'.next = db.next, db'.log = db.log, db'.logfile = db.logfile, db'.l0 = db.l0,
         db'.l1 = db.l1, db'.manifest = db.manifest, db.error => db'.error
  PROVE  /\ ManifestNumbers' /\ LiveNumbers' /\ Current' = Current /\ Named(db') = Named(db)
<1>1. Current' = Current /\ Named(db') = Named(db)
  BY DEF Current, Named
<1>2. ManifestNumbers'
  BY <1>1 DEF TypeInv, Numbers, ManifestNumbers
<1>3. LiveNumbers'
  BY <1>1 DEF TypeInv, Numbers, LiveNumbers, Live, Below
<1> QED
  BY <1>1, <1>2, <1>3

\* CompactMemTable returns: the merge that it interrupted goes on.
LEMMA CompactMemTableEndsTypes ==
  ASSUME TypeInv, db.status = "open", NEW d, CompactMemTableEnds(d),
         bg.inputs # {} =>
           /\ bg.inputs \subseteq Named(db') /\ bg.output < db'.next
           /\ bg.output \notin Named(db') /\ bg.output \notin Named(Current')
           /\ bg.output \in DOMAIN disk.tables => bg.output \in DOMAIN disk'.tables
  PROVE  bg' \in BgState /\ writing' \in WriterState /\ BgNumbers' /\ EditNumbers'
<1>1. bg \in BgState /\ writing \in WriterState
  BY DEF TypeInv, Shape
<1>2. CASE bg.inputs = {}
  BY <1>1, <1>2, BackgroundCallEndsTypes DEF CompactMemTableEnds
<1>3. CASE bg.inputs # {}
  <2>1. bg' = ResumeMerge /\ writing' = [writing EXCEPT !.waits = FALSE]
    BY <1>3 DEF CompactMemTableEnds
  <2>2. PICK at \in {"merged", "merging"} :
          /\ bg' = [bg EXCEPT !.at = at]
          /\ at = "merged" => bg.output \in DOMAIN disk.tables
    BY <2>1 DEF ResumeMerge
  <2>3. bg' \in BgState /\ bg'.at = at /\ bg'.inputs = bg.inputs /\ bg'.output = bg.output
    BY <1>1, <2>2 DEF BgState
  <2>4. writing' \in WriterState
    BY <1>1, <2>1 DEF WriterState
  <2> QED
    BY <1>3, <2>2, <2>3, <2>4 DEF BgNumbers, EditNumbers, Dumping, MergeEnds
<1> QED
  BY <1>2, <1>3

\* An operation of an open database that leaves the contents of the logs alone.
LEMMA ShapeWhileOpen ==
  ASSUME Shape, disk' \in Disk, disk'.logs = disk.logs, db' \in Db, bg' \in BgState,
         writing' \in WriterState, answered' = answered, Within'
  PROVE  Shape'
BY DEF Shape

\* BuildTable writes to a number that nothing names.
LEMMA BuildTableTypes ==
  ASSUME TypeInv, BuildTable
  PROVE  /\ TypeInv' /\ bg'.at = "logging" /\ bg'.table = bg.table
         /\ bg'.inputs = bg.inputs /\ bg'.output = bg.output
         /\ Named(bg'.edit) = {bg.table} /\ bg'.edit.last = db.last
<1>1. /\ db.status = "open" /\ bg.at = "building" /\ UNCHANGED <<db, writing, answered, left>>
      /\ disk' = [disk EXCEPT !.tables = With(@, bg.table, db.imm)]
      /\ db \in Db /\ bg \in BgState /\ disk \in Disk /\ Shape
  BY OpenWhen DEF BuildTable, TypeInv, Shape
<1>2. db.imm \in SUBSET Entry /\ bg.table \in Nat
  BY <1>1 DEF Db, BgState
<1>3. /\ disk' \in Disk /\ disk'.logs = disk.logs
      /\ disk'.manifests = disk.manifests /\ disk'.current = disk.current
      /\ DOMAIN disk'.tables = DOMAIN disk.tables \cup {bg.table}
  BY <1>1, <1>2, AddTable
<1>4. PICK level \in Levels : bg' = [bg EXCEPT !.at = "logging", !.edit = MemTableEdit(level)]
  BY Zenon DEF BuildTable
<1> DEFINE edit == MemTableEdit(level)
<1>5. /\ edit \in Edit /\ edit.inputs = {} /\ Named(edit) = {bg.table} /\ edit.log = db.logfile
      /\ edit.next = db.next /\ edit.last = db.last
  <2> DEFINE l0 == IF level = 0 THEN {bg.table} ELSE {}
             l1 == IF level = 0 THEN {} ELSE {bg.table}
  <2>1. l0 \in SUBSET Nat /\ l1 \in SUBSET Nat /\ l0 \cup l1 = {bg.table} /\ {} \in SUBSET Nat
    BY <1>2
  <2>2. edit = Completed({}, l0, l1, db.logfile)
    BY DEF MemTableEdit, LogInUse
  <2> HIDE DEF l0, l1, edit
  <2>3. /\ edit \in Edit /\ edit.inputs = {} /\ edit.l0 = l0 /\ edit.l1 = l1
        /\ edit.log = db.logfile /\ edit.next = db.next /\ edit.last = db.last
    BY <1>1, <2>1, <2>2, CompletedIs, NumberTypes
  <2> QED
    BY <2>1, <2>3 DEF Named
<1> HIDE DEF edit
<1>6. /\ bg' \in BgState /\ bg'.at = "logging" /\ bg'.edit = edit /\ bg'.table = bg.table
      /\ bg'.inputs = bg.inputs /\ bg'.output = bg.output
  BY <1>1, <1>4, <1>5 DEF BgState, edit
<1>7. BgNumbers /\ Dumping /\ LiveNumbers /\ Live /\ ManifestNumbers
  BY <1>1 DEF TypeInv, Numbers, Dumping, Live
<1>8. bg.table < db.next
  BY <1>7 DEF BgNumbers
<1>9. ManifestNumbers' /\ LiveNumbers' /\ Current' = Current /\ Named(db') = Named(db)
  <2>1. Below(DOMAIN disk'.tables, db.next)
    BY <1>1, <1>3, <1>7, <1>8 DEF LiveNumbers, Below
  <2> QED
    BY <1>1, <1>3, <2>1, StillLive
<1>10. BgNumbers'
  BY <1>1, <1>6, <1>7, <1>9 DEF BgNumbers, Dumping
<1>11. EditNumbers'
  <2>1. Current.next <= db.next /\ db.logfile < db.next
    BY <1>7 DEF LiveNumbers
  <2>2. db.next <= db.next
    BY NumberTypes
  <2> QED
    BY <1>1, <1>3, <1>5, <1>6, <1>8, <1>9, <2>1, <2>2 DEF EditNumbers, MergeEnds, Below
<1>12. Shape'
  BY <1>1, <1>3, <1>6, ShapeWhileOpen DEF Shape, Within
<1>13. TypeInv'
  BY <1>1, <1>9, <1>10, <1>11, <1>12, WhileOpen DEF TypeInv
<1> QED
  BY <1>5, <1>6, <1>13

\* What became of the manifest: nothing that a reader would see yet, or the edit.
ManifestMoves(edit) ==
  /\ OnlyCurrent
  /\ \/ SameVersion /\ (disk' = disk \/ ~Current'.inStep)
     \/ Current' = Applied(Current, edit)

\* However an edit is written, whole, lost or not at all, the manifest has moved on
\* by no more than that edit.
LEMMA EditMovesManifest ==
  ASSUME TypeInv, Live, NEW edit \in Edit, Named(edit) \subseteq DOMAIN disk.tables,
         LogEdit(edit) \/ LogEditFails(edit)
  PROVE  /\ ManifestMoves(edit)
         /\ LogEditFails(edit) => Within'
         /\ LogEdit(edit) /\ ~db.error => Current' = Applied(Current, edit)
<1>1. /\ db.manifest = disk.current /\ disk.current \in DOMAIN disk.manifests /\ Shape
      /\ Current \in Manifest
  BY LiveFacts DEF TypeInv
<1>2. ASSUME disk' = disk PROVE ManifestMoves(edit)
  BY <1>1, <1>2 DEF ManifestMoves, OnlyCurrent, SameVersion, Shape, Current, Named
<1>3. ASSUME LogEdit(edit) PROVE ManifestMoves(edit)
  BY <1>1, <1>3, LogEditDoes DEF ManifestMoves
<1>4. ASSUME EditAppendFails PROVE ManifestMoves(edit)
  BY <1>1, <1>4, EditAppendFailsDoes DEF ManifestMoves
<1>5. ManifestMoves(edit)
  BY <1>2, <1>3, <1>4 DEF LogEditFails
<1>6. LogEditFails(edit) => Within'
  BY LeftTypes DEF LogEditFails, TypeInv, Shape
<1>7. LogEdit(edit) /\ ~db.error => Current' = Applied(Current, edit)
  BY <1>1, LogEditDoes DEF TypeInv, Numbers, LiveNumbers
<1> QED
  BY <1>5, <1>6, <1>7

\* The numbers after it.
LEMMA EditStepNumbers ==
  ASSUME TypeInv, bg.at \in {"logging", "mergeLogging"}, ManifestMoves(bg.edit),
         db'.status = "open",
         db'.next = db.next, db'.log = db.log, db'.logfile = db.logfile, db'.l0 = db.l0,
         db'.l1 = db.l1, db'.manifest = db.manifest,
         ~db'.error => ~db.error /\ Current' = Applied(Current, bg.edit)
  PROVE  /\ ManifestNumbers' /\ LiveNumbers' /\ Named(db') = Named(db)
         /\ Named(Current') \subseteq Named(Current) \cup Named(bg.edit)
<1>1. Live /\ db.status = "open"
  BY OpenWhen DEF TypeInv
<1>2. ManifestNumbers /\ LiveNumbers /\ EditNumbers
  BY DEF TypeInv, Numbers
<1>3. /\ Current.next <= bg.edit.next /\ bg.edit.log < bg.edit.next /\ bg.edit.next <= db.next
      /\ Below(Named(bg.edit), bg.edit.next) /\ bg.edit.log \in {db.log, db.logfile}
  BY <1>2 DEF EditNumbers, MergeEnds
<1>4. /\ Named(Current') \subseteq Named(Current) \cup Named(bg.edit)
      /\ \/ /\ Named(Current') = Named(Current) /\ Current'.log = Current.log
            /\ Current'.next = Current.next
         \/ Current'.log = bg.edit.log /\ Current'.next = bg.edit.next
      /\ ~db'.error => /\ ~db.error /\ Current'.log = bg.edit.log
                       /\ Current'.inStep = Current.inStep
  BY NumberTypes, AppliedIs DEF ManifestMoves, OnlyCurrent, SameVersion
<1>5. Named(db') = Named(db) /\ disk'.current = disk.current
  BY DEF Named, ManifestMoves, OnlyCurrent
<1>6. ManifestNumbers'
  <2>1. disk.current \in Nat /\ \A n \in Named(Current) \cup Named(bg.edit) : n \in Nat
    BY <1>2, NumberTypes DEF ManifestNumbers
  <2>2. disk'.current < Current'.next /\ Current'.log < Current'.next
    BY <1>2, <1>3, <1>4, <1>5, <2>1, NumberTypes DEF ManifestNumbers
  <2>3. Below(Named(Current'), Current'.next)
    BY <1>2, <1>3, <1>4, <2>1, NumberTypes DEF ManifestNumbers, Below
  <2> QED
    BY <1>2, <1>5, <2>2, <2>3 DEF ManifestNumbers, ManifestMoves, OnlyCurrent
<1>7. LiveNumbers'
  <2>1. Current'.log <= db.logfile /\ Current'.next <= db.next
    BY <1>1, <1>2, <1>3, <1>4, NumberTypes DEF LiveNumbers
  <2>2. ~db'.error => Current'.inStep /\ db.log <= Current'.log
    BY <1>1, <1>2, <1>3, <1>4, NumberTypes DEF LiveNumbers
  <2> QED
    BY <1>1, <1>2, <1>5, <2>1, <2>2 DEF LiveNumbers, Live, ManifestMoves, OnlyCurrent
<1> QED
  BY <1>4, <1>5, <1>6, <1>7

\* LogAndApply at the end of CompactMemTable.
LEMMA LogMemTableTypes ==
  ASSUME TypeInv, LogMemTable
  PROVE  TypeInv'
<1>1. /\ db.status = "open" /\ Live /\ bg.at = "logging" /\ LogEdit(bg.edit)
      /\ bg' = [bg EXCEPT !.at = "installing"]
      /\ UNCHANGED <<db, writing, answered, left>> /\ bg \in BgState /\ Shape
  BY OpenWhen DEF LogMemTable, TypeInv, Shape
<1>2. /\ ManifestMoves(bg.edit)
      /\ ~db.error => Current' = Applied(Current, bg.edit)
  <2>1. Named(bg.edit) \subseteq DOMAIN disk.tables
    BY <1>1 DEF TypeInv, Numbers, EditNumbers
  <2> QED
    BY <1>1, <2>1, NumberTypes, EditMovesManifest
<1>3. /\ bg' \in BgState /\ bg'.at = "installing" /\ bg'.edit = bg.edit /\ bg'.table = bg.table
      /\ bg'.inputs = bg.inputs /\ bg'.output = bg.output
  BY <1>1 DEF BgState
<1>4. /\ ManifestNumbers' /\ LiveNumbers' /\ Named(db') = Named(db)
      /\ Named(Current') \subseteq Named(Current) \cup Named(bg.edit)
  BY <1>1, <1>2, EditStepNumbers
<1>5. BgNumbers /\ EditNumbers /\ Named(bg.edit) = {bg.table} /\ bg.edit.log = db.logfile
  BY <1>1 DEF TypeInv, Numbers, EditNumbers
<1>6. BgNumbers'
  BY <1>1, <1>3, <1>4, <1>5 DEF BgNumbers, Dumping
<1>7. EditNumbers'
  <2>1. ~db.error => Current'.log = db.logfile
    BY <1>2, <1>5, NumberTypes, AppliedIs
  <2>2. disk'.tables = disk.tables
    BY <1>2 DEF ManifestMoves, OnlyCurrent
  <2> QED
    BY <1>1, <1>3, <1>5, <2>1, <2>2 DEF EditNumbers, MergeEnds
<1>8. Shape'
  BY <1>1, <1>2, <1>3, LeftTypes, ShapeWhileOpen DEF ManifestMoves, OnlyCurrent, Shape
<1> QED
  BY <1>1, <1>4, <1>6, <1>7, <1>8, WhileOpen DEF TypeInv

\* The file of the table or the manifest fails; the merge goes on.
LEMMA MemTableFailsTypes ==
  ASSUME TypeInv, BuildTableFails \/ LogMemTableFails
  PROVE  TypeInv'
<1>1. /\ db.status = "open" /\ Live /\ Dumping /\ MemTableFails
      /\ UNCHANGED answered /\ bg \in BgState /\ Shape /\ db \in Db
  BY OpenWhen DEF BuildTableFails, LogMemTableFails, Dumping, TypeInv, Shape
<1>2. db' = RecordBackgroundError(db) /\ CompactMemTableEnds(db')
  BY <1>1 DEF MemTableFails
<1>3. /\ db' \in Db /\ db'.status = "open" /\ db'.next = db.next /\ db'.log = db.log
      /\ db'.logfile = db.logfile /\ db'.l0 = db.l0 /\ db'.l1 = db.l1
      /\ db'.manifest = db.manifest /\ db'.error
  BY <1>1, <1>2, ErrorRecorded
<1>4. BgNumbers /\ EditNumbers
  BY DEF TypeInv, Numbers
<1>5. /\ disk' \in Disk /\ disk'.logs = disk.logs /\ Within'
      /\ ManifestNumbers' /\ LiveNumbers' /\ Named(db') = Named(db)
      /\ Named(Current') \subseteq Named(Current) \cup {bg.table} /\ disk'.tables = disk.tables
  <2>1. CASE BuildTableFails
    <3>1. disk' = disk /\ MayFail /\ left' = OneError
      BY <2>1 DEF BuildTableFails
    <3>2. Below(DOMAIN disk.tables, db.next)
      BY <1>1 DEF TypeInv, Numbers, LiveNumbers
    <3> QED
      BY <1>1, <1>3, <3>1, <3>2, StillLive, LeftTypes DEF Shape
  <2>2. CASE LogMemTableFails
    <3>1. /\ bg.at = "logging" /\ LogEditFails(bg.edit) /\ Named(bg.edit) = {bg.table}
          /\ Named(bg.edit) \subseteq DOMAIN disk.tables
      BY <1>4, <2>2 DEF LogMemTableFails, EditNumbers
    <3>2. ManifestMoves(bg.edit) /\ Within'
      BY <1>1, <3>1, NumberTypes, EditMovesManifest
    <3> QED
      BY <1>3, <3>1, <3>2, EditStepNumbers DEF ManifestMoves, OnlyCurrent
  <2> QED
    BY <2>1, <2>2
<1>6. bg' \in BgState /\ writing' \in WriterState /\ BgNumbers' /\ EditNumbers'
  <2>1. bg.inputs # {} =>
          /\ bg.inputs \subseteq Named(db') /\ bg.output < db'.next
          /\ bg.output \notin Named(db') /\ bg.output \notin Named(Current')
    BY <1>1, <1>3, <1>4, <1>5 DEF BgNumbers, Dumping
  <2> QED
    BY <1>1, <1>2, <1>5, <2>1, CompactMemTableEndsTypes
<1> QED
  BY <1>1, <1>3, <1>5, <1>6, ShapeWhileOpen, WhileOpen DEF TypeInv

\* Obsolete files of an open database are deleted: the files in use stay.
LEMMA DeletedNumbers ==
  ASSUME TypeInv, Live, Shape', disk' = DeleteObsoleteFiles(db'),
         db'.status \in {"installing", "open"}, db'.next = db.next, db'.logfile = db.logfile,
         db'.manifest = db.manifest, db'.error = db.error, db'.log <= db.logfile,
         ~db.error => db'.log <= Current.log, Below(Named(db'), db.next),
         Named(db') \subseteq DOMAIN disk.tables,
         db.status = "open" \/ (db'.status = "open" => Below(DOMAIN disk'.tables, db.next))
  PROVE  ManifestNumbers' /\ LiveNumbers' /\ Current' = Current
<1>1. LiveNumbers /\ ManifestNumbers /\ db'.log \in Nat
  BY DEF TypeInv, Numbers, Shape, Db
<1>2. /\ disk'.current = disk.current
      /\ DOMAIN disk'.logs = {n \in DOMAIN disk.logs : DeletesFiles(db') => n >= db'.log}
      /\ DOMAIN disk'.tables \subseteq DOMAIN disk.tables
      /\ Named(db') \subseteq DOMAIN disk'.tables
      /\ DOMAIN disk'.manifests =
           {n \in DOMAIN disk.manifests : DeletesFiles(db') => n >= db'.manifest}
      /\ \A n \in DOMAIN disk'.manifests : disk'.manifests[n] = disk.manifests[n]
  BY DeleteDoes DEF TypeInv
<1>3. db.manifest = disk.current /\ disk.current \in DOMAIN disk.manifests
  BY LiveFacts
<1>4. disk.current \in DOMAIN disk'.manifests
  BY <1>2, <1>3, NumberTypes
<1>5. Current' = Current
  BY <1>2, <1>4 DEF Current
<1>6. ManifestNumbers'
  BY <1>1, <1>2, <1>4, <1>5 DEF ManifestNumbers
<1>7. LiveNumbers'
  <2>1. db.logfile \in DOMAIN disk'.logs /\ \A n \in DOMAIN disk'.logs : n <= db.logfile
    BY <1>1, <1>2, NumberTypes DEF LiveNumbers
  <2>2. db'.status = "open" => Below(DOMAIN disk'.tables, db.next)
    BY <1>1, <1>2 DEF LiveNumbers, Below
  <2> QED
    BY <1>1, <1>2, <1>3, <1>5, <2>1, <2>2 DEF LiveNumbers
<1> QED
  BY <1>5, <1>6, <1>7

\* RemoveObsoleteFiles leaves files of the same kinds.
LEMMA DeletedShape ==
  ASSUME Shape, disk' = DeleteObsoleteFiles(db'), db' \in Db, bg' \in BgState,
         writing' \in WriterState, answered' = answered, left' = left
  PROVE  Shape'
<1>1. /\ disk' \in Disk /\ DOMAIN disk'.logs \subseteq DOMAIN disk.logs
      /\ \A n \in DOMAIN disk'.logs : disk'.logs[n] = disk.logs[n]
  BY DeleteDoes
<1> QED
  BY <1>1 DEF Shape, Within

\* The version with the memtable's table is installed.
LEMMA InstallMemTableTypes ==
  ASSUME TypeInv, InstallMemTable
  PROVE  /\ TypeInv' /\ Current' = Current
         /\ Named(db') = Named(db) \cup {bg.table} /\ db'.log = db.logfile
         /\ db'.status = "open" /\ db'.logfile = db.logfile /\ db'.mem = db.mem
         /\ db'.imm = {} /\ ~db'.hasImm /\ db'.last = db.last /\ db'.error = db.error
<1>1. /\ db.status = "open" /\ Live /\ bg.at = "installing" /\ Dumping
      /\ db' = [Installed(db, bg.edit) EXCEPT !.imm = {}, !.hasImm = FALSE]
      /\ disk' = DeleteObsoleteFiles(db') /\ CompactMemTableEnds(db')
      /\ UNCHANGED <<answered, left>> /\ bg \in BgState /\ Shape /\ db \in Db
  BY OpenWhen DEF InstallMemTable, TypeInv, Shape, Dumping
<1>2. BgNumbers /\ EditNumbers /\ LiveNumbers /\ ManifestNumbers
  BY DEF TypeInv, Numbers
<1>3. /\ bg.edit.inputs = {} /\ Named(bg.edit) = {bg.table} /\ bg.edit.log = db.logfile
      /\ (~db.error => Current.log = db.logfile) /\ bg.table < db.next
  BY <1>1, <1>2 DEF BgNumbers, EditNumbers
<1> DEFINE d == Installed(db, bg.edit)
<1>4. /\ d \in Db /\ Named(d) = Named(db) \cup {bg.table} /\ d.log = db.logfile
      /\ d.status = "open" /\ d.next = db.next /\ d.logfile = db.logfile
      /\ d.manifest = db.manifest /\ d.mem = db.mem /\ d.last = db.last /\ d.error = db.error
  BY <1>1, <1>3, NumberTypes, InstalledIs
<1>5. db' = [d EXCEPT !.imm = {}, !.hasImm = FALSE]
  BY <1>1
<1> HIDE DEF d
<1>6. /\ db' \in Db /\ Named(db') = Named(db) \cup {bg.table} /\ db'.log = db.logfile
      /\ db'.status = "open" /\ db'.next = db.next /\ db'.logfile = db.logfile
      /\ db'.manifest = db.manifest /\ db'.mem = db.mem /\ db'.imm = {} /\ ~db'.hasImm
      /\ db'.last = db.last /\ db'.error = db.error
  <2>1. {} \in SUBSET Entry
    OBVIOUS
  <2>2. /\ db' \in Db /\ db'.log = d.log /\ db'.l0 = d.l0 /\ db'.l1 = d.l1
        /\ db'.status = d.status /\ db'.next = d.next /\ db'.logfile = d.logfile
        /\ db'.manifest = d.manifest /\ db'.mem = d.mem /\ db'.imm = {} /\ db'.hasImm = FALSE
        /\ db'.last = d.last /\ db'.error = d.error
    BY <1>4, <1>5, <2>1 DEF Db
  <2> QED
    BY <1>4, <2>2 DEF Named
<1>7. Current' = Current
  <2>1. /\ disk'.current = disk.current /\ disk.current \in DOMAIN disk'.manifests
        /\ \A n \in DOMAIN disk'.manifests : disk'.manifests[n] = disk.manifests[n]
    <3>1. /\ disk'.current = disk.current
          /\ DOMAIN disk'.manifests =
               {n \in DOMAIN disk.manifests : DeletesFiles(db') => n >= db'.manifest}
          /\ \A n \in DOMAIN disk'.manifests : disk'.manifests[n] = disk.manifests[n]
      <4>1. Shape /\ disk' = DeleteObsoleteFiles(db')
        BY <1>1
      <4> QED
        BY <4>1, DeleteDoes
    <3>2. db'.manifest = disk.current /\ disk.current \in DOMAIN disk.manifests
      BY <1>1, <1>6, LiveFacts
    <3>3. disk.current \in Nat
      BY <3>2, NumberTypes
    <3>4. disk.current >= db'.manifest
      BY <3>2, <3>3
    <3> QED
      BY <3>1, <3>2, <3>4
  <2> QED
    BY <2>1 DEF Current
<1>8. bg' \in BgState /\ writing' \in WriterState /\ BgNumbers' /\ EditNumbers'
  <2>1. bg.inputs # {} /\ bg.output \in DOMAIN disk.tables => bg.output \in DOMAIN disk'.tables
    BY <1>1, DeleteDoes DEF PendingOutputs
  <2>2. bg.inputs # {} =>
          /\ bg.inputs \subseteq Named(db') /\ bg.output < db'.next
          /\ bg.output \notin Named(db') /\ bg.output \notin Named(Current')
    BY <1>1, <1>2, <1>6, <1>7 DEF BgNumbers
  <2> QED
    BY <1>1, <2>1, <2>2, CompactMemTableEndsTypes
<1>9. Shape'
  BY <1>1, <1>6, <1>8, DeletedShape
<1>10. ManifestNumbers' /\ LiveNumbers'
  <2>1. Below(Named(db'), db.next)
    BY <1>1, <1>2, <1>3, <1>6 DEF LiveNumbers, Below
  <2>2. db'.log <= db.logfile /\ (~db.error => db'.log <= Current.log)
    BY <1>3, <1>6, NumberTypes
  <2>3. Named(db') \subseteq DOMAIN disk.tables
    BY <1>1, <1>2, <1>6 DEF LiveNumbers, EditNumbers
  <2> QED
    BY <1>1, <1>6, <1>9, <2>1, <2>2, <2>3, DeletedNumbers
<1>11. TypeInv'
  BY <1>6, <1>8, <1>9, <1>10, WhileOpen DEF TypeInv
<1> QED
  BY <1>6, <1>7, <1>11

\* Tables hold entries.
LEMMA TableEntriesType ==
  ASSUME disk \in Disk, NEW S, S \subseteq DOMAIN disk.tables
  PROVE  TableEntries(S) \in SUBSET Entry
<1>1. disk.tables \in Files(SUBSET Entry)
  BY DEF Disk
<1>2. \A n \in S : disk.tables[n] \in SUBSET Entry
  BY <1>1, FileOf
<1> QED
  BY <1>2 DEF TableEntries

\* DoCompactionWork writes to a number that nothing names.
LEMMA MergeTablesTypes ==
  ASSUME TypeInv, MergeTables
  PROVE  TypeInv'
<1>1. /\ db.status = "open" /\ Live /\ bg.at = "merging"
      /\ UNCHANGED <<db, writing, answered, left>>
      /\ disk' = [disk EXCEPT !.tables = With(@, bg.output, TableEntries(bg.inputs))]
      /\ bg' = [bg EXCEPT !.at = "merged"]
      /\ db \in Db /\ bg \in BgState /\ disk \in Disk /\ Shape
  BY OpenWhen DEF MergeTables, TypeInv, Shape
<1>2. BgNumbers /\ LiveNumbers /\ bg.inputs # {} /\ bg.output < db.next
  BY <1>1 DEF TypeInv, Numbers, BgNumbers
<1>3. /\ disk' \in Disk /\ disk'.logs = disk.logs
      /\ disk'.manifests = disk.manifests /\ disk'.current = disk.current
      /\ DOMAIN disk'.tables = DOMAIN disk.tables \cup {bg.output}
  <2>1. TableEntries(bg.inputs) \in SUBSET Entry
    <3>1. bg.inputs \subseteq DOMAIN disk.tables
      BY <1>1, <1>2 DEF BgNumbers, LiveNumbers
    <3> QED
      BY <1>1, <3>1, TableEntriesType
  <2> QED
    BY <1>1, <2>1, AddTable, NumberTypes
<1>4. ManifestNumbers' /\ LiveNumbers' /\ Current' = Current /\ Named(db') = Named(db)
  <2>1. Below(DOMAIN disk'.tables, db.next)
    BY <1>1, <1>2, <1>3 DEF LiveNumbers, Below
  <2> QED
    BY <1>1, <1>3, <2>1, StillLive
<1>5. /\ bg' \in BgState /\ bg'.at = "merged" /\ bg'.inputs = bg.inputs
      /\ bg'.output = bg.output
  BY <1>1 DEF BgState
<1>6. BgNumbers' /\ EditNumbers'
  BY <1>1, <1>2, <1>3, <1>4, <1>5 DEF BgNumbers, EditNumbers, Dumping, MergeEnds
<1>7. Shape'
  BY <1>1, <1>3, <1>5, ShapeWhileOpen DEF Shape, Within
<1> QED
  BY <1>1, <1>4, <1>6, <1>7, WhileOpen DEF TypeInv

\* DoCompactionWork goes on to InstallCompactionResults.
LEMMA MergeDoneTypes ==
  ASSUME TypeInv, MergeDone
  PROVE  /\ TypeInv' /\ bg'.at = "mergeLogging"
         /\ bg'.inputs = bg.inputs /\ bg'.output = bg.output
         /\ Named(bg'.edit) = {bg.output} /\ bg'.edit.last = db.last
<1>1. /\ db.status = "open" /\ Live /\ bg.at = "merged"
      /\ bg' = [bg EXCEPT !.at = "mergeLogging", !.edit = MergeEdit]
      /\ UNCHANGED <<disk, db, writing, answered, left>> /\ bg \in BgState /\ Shape
  BY OpenWhen DEF MergeDone, TypeInv, Shape
<1>2. BgNumbers /\ LiveNumbers /\ ManifestNumbers /\ bg.inputs # {} /\ bg.output < db.next
  BY <1>1 DEF TypeInv, Numbers, BgNumbers
<1> DEFINE edit == MergeEdit
<1>3. /\ edit \in Edit /\ edit.inputs = bg.inputs /\ Named(edit) = {bg.output}
      /\ edit.log = db.log /\ edit.next = db.next /\ edit.last = db.last
  <2> DEFINE output == {bg.output}
  <2>1. edit = Completed(bg.inputs, {}, output, db.log) /\ output \in SUBSET Nat
    BY NumberTypes DEF MergeEdit
  <2> HIDE DEF edit, output
  <2>2. /\ edit \in Edit /\ edit.inputs = bg.inputs /\ edit.l0 = {} /\ edit.l1 = output
        /\ edit.log = db.log /\ edit.next = db.next /\ edit.last = db.last
    BY <1>1, <2>1, NumberTypes, CompletedIs
  <2> QED
    BY <2>2 DEF Named, output
<1> HIDE DEF edit
<1>4. /\ bg' \in BgState /\ bg'.at = "mergeLogging" /\ bg'.edit = edit
      /\ bg'.inputs = bg.inputs /\ bg'.output = bg.output
  BY <1>1, <1>3 DEF BgState, edit
<1>5. ManifestNumbers' /\ LiveNumbers' /\ Current' = Current /\ Named(db') = Named(db)
  BY <1>1, <1>2, StillLive DEF LiveNumbers
<1>6. BgNumbers'
  BY <1>1, <1>2, <1>4, <1>5 DEF BgNumbers, Dumping
<1>7. EditNumbers'
  <2>1. Current.next <= db.next /\ db.log < db.next /\ db.next <= db.next
    BY <1>1, <1>2, NumberTypes DEF LiveNumbers
  <2>2. bg.output \in DOMAIN disk'.tables
    BY <1>1 DEF TypeInv, Numbers, EditNumbers
  <2> QED
    BY <1>1, <1>2, <1>3, <1>4, <1>5, <2>1, <2>2 DEF EditNumbers, MergeEnds, Below
<1>8. Shape'
  BY <1>1, <1>4 DEF Shape, Within
<1>9. TypeInv'
  BY <1>1, <1>5, <1>6, <1>7, <1>8, WhileOpen DEF TypeInv
<1> QED
  BY <1>3, <1>4, <1>9

\* LogAndApply at the end of a merge.
LEMMA LogMergeTypes ==
  ASSUME TypeInv, LogMerge
  PROVE  TypeInv'
<1>1. /\ db.status = "open" /\ Live /\ bg.at = "mergeLogging" /\ LogEdit(bg.edit)
      /\ bg' = [bg EXCEPT !.at = "mergeInstalling"]
      /\ UNCHANGED <<db, writing, answered, left>> /\ bg \in BgState /\ Shape
  BY OpenWhen DEF LogMerge, TypeInv, Shape
<1>2. /\ ManifestMoves(bg.edit)
      /\ ~db.error => Current' = Applied(Current, bg.edit)
  <2>1. Named(bg.edit) \subseteq DOMAIN disk.tables
    BY <1>1 DEF TypeInv, Numbers, EditNumbers, MergeEnds
  <2> QED
    BY <1>1, <2>1, NumberTypes, EditMovesManifest
<1>3. /\ bg' \in BgState /\ bg'.at = "mergeInstalling" /\ bg'.edit = bg.edit
      /\ bg'.inputs = bg.inputs /\ bg'.output = bg.output
  BY <1>1 DEF BgState
<1>4. ManifestNumbers' /\ LiveNumbers' /\ Named(db') = Named(db)
  BY <1>1, <1>2, EditStepNumbers
<1>5. BgNumbers /\ EditNumbers
  BY DEF TypeInv, Numbers
<1>6. BgNumbers' /\ EditNumbers'
  <2>1. disk'.tables = disk.tables
    BY <1>2 DEF ManifestMoves, OnlyCurrent
  <2> QED
    BY <1>1, <1>3, <1>4, <1>5, <2>1 DEF BgNumbers, EditNumbers, Dumping, MergeEnds
<1>7. Shape'
  BY <1>1, <1>2, <1>3, LeftTypes, ShapeWhileOpen DEF ManifestMoves, OnlyCurrent, Shape
<1> QED
  BY <1>1, <1>4, <1>6, <1>7, WhileOpen DEF TypeInv

\* A merge that fails.
LEMMA MergeFailsTypes ==
  ASSUME TypeInv, MergeFails \/ LogMergeFails
  PROVE  TypeInv'
<1>1. /\ db.status = "open" /\ Live /\ MergeEndsBadly
      /\ Shape /\ db \in Db /\ writing \in WriterState
  BY OpenWhen DEF MergeFails, LogMergeFails, TypeInv, Shape
<1>2. /\ db' = RecordBackgroundError(db) /\ BackgroundCallEnds(db') /\ UNCHANGED answered
  BY <1>1 DEF MergeEndsBadly
<1>3. /\ db' \in Db /\ db'.status = "open" /\ db'.next = db.next /\ db'.log = db.log
      /\ db'.logfile = db.logfile /\ db'.l0 = db.l0 /\ db'.l1 = db.l1
      /\ db'.manifest = db.manifest /\ db'.error
  BY <1>1, <1>2, ErrorRecorded
<1>4. bg' \in BgState /\ writing' \in WriterState /\ BgNumbers' /\ EditNumbers'
  BY <1>1, <1>2, BackgroundCallEndsTypes
<1>5. /\ disk' \in Disk /\ disk'.logs = disk.logs /\ Within'
      /\ ManifestNumbers' /\ LiveNumbers'
  <2>1. CASE MergeFails
    <3>1. disk' = disk /\ MayFail /\ left' = OneError
      BY <2>1 DEF MergeFails
    <3>2. Below(DOMAIN disk.tables, db.next)
      BY <1>1 DEF TypeInv, Numbers, LiveNumbers
    <3> QED
      BY <1>1, <1>3, <3>1, <3>2, StillLive, LeftTypes DEF Shape
  <2>2. CASE LogMergeFails
    <3>1. /\ bg.at = "mergeLogging" /\ LogEditFails(bg.edit)
          /\ Named(bg.edit) \subseteq DOMAIN disk.tables
      BY <2>2 DEF LogMergeFails, TypeInv, Numbers, EditNumbers, MergeEnds
    <3>2. ManifestMoves(bg.edit) /\ Within'
      BY <1>1, <3>1, NumberTypes, EditMovesManifest
    <3> QED
      BY <1>3, <3>1, <3>2, EditStepNumbers DEF ManifestMoves, OnlyCurrent
  <2> QED
    BY <2>1, <2>2
<1> QED
  BY <1>2, <1>3, <1>4, <1>5, ShapeWhileOpen, WhileOpen DEF TypeInv

\* The version with the merged table is installed, its inputs become obsolete.
LEMMA InstallMergeTypes ==
  ASSUME TypeInv, InstallMerge
  PROVE  TypeInv'
<1>1. /\ db.status = "open" /\ Live /\ bg.at = "mergeInstalling" /\ db' = Installed(db, bg.edit)
      /\ disk' = DeleteObsoleteFiles(db') /\ BackgroundCallEnds(db')
      /\ UNCHANGED <<answered, left>> /\ writing \in WriterState /\ Shape /\ db \in Db
  BY OpenWhen DEF InstallMerge, TypeInv, Shape
<1>2. BgNumbers /\ EditNumbers /\ LiveNumbers
  BY DEF TypeInv, Numbers
<1>3. Named(bg.edit) = {bg.output} /\ bg.edit.log = db.log /\ bg.output < db.next
  BY <1>1, <1>2 DEF BgNumbers, EditNumbers, MergeEnds
<1>4. /\ db' \in Db /\ Named(db') = (Named(db) \ bg.edit.inputs) \cup Named(bg.edit)
      /\ db'.log = db.log /\ db'.status = "open" /\ db'.next = db.next
      /\ db'.logfile = db.logfile /\ db'.manifest = db.manifest /\ db'.error = db.error
  BY <1>1, <1>3, NumberTypes, InstalledIs
<1>5. bg' \in BgState /\ writing' \in WriterState /\ BgNumbers' /\ EditNumbers'
  BY <1>1, BackgroundCallEndsTypes
<1>6. Shape'
  BY <1>1, <1>4, <1>5, DeletedShape
<1>7. ManifestNumbers' /\ LiveNumbers'
  <2>1. Below(Named(db'), db.next)
    BY <1>1, <1>2, <1>3, <1>4 DEF LiveNumbers, Below
  <2>2. db'.log <= db.logfile /\ (~db.error => db'.log <= Current.log)
    BY <1>1, <1>2, <1>4 DEF LiveNumbers
  <2>3. Named(db') \subseteq DOMAIN disk.tables
    BY <1>1, <1>2, <1>3, <1>4 DEF LiveNumbers, EditNumbers
  <2> QED
    BY <1>1, <1>4, <1>6, <2>1, <2>2, <2>3, DeletedNumbers
<1> QED
  BY <1>4, <1>5, <1>6, <1>7, WhileOpen DEF TypeInv

\* The memory of a database that is not open, and of the process that has died.
LEMMA ClosedTypes ==
  /\ Closed \in Db /\ Closed.status = "down" /\ ~Closed.error /\ Named(Closed) = {}
  /\ NoWriting \in WriterState /\ NoBackground \in BgState
<1>1. <<>> \in Seq(Writes)
  OBVIOUS
<1>2. NoWriting \in WriterState
  BY <1>1 DEF NoWriting, WriterState
<1> QED
  BY <1>2 DEF Closed, Db, Statuses, NoBackground, NoEdit, BgState, Edit, Named

\* Until the database is open there are no writers and no thread.
LEMMA WhileClosed ==
  ASSUME db'.status # "open", ~db'.error, writing' = NoWriting, bg' = NoBackground,
         ManifestNumbers', ReplayNumbers', StartNumbers', LiveNumbers'
  PROVE  Numbers'
<1>1. BgNumbers' /\ EditNumbers'
  BY BgDone DEF NoBackground
<1> QED
  BY <1>1 DEF Numbers, Alone

\* What Alone says of a database that is not open.
LEMMA OpeningFacts ==
  ASSUME TypeInv, db.status # "open"
  PROVE  writing = NoWriting /\ bg = NoBackground /\ ~db.error
BY DEF TypeInv, Numbers, Alone

\* DB::Open: the manifest is read.
LEMMA RecoverTypes ==
  ASSUME TypeInv, Recover
  PROVE  TypeInv'
<1>1. /\ db.status = "down" /\ UNCHANGED <<disk, writing, bg, answered, left>>
      /\ Shape /\ ManifestNumbers /\ writing = NoWriting /\ bg = NoBackground
  BY OpeningFacts DEF Recover, TypeInv, Numbers
<1>2. Current' = Current /\ ManifestNumbers'
  BY <1>1 DEF ManifestNumbers, Current
<1>3. CASE db' = [Closed EXCEPT !.status = "corrupt"]
  <2>1. db' \in Db /\ db'.status = "corrupt" /\ ~db'.error
    BY <1>3 DEF Closed, Db, Statuses
  <2>2. ReplayNumbers' /\ StartNumbers' /\ LiveNumbers'
    BY <2>1 DEF ReplayNumbers, StartNumbers, LiveNumbers, Starting, Live
  <2> QED
    BY <1>1, <1>2, <2>1, <2>2, WhileClosed DEF TypeInv, Shape, Within
<1>4. CASE /\ Named(Current) \subseteq DOMAIN disk.tables
           /\ db' = [Closed EXCEPT !.status = "replaying", !.last = Current.last,
                   !.next = Current.next + 1, !.log = Current.log, !.l0 = Current.l0,
                   !.l1 = Current.l1, !.manifest = Current.next,
                   !.replay = LogsToReplay(Current)]
  <2> DEFINE next == Current.next + 1
             replay == LogsToReplay(Current)
  <2>1. next \in Nat /\ replay \in SUBSET Nat
    BY NumberTypes DEF LogsToReplay
  <2>2. /\ Current.last \in Nat /\ Current.next \in Nat /\ Current.log \in Nat
        /\ Current.l0 \in SUBSET Nat /\ Current.l1 \in SUBSET Nat
    BY NumberTypes DEF Manifest
  <2> HIDE DEF next, replay
  <2>3. db' = [Closed EXCEPT !.status = "replaying", !.last = Current.last,
                   !.next = next, !.log = Current.log, !.l0 = Current.l0,
                   !.l1 = Current.l1, !.manifest = Current.next, !.replay = replay]
    BY <1>4 DEF next, replay
  <2> DEFINE d == [status |-> "replaying", mem |-> {}, imm |-> {}, hasImm |-> FALSE,
                   last |-> Current.last, next |-> next, log |-> Current.log, logfile |-> 0,
                   l0 |-> Current.l0, l1 |-> Current.l1, manifest |-> Current.next,
                   error |-> FALSE, replay |-> replay]
  <2>4. db' \in Db
    <3>1. db' = d
      BY <2>3 DEF Closed
    <3>2. d \in Db
      BY <2>1, <2>2 DEF Db, Statuses
    <3> QED
      BY <3>1, <3>2
  <2>5. /\ db'.status = "replaying" /\ db'.next = next /\ db'.log = Current.log
        /\ db'.l0 = Current.l0 /\ db'.l1 = Current.l1 /\ db'.manifest = Current.next
        /\ db'.replay = replay /\ ~db'.error
    BY <2>3 DEF Closed
  <2>6. ReplayNumbers'
    BY <1>1, <1>2, <2>5 DEF ReplayNumbers, Below, LogsToReplay, replay
  <2>7. StartNumbers'
    <3>1. Named(db') = Named(Current) /\ Current.next < next
      BY <2>2, <2>5 DEF Named, next
    <3>2. \A n \in Nat : n < Current.next => n < next
      BY <2>2 DEF next
    <3>3. Below(Named(db'), next)
      BY <1>1, <3>1, <3>2, NumberTypes DEF ManifestNumbers, Below
    <3> QED
      BY <1>1, <1>2, <1>4, <2>5, <3>1, <3>3 DEF StartNumbers
  <2>8. LiveNumbers'
    BY <2>5 DEF LiveNumbers, Live
  <2> QED
    BY <1>1, <1>2, <2>4, <2>5, <2>6, <2>7, <2>8, WhileClosed DEF TypeInv, Shape, Within
<1>5. CASE Current.corrupt \/ ~(Named(Current) \subseteq DOMAIN disk.tables)
  <2>1. db' = [Closed EXCEPT !.status = "corrupt"]
    BY <1>5, Zenon DEF Recover, Current, Named
  <2> QED
    BY <1>3, <2>1
<1>6. CASE ~(Current.corrupt \/ ~(Named(Current) \subseteq DOMAIN disk.tables))
  <2>1. db' = [Closed EXCEPT !.status = "replaying", !.last = Current.last,
                   !.next = Current.next + 1, !.log = Current.log, !.l0 = Current.l0,
                   !.l1 = Current.l1, !.manifest = Current.next,
                   !.replay = LogsToReplay(Current)]
    BY <1>6, Zenon DEF Recover, Current, Named
  <2> QED
    BY <1>4, <1>6, <2>1
<1> QED
  BY <1>5, <1>6

\* What one more log leaves, of which these entries were read: a new table, unless
\* there are none, and numbers above it and above the log.
Replayed(n, entries) ==
  /\ n \in db.replay /\ n \in LogsToReplay(Current) /\ entries \subseteq Entry
  /\ disk' \in Disk /\ disk'.logs = disk.logs /\ disk'.manifests = disk.manifests
  /\ disk'.current = disk.current
  /\ DOMAIN disk.tables \subseteq DOMAIN disk'.tables
  /\ entries # {} => disk'.tables[db.next] = entries /\ db.next \in DOMAIN disk'.tables
  /\ entries = {} => disk'.tables = disk.tables
  /\ \A k \in DOMAIN disk.tables : k # db.next => disk'.tables[k] = disk.tables[k]
  /\ db' \in Db /\ db'.status = "replaying" /\ db'.log = db.log
  /\ db'.manifest = db.manifest /\ db'.mem = db.mem /\ db'.imm = db.imm
  /\ db'.hasImm = db.hasImm /\ db'.error = db.error
  /\ db'.replay = db.replay \ {n}
  /\ db'.last = LastSequence(entries)
  /\ db'.next = MarkFileNumberUsed(IF entries = {} THEN db.next ELSE db.next + 1, n)
  /\ Named(db') = Named(db) \cup (IF entries = {} THEN {} ELSE {db.next})
  /\ UNCHANGED <<writing, bg, answered>>

\* RecoverLogFile: what was read of a log becomes one table of a new number.
LEMMA ReplaysDoes ==
  ASSUME TypeInv, db.status = "replaying", NEW n \in db.replay, NEW log \in Log,
         NEW lost \in SUBSET Writes,
         disk' = [WithTable(LogEntries(log)) EXCEPT !.lost = lost],
         Replays(n, LogEntries(log)), UNCHANGED <<writing, bg, answered>>
  PROVE  Replayed(n, LogEntries(log)) /\ disk'.lost = lost
<1>1. /\ Shape /\ disk \in Disk /\ db \in Db
      /\ db.replay \subseteq LogsToReplay(Current)
  BY DEF TypeInv, Shape, Numbers, ReplayNumbers
<1> DEFINE entries == LogEntries(log)
           used == IF entries = {} THEN db.next ELSE db.next + 1
           l0 == IF entries = {} THEN db.l0 ELSE db.l0 \cup {db.next}
           last == LastSequence(entries)
           next == MarkFileNumberUsed(used, n)
           replay == db.replay \ {n}
           tables == IF entries = {} THEN disk.tables ELSE With(disk.tables, db.next, entries)
<1>3. n \in Nat /\ n \in LogsToReplay(Current)
  <2>1. n \in LogsToReplay(Current) /\ n \in DOMAIN disk.logs /\ disk.logs \in Files(Log)
    BY <1>1 DEF LogsToReplay, Disk
  <2> QED
    BY <2>1, FileOf
<1>4. entries \subseteq Entry
  BY LogEntriesType
<1>5. last \in Nat
  BY <1>1, LastSequenceIsLast
<1>6. used \in {db.next, db.next + 1} /\ next \in Nat /\ l0 \in SUBSET Nat
      /\ replay \in SUBSET Nat
  BY <1>1, <1>3, NumberTypes DEF MarkFileNumberUsed, Db
<1>7. db' = [db EXCEPT !.replay = replay, !.last = last, !.l0 = l0, !.next = next]
  BY DEF Replays
<1>8. l0 \cup db.l1 = Named(db) \cup (IF entries = {} THEN {} ELSE {db.next})
  BY DEF Named
<1>9. disk' = [disk EXCEPT !.tables = tables, !.lost = lost]
  <2>1. CASE entries = {}
    <3>1. tables = disk.tables /\ disk' = [disk EXCEPT !.lost = lost]
      BY <2>1 DEF WithTable
    <3> HIDE DEF tables
    <3> QED
      BY <1>1, <3>1 DEF Disk
  <2>2. CASE entries # {}
    <3>1. /\ tables = With(disk.tables, db.next, entries)
          /\ WithTable(entries) = [disk EXCEPT !.tables = tables]
      BY <2>2 DEF WithTable
    <3> HIDE DEF tables
    <3> QED
      BY <1>1, <3>1 DEF Disk
  <2> QED
    BY <2>1, <2>2
<1>10. /\ tables \in Files(SUBSET Entry) /\ DOMAIN disk.tables \subseteq DOMAIN tables
       /\ entries # {} => tables[db.next] = entries /\ db.next \in DOMAIN tables
       /\ \A k \in DOMAIN disk.tables : k # db.next => tables[k] = disk.tables[k]
       /\ entries = {} => tables = disk.tables
  <2>1. disk.tables \in Files(SUBSET Entry) /\ db.next \in Nat
    BY <1>1, NumberTypes DEF Disk
  <2>2. With(disk.tables, db.next, entries) \in Files(SUBSET Entry)
    BY <1>4, <2>1, WithFile
  <2>3. LET f == With(disk.tables, db.next, entries) IN
        /\ DOMAIN f = DOMAIN disk.tables \cup {db.next} /\ f[db.next] = entries
        /\ \A k \in DOMAIN disk.tables : k # db.next => f[k] = disk.tables[k]
    BY DEF With
  <2> HIDE DEF entries
  <2> QED
    BY <2>1, <2>2, <2>3
<1> HIDE DEF entries, last, next, l0, used, replay, tables
<1>11. /\ db' \in Db /\ db'.status = "replaying" /\ db'.log = db.log
       /\ db'.manifest = db.manifest /\ db'.mem = db.mem /\ db'.imm = db.imm
       /\ db'.hasImm = db.hasImm /\ db'.error = db.error
       /\ db'.replay = replay /\ db'.last = last /\ db'.next = next
       /\ db'.l0 = l0 /\ db'.l1 = db.l1
  BY <1>1, <1>5, <1>6, <1>7 DEF Db
<1>12. /\ disk' \in Disk /\ disk'.logs = disk.logs /\ disk'.manifests = disk.manifests
       /\ disk'.current = disk.current /\ disk'.tables = tables /\ disk'.lost = lost
  BY <1>1, <1>9, <1>10 DEF Disk
<1>13. Named(db') = Named(db) \cup (IF entries = {} THEN {} ELSE {db.next})
  BY <1>8, <1>11 DEF Named
<1> QED
  BY <1>3, <1>4, <1>10, <1>11, <1>12, <1>13 DEF Replayed, entries, last, next, replay, used

\* A log is replayed as far as it could be read: to its end, or not even that.
LEMMA ReplayLogDoes ==
  ASSUME TypeInv, ReplayLog \/ ReplayLogFails
  PROVE  /\ \E n \in db.replay : \E log \in Log :
              /\ Replayed(n, LogEntries(log))
              /\ ReplayLog => log = disk.logs[n] /\ disk'.lost = disk.lost
         /\ Within' /\ (ReplayLogFails => left'.damage < left.damage)
         /\ ReplayLog => left' = left
<1>1. /\ db.status = "replaying" /\ Shape /\ disk \in Disk /\ Within
      /\ db.replay \subseteq LogsToReplay(Current)
  BY DEF ReplayLog, ReplayLogFails, TypeInv, Shape, Numbers, ReplayNumbers
<1>2. ASSUME NEW n \in db.replay
      PROVE  n \in DOMAIN disk.logs /\ disk.logs[n] \in Log
  <2>1. n \in DOMAIN disk.logs /\ disk.logs \in Files(Log)
    BY <1>1 DEF LogsToReplay, Disk
  <2> QED
    BY <2>1, FileOf
<1>3. ASSUME ReplayLog
      PROVE  \E n \in db.replay : /\ Replayed(n, LogEntries(disk.logs[n]))
                                 /\ disk'.lost = disk.lost
  <2>1. PICK n \in db.replay : /\ disk' = WithTable(LogEntries(disk.logs[n]))
                               /\ Replays(n, LogEntries(disk.logs[n]))
    BY <1>3, Zenon DEF ReplayLog
  <2>2. WithTable(LogEntries(disk.logs[n])) =
          [WithTable(LogEntries(disk.logs[n])) EXCEPT !.lost = disk.lost]
    BY <1>1 DEF WithTable, Disk
  <2>3. disk.lost \in SUBSET Writes /\ disk.logs[n] \in Log
    BY <1>1, <1>2 DEF Disk
  <2>4. Replayed(n, LogEntries(disk.logs[n])) /\ disk'.lost = disk.lost
    BY <1>1, <1>3, <2>1, <2>2, <2>3, ReplaysDoes DEF ReplayLog
  <2> QED
    BY <2>4
<1>4. ASSUME ReplayLogFails
      PROVE  \E n \in db.replay : \E log \in Log : Replayed(n, LogEntries(log))
  <2>9. PICK n \in db.replay : \E read \in 0 .. Len(disk.logs[n].records) - 1 :
          LET log == disk.logs[n]
              entries == LogEntries([log EXCEPT !.records = SubSeq(@, 1, read)])
          IN  /\ disk' = [WithTable(entries) EXCEPT
                           !.lost = @ \cup {e.write : e \in LogEntries(log) \ entries}]
              /\ Replays(n, entries)
    BY <1>4, Zenon DEF ReplayLogFails
  <2>1. PICK read \in 0 .. Len(disk.logs[n].records) - 1 :
          LET log == disk.logs[n]
              entries == LogEntries([log EXCEPT !.records = SubSeq(@, 1, read)])
          IN  /\ disk' = [WithTable(entries) EXCEPT
                           !.lost = @ \cup {e.write : e \in LogEntries(log) \ entries}]
              /\ Replays(n, entries)
    BY <2>9, Zenon
  <2> DEFINE log == disk.logs[n]
             records == SubSeq(log.records, 1, read)
             part == [log EXCEPT !.records = records]
             entries == LogEntries(part)
             lost == disk.lost \cup {e.write : e \in LogEntries(log) \ entries}
  <2>2. log \in Log
    BY <1>2
  <2>3. part \in Log
    <3>1. log.records \in Seq(Record) /\ Len(log.records) \in Nat
      BY <2>2 DEF Log
    <3>2. records \in Seq(Record)
      BY <3>1
    <3> HIDE DEF log, records
    <3>3. part = [records |-> records, synced |-> log.synced, inStep |-> log.inStep]
      BY <2>2, LogWith
    <3> HIDE DEF part
    <3> QED
      BY <2>2, <3>2, <3>3 DEF Log
  <2>4. lost \in SUBSET Writes
    <3>1. LogEntries(log) \subseteq Entry
      BY <2>2, LogEntriesType
    <3> HIDE DEF log, entries
    <3> QED
      BY <1>1, <3>1 DEF Disk, Entry
  <2>5. disk' = [WithTable(entries) EXCEPT !.lost = lost]
    <3>1. disk' = [WithTable(entries) EXCEPT
                    !.lost = @ \cup {e.write : e \in LogEntries(log) \ entries}]
      BY <2>1
    <3>2. WithTable(entries).lost = disk.lost
      <4> HIDE DEF entries
      <4> QED
        BY <1>1 DEF WithTable, Disk
    <3> HIDE DEF entries, log
    <3> QED
      BY <3>1, <3>2
  <2>6. Replays(n, entries) /\ UNCHANGED <<writing, bg, answered>>
    <3>1. UNCHANGED <<writing, bg, answered>>
      BY <1>4 DEF ReplayLogFails
    <3> QED
      BY <2>1, <3>1
  <2> HIDE DEF part, lost
  <2>7. Replayed(n, LogEntries(part))
    BY <1>1, <2>3, <2>4, <2>5, <2>6, ReplaysDoes
  <2> QED
    BY <2>3, <2>7
<1>5. /\ Within' /\ (ReplayLogFails => left'.damage < left.damage)
      /\ ReplayLog => left' = left
  BY <1>1, LeftTypes DEF ReplayLog, ReplayLogFails, Within, Bounds
<1>6. ReplayLog => \E n \in db.replay : \E log \in Log :
        /\ Replayed(n, LogEntries(log))
        /\ ReplayLog => log = disk.logs[n] /\ disk'.lost = disk.lost
  BY <1>2, <1>3
<1>7. ReplayLogFails => ~ReplayLog
  BY <1>1, <1>5 DEF Within, Bounds
<1> QED
  BY <1>4, <1>5, <1>6, <1>7

\* DB::Open: a log is replayed.
LEMMA ReplayLogTypes ==
  ASSUME TypeInv, ReplayLog \/ ReplayLogFails
  PROVE  TypeInv'
<1>1. PICK n \in db.replay, log \in Log : Replayed(n, LogEntries(log))
  BY ReplayLogDoes
<1> DEFINE entries == LogEntries(log)
           used == IF entries = {} THEN db.next ELSE db.next + 1
<1>11. /\ n \in LogsToReplay(Current) /\ entries \subseteq Entry
       /\ disk' \in Disk /\ disk'.logs = disk.logs /\ disk'.manifests = disk.manifests
       /\ disk'.current = disk.current
       /\ DOMAIN disk.tables \subseteq DOMAIN disk'.tables
       /\ entries # {} => db.next \in DOMAIN disk'.tables
       /\ db' \in Db /\ db'.status = "replaying" /\ db'.log = db.log
       /\ db'.manifest = db.manifest /\ db'.error = db.error
       /\ db'.replay = db.replay \ {n}
       /\ db'.next = MarkFileNumberUsed(used, n)
       /\ Named(db') = Named(db) \cup (IF entries = {} THEN {} ELSE {db.next})
       /\ UNCHANGED <<writing, bg, answered>> /\ Within'
  BY <1>1, ReplayLogDoes DEF Replayed
<1> HIDE DEF entries
<1>2. /\ db.status = "replaying" /\ Shape /\ ManifestNumbers /\ ReplayNumbers /\ StartNumbers
      /\ writing = NoWriting /\ bg = NoBackground /\ ~db.error
  BY OpeningFacts DEF ReplayLog, ReplayLogFails, TypeInv, Numbers
<1>3. Current' = Current /\ ManifestNumbers'
  BY <1>11, <1>2 DEF ManifestNumbers, Current
<1>4. /\ n \in Nat /\ db.next <= used /\ used <= db'.next /\ n < db'.next /\ db'.next \in Nat
      /\ used \in Nat
  BY <1>11, NumberTypes DEF MarkFileNumberUsed, LogsToReplay
<1>5. \A k \in Nat : k < db.next => k < db'.next
  BY <1>4, NumberTypes
<1>6. ReplayNumbers'
  <2>1. db.log = Current.log /\ db.replay \subseteq LogsToReplay(Current)
        /\ Below(LogsToReplay(Current) \ db.replay, db.next)
    BY <1>2 DEF ReplayNumbers
  <2>2. LogsToReplay(Current)' = LogsToReplay(Current) /\ LogsToReplay(Current) \subseteq Nat
    BY <1>11, <1>3, NumberTypes DEF LogsToReplay
  <2>3. ASSUME NEW k \in LogsToReplay(Current) \ db'.replay PROVE k < db'.next
    BY <1>11, <1>4, <1>5, <2>1, <2>2 DEF Below
  <2> QED
    BY <1>11, <1>3, <2>1, <2>2, <2>3 DEF ReplayNumbers, Below
<1>7. StartNumbers'
  <2>1. /\ db.manifest = Current.next /\ Current.next < db.next
        /\ Below(Named(db), db.next) /\ Named(db) \subseteq DOMAIN disk.tables
    BY <1>2 DEF StartNumbers, Starting
  <2>2. Below(Named(db'), db'.next) /\ Named(db') \subseteq DOMAIN disk'.tables
    <3>1. CASE entries = {}
      BY <1>11, <1>5, <2>1, <3>1, NumberTypes DEF Below
    <3>2. CASE entries # {}
      <4>1. db.next < db'.next
        BY <1>11, <1>4, <3>2, NumberTypes
      <4> QED
        BY <1>11, <1>5, <2>1, <3>2, <4>1, NumberTypes DEF Below
    <3> QED
      BY <3>1, <3>2
  <2> QED
    BY <1>11, <1>3, <1>5, <2>1, <2>2, NumberTypes DEF StartNumbers
<1>8. LiveNumbers'
  BY <1>11 DEF LiveNumbers, Live
<1>9. Shape'
  BY <1>11, <1>2 DEF Shape
<1> QED
  BY <1>11, <1>2, <1>3, <1>6, <1>7, <1>8, <1>9, WhileClosed DEF TypeInv

\* DB::Open: a new log.
LEMMA NewLogTypes ==
  ASSUME TypeInv, NewLog
  PROVE  TypeInv'
<1>1. /\ db.status = "replaying" /\ db.replay = {} /\ UNCHANGED <<writing, bg, answered, left>>
      /\ disk' = [disk EXCEPT !.logs = With(@, db.next, EmptyLog)]
      /\ db' = [db EXCEPT !.status = "saving", !.logfile = db.next, !.log = db.next,
                          !.next = @ + 1]
      /\ Shape /\ disk \in Disk /\ db \in Db /\ ManifestNumbers /\ ReplayNumbers /\ StartNumbers
      /\ writing = NoWriting /\ bg = NoBackground /\ ~db.error
  BY OpeningFacts DEF NewLog, TypeInv, Numbers, Shape
<1>2. EmptyLog \in Log /\ db.next \in Nat /\ EmptyLog.synced = 0 /\ Len(EmptyLog.records) = 0
  BY NumberTypes DEF EmptyLog, Log
<1>3. /\ disk' \in Disk /\ disk'.tables = disk.tables
      /\ disk'.manifests = disk.manifests /\ disk'.current = disk.current
      /\ DOMAIN disk'.logs = DOMAIN disk.logs \cup {db.next}
      /\ disk'.logs[db.next] = EmptyLog
      /\ \A m \in DOMAIN disk.logs : m # db.next => disk'.logs[m] = disk.logs[m]
  BY <1>1, <1>2, AddLog
<1>4. /\ db' \in Db /\ db'.status = "saving" /\ db'.logfile = db.next /\ db'.log = db.next
      /\ db'.next = db.next + 1 /\ db'.l0 = db.l0 /\ db'.l1 = db.l1
      /\ db'.manifest = db.manifest /\ db'.error = db.error
  <2> DEFINE next == db.next + 1  file == db.next
  <2>1. next \in Nat /\ file \in Nat
    BY <1>2
  <2>2. db' = [db EXCEPT !.status = "saving", !.logfile = file, !.log = file, !.next = next]
    BY <1>1
  <2> HIDE DEF next, file
  <2>3. /\ db' \in Db /\ db'.status = "saving" /\ db'.logfile = file /\ db'.log = file
        /\ db'.next = next /\ db'.l0 = db.l0 /\ db'.l1 = db.l1
        /\ db'.manifest = db.manifest /\ db'.error = db.error
    BY <1>1, <2>1, <2>2 DEF Db, Statuses
  <2> QED
    BY <2>3 DEF next, file
<1>5. Shape'
  <2>1. ASSUME NEW m \in DOMAIN disk'.logs
        PROVE  disk'.logs[m].synced <= Len(disk'.logs[m].records)
    <3>1. CASE m = db.next
      BY <1>2, <1>3, <3>1
    <3>2. CASE m # db.next
      BY <1>1, <1>3, <3>2 DEF Shape
    <3> QED
      BY <3>1, <3>2
  <2> QED
    BY <1>1, <1>3, <1>4, <2>1 DEF Shape, Within
<1>6. Current' = Current /\ ManifestNumbers' /\ Named(db') = Named(db)
  BY <1>1, <1>3, <1>4 DEF ManifestNumbers, Current, Named
<1>7. StartNumbers'
  <2>1. /\ db.manifest = Current.next /\ Current.next < db.next
        /\ Below(Named(db), db.next) /\ Named(db) \subseteq DOMAIN disk.tables
    BY <1>1 DEF StartNumbers, Starting
  <2>2. Current.log <= db.next /\ db.next < db.next + 1 /\ Current.next < db.next + 1
    BY <1>1, <2>1, NumberTypes DEF ManifestNumbers
  <2>3. ASSUME NEW n \in DOMAIN disk'.logs PROVE n <= db.next
    <3>1. CASE n = db.next
      BY <3>1, NumberTypes
    <3>2. CASE n \in LogsToReplay(Current)
      BY <1>1, <3>2, NumberTypes DEF ReplayNumbers, Below, LogsToReplay
    <3>3. CASE n \in DOMAIN disk.logs /\ ~(n >= Current.log)
      BY <2>2, <3>3, NumberTypes
    <3> QED
      BY <1>3, <3>1, <3>2, <3>3 DEF LogsToReplay
  <2>4. Below(Named(db), db.next + 1)
    BY <2>1, NumberTypes DEF Below
  <2> QED
    BY <1>3, <1>4, <1>6, <2>1, <2>2, <2>3, <2>4 DEF StartNumbers
<1>8. ReplayNumbers' /\ LiveNumbers'
  BY <1>4 DEF ReplayNumbers, LiveNumbers, Live
<1> QED
  BY <1>1, <1>4, <1>5, <1>6, <1>7, <1>8, WhileClosed DEF TypeInv

\* DB::Open: a new manifest.
LEMMA SaveManifestTypes ==
  ASSUME TypeInv, SaveManifest
  PROVE  TypeInv'
<1>1. /\ db.status = "saving" /\ UNCHANGED <<writing, bg, answered, left>>
      /\ disk' = [disk EXCEPT !.manifests = With(@, db.manifest, NewManifest)]
      /\ db' = [db EXCEPT !.status = "pointing"]
      /\ Shape /\ disk \in Disk /\ db \in Db /\ ManifestNumbers /\ StartNumbers
      /\ writing = NoWriting /\ bg = NoBackground /\ ~db.error
  BY OpeningFacts DEF SaveManifest, NewManifest, TypeInv, Numbers, Shape
<1>2. NewManifest \in Manifest
  BY NumberTypes DEF NewManifest, Manifest
<1>3. /\ disk' \in Disk /\ disk'.logs = disk.logs
      /\ disk'.tables = disk.tables /\ disk'.current = disk.current
      /\ DOMAIN disk'.manifests = DOMAIN disk.manifests \cup {db.manifest}
      /\ disk'.manifests[db.manifest] = NewManifest
      /\ \A m \in DOMAIN disk.manifests : m # db.manifest => disk'.manifests[m] = disk.manifests[m]
  <2> HIDE DEF NewManifest
  <2> QED
    BY <1>1, <1>2, NumberTypes, AddManifest
<1>4. /\ db' \in Db /\ db'.status = "pointing" /\ db'.logfile = db.logfile /\ db'.log = db.log
      /\ db'.next = db.next /\ db'.last = db.last /\ db'.l0 = db.l0 /\ db'.l1 = db.l1
      /\ db'.manifest = db.manifest /\ db'.error = db.error
  BY <1>1 DEF Db, Statuses
<1>5. disk.current # db.manifest
  BY <1>1, NumberTypes DEF StartNumbers, Starting, ManifestNumbers
<1>6. Current' = Current /\ ManifestNumbers' /\ Named(db') = Named(db)
  BY <1>1, <1>3, <1>4, <1>5 DEF ManifestNumbers, Current, Named
<1>7. StartNumbers'
  BY <1>1, <1>3, <1>4, <1>6 DEF StartNumbers, Starting, NewManifest
<1>8. ReplayNumbers' /\ LiveNumbers'
  BY <1>4 DEF ReplayNumbers, LiveNumbers, Live
<1>9. Shape'
  BY <1>1, <1>3, <1>4 DEF Shape, Within
<1> QED
  BY <1>1, <1>4, <1>6, <1>7, <1>8, <1>9, WhileClosed DEF TypeInv

\* DB::Open: CURRENT is renamed into place.
LEMMA SetCurrentFileTypes ==
  ASSUME TypeInv, SetCurrentFile
  PROVE  TypeInv' /\ Current' = NewManifest
<1>1. /\ db.status = "pointing" /\ UNCHANGED <<writing, bg, answered, left>>
      /\ disk' = [disk EXCEPT !.current = db.manifest]
      /\ db' = [db EXCEPT !.status = "installing"]
      /\ Shape /\ disk \in Disk /\ db \in Db /\ ManifestNumbers /\ StartNumbers
      /\ writing = NoWriting /\ bg = NoBackground /\ ~db.error
  BY OpeningFacts DEF SetCurrentFile, TypeInv, Numbers, Shape
<1>2. /\ disk' \in Disk /\ disk'.logs = disk.logs /\ disk'.tables = disk.tables
      /\ disk'.manifests = disk.manifests /\ disk'.current = db.manifest
  BY <1>1, NumberTypes DEF Disk
<1>3. /\ db' \in Db /\ db'.status = "installing" /\ db'.logfile = db.logfile /\ db'.log = db.log
      /\ db'.next = db.next /\ db'.l0 = db.l0 /\ db'.l1 = db.l1
      /\ db'.manifest = db.manifest /\ db'.error = db.error
  BY <1>1 DEF Db, Statuses
<1>4. /\ db.manifest = Current.next /\ Current.next < db.next
      /\ Below(Named(db), db.next) /\ Named(db) \subseteq DOMAIN disk.tables
      /\ db.log = db.logfile /\ db.log < db.next
      /\ db.log \in DOMAIN disk.logs /\ \A n \in DOMAIN disk.logs : n <= db.log
      /\ db.manifest \in DOMAIN disk.manifests /\ disk.manifests[db.manifest] = NewManifest
  BY <1>1 DEF StartNumbers, Starting
<1>5. Current' = NewManifest
  BY <1>2, <1>4 DEF Current
<1>6. /\ Current'.next = db.next /\ Current'.log = db.log /\ Named(Current') = Named(db)
      /\ Current'.inStep
  BY <1>5 DEF NewManifest, Named
<1>7. ManifestNumbers'
  BY <1>2, <1>4, <1>6 DEF ManifestNumbers
<1>8. LiveNumbers'
  BY <1>2, <1>3, <1>4, <1>6, NumberTypes DEF LiveNumbers, Named
<1>9. ReplayNumbers' /\ StartNumbers'
  BY <1>3 DEF ReplayNumbers, StartNumbers, Starting
<1>10. Shape'
  BY <1>1, <1>2, <1>3 DEF Shape, Within
<1> QED
  BY <1>1, <1>3, <1>5, <1>7, <1>8, <1>9, <1>10, WhileClosed DEF TypeInv

\* DB::Open fails at one of its files.
LEMMA OpenFailsTypes ==
  ASSUME TypeInv, OpenFails
  PROVE  /\ TypeInv' /\ Current' = Current
         /\ disk'.logs = disk.logs /\ disk'.tables = disk.tables
<1>1. /\ db.status \in {"replaying", "saving", "pointing"} /\ MayFail /\ left' = OneError
      /\ UNCHANGED <<writing, bg, answered>> /\ db' = [Closed EXCEPT !.status = "failed"]
      /\ Shape /\ disk \in Disk /\ ManifestNumbers /\ StartNumbers
      /\ writing = NoWriting /\ bg = NoBackground
  BY OpeningFacts DEF OpenFails, TypeInv, Numbers, Shape
<1>2. db' \in Db /\ db'.status = "failed" /\ ~db'.error
  BY <1>1 DEF Closed, Db, Statuses
<1>3. /\ disk' \in Disk /\ disk'.logs = disk.logs /\ disk'.tables = disk.tables
      /\ disk'.current = disk.current /\ disk.current \in DOMAIN disk'.manifests
      /\ disk'.manifests[disk.current] = disk.manifests[disk.current]
  <2>1. CASE db.status = "replaying"
    BY <1>1, <2>1 DEF OpenFails, ManifestNumbers
  <2>2. CASE db.status # "replaying"
    <3> DEFINE others == DOMAIN disk.manifests \ {db.manifest}
               f == Keep(disk.manifests, others)
    <3>1. disk' = [disk EXCEPT !.manifests = f]
      BY <2>2 DEF OpenFails
    <3>2. disk.manifests \in Files(Manifest)
      BY <1>1 DEF Disk
    <3>3. f \in Files(Manifest)
      <4> HIDE DEF others
      <4> QED
        BY <3>2, KeptFiles
    <3>4. disk.current \in others
      BY <1>1, NumberTypes DEF StartNumbers, Starting, ManifestNumbers
    <3>5. disk.current \in DOMAIN f /\ f[disk.current] = disk.manifests[disk.current]
      BY <3>4 DEF Keep
    <3> HIDE DEF f
    <3> QED
      BY <1>1, <3>1, <3>3, <3>5, NewManifests
  <2> QED
    BY <2>1, <2>2
<1>4. Current' = Current
  BY <1>3 DEF Current
<1>5. ManifestNumbers'
  BY <1>1, <1>3, <1>4 DEF ManifestNumbers
<1>6. ReplayNumbers' /\ StartNumbers' /\ LiveNumbers'
  BY <1>2 DEF ReplayNumbers, StartNumbers, LiveNumbers, Starting, Live
<1>7. Shape'
  BY <1>1, <1>2, <1>3, LeftTypes DEF Shape
<1> QED
  BY <1>1, <1>2, <1>3, <1>4, <1>5, <1>6, <1>7, WhileClosed DEF TypeInv

\* DB::Open is through: obsolete files go, the thread may be scheduled.
LEMMA OpenedTypes ==
  ASSUME TypeInv, Opened
  PROVE  TypeInv'
<1>1. /\ db.status = "installing" /\ UNCHANGED <<writing, answered, left>>
      /\ disk' = DeleteObsoleteFiles(db) /\ db' = [db EXCEPT !.status = "open"]
      /\ bg' = Scheduled(db) /\ Live
      /\ Shape /\ db \in Db /\ LiveNumbers
      /\ writing = NoWriting /\ bg = NoBackground /\ ~db.error
  BY OpeningFacts DEF Opened, TypeInv, Numbers, Shape, Live
<1>2. /\ db' \in Db /\ db'.status = "open" /\ db'.logfile = db.logfile /\ db'.log = db.log
      /\ db'.next = db.next /\ db'.l0 = db.l0 /\ db'.l1 = db.l1
      /\ db'.manifest = db.manifest /\ db'.error = db.error
  BY <1>1 DEF Db, Statuses
<1>3. disk' = DeleteObsoleteFiles(db')
  BY <1>1, <1>2 DEF DeleteObsoleteFiles, DeletesFiles, ManifestsToKeep
<1>4. /\ bg' \in BgState /\ BgNumbers' /\ EditNumbers'
  BY <1>1, ScheduledIs, BgDone
<1>5. Shape'
  BY <1>1, <1>2, <1>3, <1>4, DeletedShape DEF Shape
<1>6. Named(db') = Named(db)
  BY <1>2 DEF Named
<1>7. ManifestNumbers' /\ LiveNumbers'
  <2>1. /\ Below(Named(db), db.next) /\ Named(db) \subseteq DOMAIN disk.tables
        /\ db.log <= db.logfile /\ (~db.error => db.log <= Current.log)
    BY <1>1 DEF LiveNumbers
  <2>2. Below(DOMAIN disk'.tables, db.next)
    <3>1. DOMAIN disk'.tables \subseteq Named(db) \cup PendingOutputs
      BY <1>1, DeleteDoes DEF DeletesFiles
    <3>2. PendingOutputs = {}
      BY <1>1 DEF PendingOutputs, NoBackground
    <3> QED
      BY <2>1, <3>1, <3>2 DEF Below
  <2> QED
    BY <1>1, <1>2, <1>3, <1>5, <1>6, <2>1, <2>2, DeletedNumbers
<1> QED
  BY <1>2, <1>4, <1>5, <1>7, WhileOpen DEF TypeInv

\* Who dies leaves the files, apart from what he was writing.
LEMMA DieTypes ==
  ASSUME TypeInv, Die, disk' \in Disk, Within', disk'.current = disk.current,
         DOMAIN disk'.manifests = DOMAIN disk.manifests,
         SameVersion,
         \A n \in DOMAIN disk'.logs : disk'.logs[n].synced <= Len(disk'.logs[n].records)
  PROVE  TypeInv'
<1>1. /\ db' = Closed /\ writing' = NoWriting /\ bg' = NoBackground /\ answered' \in Answers
      /\ ManifestNumbers
  BY DEF Die, TypeInv, Shape, Answers, Numbers
<1>2. db' \in Db /\ db'.status = "down" /\ ~db'.error
  BY <1>1, ClosedTypes
<1>3. ManifestNumbers'
  BY <1>1 DEF ManifestNumbers, SameVersion, Below
<1>4. ReplayNumbers' /\ StartNumbers' /\ LiveNumbers'
  BY <1>2 DEF ReplayNumbers, StartNumbers, LiveNumbers, Starting, Live
<1>5. Shape'
  BY <1>1, <1>2, ClosedTypes DEF Shape
<1> QED
  BY <1>1, <1>2, <1>3, <1>4, <1>5, WhileClosed DEF TypeInv

\* A death leaves one death fewer.
LEMMA OneLess ==
  ASSUME Within
  PROVE  /\ left.kills > 0 /\ left' = [left EXCEPT !.kills = @ - 1] =>
              Within' /\ left'.damage = left.damage /\ left'.crashes = left.crashes
         /\ left.crashes > 0 /\ left' = [left EXCEPT !.crashes = @ - 1] =>
              Within' /\ left'.damage = left.damage /\ left'.crashes = left.crashes - 1
<1>1. ASSUME left.kills > 0, left' = [left EXCEPT !.kills = @ - 1]
      PROVE  Within' /\ left'.damage = left.damage /\ left'.crashes = left.crashes
  <2> DEFINE n == left.kills - 1
  <2>1. n \in Nat /\ left' = [left EXCEPT !.kills = n]
    BY <1>1 DEF Within, Bounds
  <2> HIDE DEF n
  <2> QED
    BY <2>1 DEF Within, Bounds
<1>2. ASSUME left.crashes > 0, left' = [left EXCEPT !.crashes = @ - 1]
      PROVE  Within' /\ left'.damage = left.damage /\ left'.crashes = left.crashes - 1
  <2> DEFINE n == left.crashes - 1
  <2>1. n \in Nat /\ left' = [left EXCEPT !.crashes = n]
    BY <1>2 DEF Within, Bounds
  <2> HIDE DEF n
  <2>2. Within' /\ left'.damage = left.damage /\ left'.crashes = n
    BY <2>1 DEF Within, Bounds
  <2> QED
    BY <2>2 DEF n
<1> QED
  BY <1>1, <1>2

\* What Kill can leave of the files: all, or a manifest behind a failed append that
\* cannot be read.
LEMMA KillDoes ==
  ASSUME TypeInv, Kill
  PROVE  /\ Die /\ disk' \in Disk /\ disk'.current = disk.current
         /\ disk'.logs = disk.logs /\ disk'.tables = disk.tables
         /\ DOMAIN disk'.manifests = DOMAIN disk.manifests /\ SameVersion
         /\ disk' = disk \/ (Live /\ ~Current.inStep /\ ~Current'.inStep)
<1>1. Die /\ Shape
  BY DEF Kill, TypeInv
<1>2. CASE disk' = disk
  BY <1>1, <1>2 DEF Shape, Current, SameVersion, Named
<1>3. CASE bg.at \in {"logging", "mergeLogging"} /\ OutOfStep /\ ManifestUnreadable
  <2>1. db.manifest = disk.current /\ disk.current \in DOMAIN disk.manifests /\ Live
    BY <1>3, OpenWhen, LiveFacts DEF TypeInv
  <2>2. OnlyCurrent /\ SameVersion /\ Current'.inStep = Current.inStep
    BY <1>1, <1>3, <2>1, ManifestUnreadableDoes
  <2> QED
    BY <1>1, <1>3, <2>1, <2>2 DEF OnlyCurrent, OutOfStep, Current
<1> QED
  BY <1>2, <1>3 DEF Kill

\* What Crash can leave of them: of every log a beginning with all that was synced.
LEMMA CrashDoes ==
  ASSUME TypeInv, Crash
  PROVE  /\ Die /\ disk' \in Disk /\ disk'.current = disk.current /\ disk'.tables = disk.tables
         /\ disk'.manifests = disk.manifests /\ DOMAIN disk'.logs = DOMAIN disk.logs
         /\ disk'.lost = disk.lost
         /\ \A n \in DOMAIN disk.logs :
              /\ disk.logs[n] \in Log
              /\ \E k \in disk.logs[n].synced..Len(disk.logs[n].records) :
                   /\ disk'.logs[n] = [records |-> SubSeq(disk.logs[n].records, 1, k),
                                       synced |-> disk.logs[n].synced,
                                       inStep |-> disk.logs[n].inStep]
                   /\ k \in Nat /\ Len(disk'.logs[n].records) = k
<1>1. Die /\ Shape /\ disk \in Disk /\ disk.logs \in Files(Log)
  BY DEF Crash, TypeInv, Shape, Disk
<1>2. PICK kept \in [DOMAIN disk.logs -> 0..Cardinality(Writes)] :
        /\ \A n \in DOMAIN disk.logs :
             kept[n] \in disk.logs[n].synced..Len(disk.logs[n].records)
        /\ disk' = [disk EXCEPT !.logs = [n \in DOMAIN disk.logs |->
                      [disk.logs[n] EXCEPT !.records = SubSeq(@, 1, kept[n])]]]
  BY Zenon DEF Crash
<1> DEFINE f == [n \in DOMAIN disk.logs |->
                   [disk.logs[n] EXCEPT !.records = SubSeq(@, 1, kept[n])]]
<1>3. ASSUME NEW n \in DOMAIN disk.logs
      PROVE  /\ disk.logs[n] \in Log /\ n \in Nat
             /\ f[n] \in Log
             /\ f[n] = [records |-> SubSeq(disk.logs[n].records, 1, kept[n]),
                        synced |-> disk.logs[n].synced, inStep |-> disk.logs[n].inStep]
             /\ kept[n] \in Nat /\ Len(f[n].records) = kept[n]
  <2> DEFINE log == disk.logs[n]
             records == SubSeq(log.records, 1, kept[n])
  <2>1. log \in Log /\ n \in Nat
    BY <1>1, FileOf
  <2>2. /\ log.records \in Seq(Record) /\ log.synced \in Nat
        /\ kept[n] \in log.synced..Len(log.records)
    BY <1>2, <2>1 DEF Log
  <2>3. kept[n] \in 0..Len(log.records) /\ kept[n] \in Nat
    BY <2>2
  <2>4. records \in Seq(Record) /\ Len(records) = kept[n]
    BY <2>2, <2>3
  <2>5. f[n] = [log EXCEPT !.records = records]
    OBVIOUS
  <2> HIDE DEF f, records, log
  <2>6. f[n] = [records |-> records, synced |-> log.synced, inStep |-> log.inStep]
    BY <2>1, <2>5, LogWith
  <2>7. f[n] \in Log
    BY <2>1, <2>2, <2>4, <2>6 DEF Log
  <2> QED
    BY <2>1, <2>3, <2>4, <2>6, <2>7 DEF log, records
<1>4. disk' = [disk EXCEPT !.logs = f]
  BY <1>2, Zenon
<1>5. DOMAIN f = DOMAIN disk.logs /\ f = [n \in DOMAIN disk.logs |-> f[n]]
  OBVIOUS
<1> HIDE DEF f
<1>6. f \in Files(Log)
  <2>1. f \in [DOMAIN disk.logs -> Log]
    BY <1>3, <1>5
  <2>2. DOMAIN disk.logs \in SUBSET Nat
    BY <1>3
  <2> QED
    BY <2>1, <2>2 DEF Files
<1>7. /\ disk' \in Disk /\ disk'.logs = f /\ disk'.tables = disk.tables
      /\ disk'.manifests = disk.manifests /\ disk'.current = disk.current
      /\ disk'.lost = disk.lost
  BY <1>1, <1>4, <1>6, NewLogs
<1> QED
  BY <1>1, <1>2, <1>3, <1>5, <1>7

\* The process or the machine dies.
LEMMA DeathTypes ==
  ASSUME TypeInv, Kill \/ Crash
  PROVE  TypeInv'
<1>1. CASE Kill
  <2>1. Within'
    BY <1>1, OneLess DEF Kill, TypeInv, Shape
  <2> QED
    BY <1>1, <2>1, KillDoes, DieTypes DEF TypeInv, Shape
<1>2. CASE Crash
  <2>1. Within'
    BY <1>2, OneLess DEF Crash, TypeInv, Shape
  <2>2. SameVersion
    BY <1>2, CrashDoes DEF Current, SameVersion, Named
  <2>3. ASSUME NEW n \in DOMAIN disk'.logs
        PROVE  disk'.logs[n].synced <= Len(disk'.logs[n].records)
    <3>1. PICK k \in disk.logs[n].synced..Len(disk.logs[n].records) :
             /\ disk'.logs[n] = [records |-> SubSeq(disk.logs[n].records, 1, k),
                                 synced |-> disk.logs[n].synced,
                                 inStep |-> disk.logs[n].inStep]
             /\ k \in Nat /\ Len(disk'.logs[n].records) = k
      BY <1>2, CrashDoes
    <3> QED
      BY <3>1
  <2> QED
    BY <1>2, <2>1, <2>2, <2>3, CrashDoes, DieTypes
<1> QED
  BY <1>1, <1>2

\* A new database has its numbers in order.
LEMMA TypeInvInit == Init => TypeInv
<1> SUFFICES ASSUME Init PROVE TypeInv
  OBVIOUS
<1> DEFINE m == [l0 |-> {}, l1 |-> {}, log |-> 0, next |-> 2, last |-> 0,
                 inStep |-> TRUE, corrupt |-> FALSE]
           f == [n \in {1} |-> m]
<1>1. /\ disk = [logs |-> <<>>, tables |-> <<>>, manifests |-> f, current |-> 1,
             lost |-> {}]
      /\ db = Closed /\ writing = NoWriting /\ bg = NoBackground
      /\ answered = [w \in Writes |-> "none"]
      /\ left = [errors |-> MaxErrors, damage |-> MaxDamage, kills |-> MaxKills,
                 crashes |-> MaxCrashes]
  BY DEF Init
<1>2. /\ m \in Manifest /\ m.next = 2 /\ m.log = 0 /\ Named(m) = {}
      /\ f[1] = m /\ DOMAIN f = {1}
  BY DEF Manifest, Named
<1> HIDE DEF m
<1>3. f \in Files(Manifest)
  <2>1. {1} \in SUBSET Nat /\ f \in [{1} -> Manifest]
    BY <1>2
  <2> HIDE DEF f
  <2> QED
    BY <2>1 DEF Files
<1>4. <<>> \in Files(Log) /\ <<>> \in Files(SUBSET Entry) /\ DOMAIN <<>> = {}
  <2>1. \A T : <<>> \in [{} -> T] /\ {} \in SUBSET Nat /\ DOMAIN <<>> = {}
    OBVIOUS
  <2> QED
    BY <2>1 DEF Files
<1> HIDE DEF f
<1>5. /\ disk \in Disk /\ disk.logs = <<>> /\ disk.manifests = f /\ disk.current = 1
  BY <1>1, <1>3, <1>4 DEF Disk
<1>6. Within
  BY <1>1, SizesAssumption DEF Within, Bounds
<1>7. Shape
  BY <1>1, <1>4, <1>5, <1>6, ClosedTypes DEF Shape, Answers
<1>8. Current = m
  BY <1>2, <1>5 DEF Current
<1>9. ManifestNumbers
  BY <1>2, <1>5, <1>8 DEF ManifestNumbers, Below
<1>10. /\ db.status = "down" /\ ~db.error /\ bg.at = "none" /\ bg.inputs = {}
  BY <1>1, ClosedTypes DEF NoBackground
<1>11. ReplayNumbers /\ StartNumbers /\ LiveNumbers /\ Alone /\ BgNumbers /\ EditNumbers
  BY <1>1, <1>10 DEF ReplayNumbers, StartNumbers, LiveNumbers, Starting, Live, Alone, BgNumbers,
                     EditNumbers, Dumping, MergeEnds
<1> QED
  BY <1>7, <1>9, <1>11 DEF TypeInv, Numbers

\* Every step keeps them so.
LEMMA TypeInvStep == TypeInv /\ [Next]_vars => TypeInv'
<1> SUFFICES ASSUME TypeInv, [Next]_vars PROVE TypeInv'
  OBVIOUS
<1>1. CASE UNCHANGED vars
  <2>1. Shape'
    BY <1>1 DEF vars, TypeInv, Shape, Within
  <2>2. /\ Current' = Current /\ ManifestNumbers'
        /\ LogsToReplay(Current)' = LogsToReplay(Current)
    BY <1>1 DEF vars, TypeInv, Numbers, ManifestNumbers, Current, LogsToReplay
  <2>3. ReplayNumbers'
    BY <1>1, <2>2 DEF vars, TypeInv, Numbers, ReplayNumbers
  <2>4. StartNumbers' /\ LiveNumbers'
    BY <1>1, <2>2 DEF vars, TypeInv, Numbers, StartNumbers, LiveNumbers, Starting, Live,
                      NewManifest, Named
  <2>5. Alone' /\ BgNumbers' /\ EditNumbers'
    BY <1>1, <2>2 DEF vars, TypeInv, Numbers, Alone, BgNumbers, EditNumbers, Dumping, MergeEnds,
                      Named
  <2> QED
    BY <2>1, <2>2, <2>3, <2>4, <2>5 DEF TypeInv, Numbers
<1>2. CASE \E w \in Writes : \/ Write(w) \/ WriteFails(w) \/ WriteHasRoom(w) \/ WriteWaits(w)
                             \/ SwitchFails(w)
  BY <1>2, QueueStepTypes
<1>3. CASE \E w \in Writes : SwitchMemTable(w)
  BY <1>3, SwitchTypes
<1>4. CASE LogAppend \/ LogSync \/ LogAppendFails \/ LogSyncFails \/ InsertInto
  BY <1>4, LogStepTypes
<1>5. CASE BackgroundStarts
  BY <1>5, StartDumpTypes, StartMergeTypes, NothingToDoTypes DEF BackgroundStarts
<1>6. CASE MemTableFirst \/ BuildTable \/ LogMemTable \/ InstallMemTable
  BY <1>6, MemTableFirstTypes, BuildTableTypes, LogMemTableTypes, InstallMemTableTypes
<1>7. CASE MergeTables \/ MergeDone \/ LogMerge \/ InstallMerge
  BY <1>7, MergeTablesTypes, MergeDoneTypes, LogMergeTypes, InstallMergeTypes
<1>8. CASE BuildTableFails \/ LogMemTableFails \/ MergeFails \/ LogMergeFails
  BY <1>8, MemTableFailsTypes, MergeFailsTypes
<1>9. CASE Recover \/ ReplayLog \/ ReplayLogFails \/ NewLog \/ SaveManifest
  BY <1>9, RecoverTypes, ReplayLogTypes, NewLogTypes, SaveManifestTypes
<1>10. CASE SetCurrentFile \/ Opened \/ OpenFails
  BY <1>10, SetCurrentFileTypes, OpenedTypes, OpenFailsTypes
<1>11. CASE Kill \/ Crash
  BY <1>11, DeathTypes
<1> QED
  BY <1>1, <1>2, <1>3, <1>4, <1>5, <1>6, <1>7, <1>8, <1>9, <1>10, <1>11
     DEF Next, Writing, Background, Opening, Faults

\* The shape is what TypeOK asks for.
LEMMA TypeInvImpliesTypeOK == TypeInv => TypeOK
<1> SUFFICES ASSUME TypeInv PROVE TypeOK
  OBVIOUS
<1>1. /\ Shape /\ disk.logs \in Files(Log) /\ disk.tables \in Files(SUBSET Entry)
      /\ disk.manifests \in Files(Manifest) /\ disk.current \in DOMAIN disk.manifests
  BY DEF TypeInv, Shape, Disk, Numbers, ManifestNumbers
<1>2. ASSUME NEW n \in DOMAIN disk.logs
      PROVE  /\ n \in Nat /\ disk.logs[n] \in Log
             /\ disk.logs[n].synced <= Len(disk.logs[n].records)
  <2>1. n \in Nat /\ disk.logs[n] \in Log
    BY <1>1, FileOf
  <2> QED
    BY <1>1, <2>1 DEF Log, Shape
<1>3. \A n \in DOMAIN disk.tables : n \in Nat /\ disk.tables[n] \subseteq Entry
  BY <1>1, FileOf
<1>4. \A n \in DOMAIN disk.manifests : n \in Nat /\ disk.manifests[n] \in Manifest
  BY <1>1, FileOf
<1> QED
  BY <1>1, <1>2, <1>3, <1>4
     DEF TypeOK, Shape, Disk, Db, Statuses, WriterState, BgState, Answers, Within, Bounds

\* The numbers that files are given never collide, whatever fails: no table, log or
\* manifest that is in use is written a second time.
THEOREM NumbersInOrder == Spec => []TypeInv
<1>1. Init => TypeInv
  BY TypeInvInit
<1>2. TypeInv /\ [Next]_vars => TypeInv'
  BY TypeInvStep
<1> QED
  BY <1>1, <1>2, PTL DEF Spec

\* The state of LevelDB has the shape the code gives it, in every run of every size.
THEOREM TypeCorrect == Spec => []TypeOK
<1>1. TypeInv => TypeOK
  BY TypeInvImpliesTypeOK
<1> QED
  BY <1>1, NumbersInOrder, PTL

-----------------------------------------------------------------------------
(* Files are written once.                                                 *)

\* A table that is named keeps its contents as long as it is there.
SameTables ==
  \A n \in (Named(Current) \cup Named(db)) \cap DOMAIN disk.tables \cap DOMAIN disk'.tables :
    disk'.tables[n] = disk.tables[n]

\* A log goes on where it ended.
GoesOn(old, new) == Len(old) <= Len(new) /\ \A i \in DOMAIN old : new[i] = old[i]

\* Every log that is kept goes on where it ended.
LogsGoOn ==
  \A n \in DOMAIN disk.logs \cap DOMAIN disk'.logs :
    GoesOn(disk.logs[n].records, disk'.logs[n].records)

\* A table that the manifest or the open version names is never written again, not by
\* a replay, a dump or a merge that follows an error or a death; a log is only ever
\* written at its end, and cut short by the death of the machine alone.
FilesKept == SameTables /\ (Crash \/ LogsGoOn)

\* A log with one more record goes on.
LEMMA OneMoreGoesOn ==
  ASSUME NEW old \in Seq(Record), NEW record \in Record
  PROVE  GoesOn(old, old) /\ GoesOn(old, Append(old, record))
BY DEF GoesOn

\* Steps that write no table and no log, or delete whole files.
LEMMA KeepingFiles ==
  ASSUME Shape,
         \A n \in DOMAIN disk.tables \cap DOMAIN disk'.tables : disk'.tables[n] = disk.tables[n],
         \A n \in DOMAIN disk.logs \cap DOMAIN disk'.logs : disk'.logs[n] = disk.logs[n]
  PROVE  FilesKept
BY DEF FilesKept, SameTables, LogsGoOn, GoesOn, Shape, Disk, Files, Log

\* A table with a number that no version names.
LEMMA NewTableKeepsFiles ==
  ASSUME Shape, NEW k, k \notin Named(Current) \cup Named(db), disk'.logs = disk.logs,
         \A n \in DOMAIN disk.tables : n # k => disk'.tables[n] = disk.tables[n]
  PROVE  FilesKept
<1>1. SameTables
  BY DEF SameTables
<1>2. LogsGoOn
  BY DEF LogsGoOn, GoesOn, Shape, Disk, Files, Log
<1> QED
  BY <1>1, <1>2 DEF FilesKept

\* A log with a number of its own.
LEMMA NewLogKeepsFiles ==
  ASSUME TypeInv, db.next \in Nat, db.next \notin DOMAIN disk.logs,
         disk' = [disk EXCEPT !.logs = With(@, db.next, EmptyLog)]
  PROVE  FilesKept
<1>1. Shape /\ disk \in Disk /\ EmptyLog \in Log
  BY DEF TypeInv, Shape, EmptyLog, Log
<1>2. /\ disk'.tables = disk.tables
      /\ \A m \in DOMAIN disk.logs : disk'.logs[m] = disk.logs[m]
  BY <1>1, AddLog
<1> QED
  BY <1>1, <1>2, KeepingFiles

\* Writers append to the log in use.
LEMMA WritersKeepFiles ==
  ASSUME TypeInv,
         LogAppend \/ LogSync \/ LogAppendFails \/ LogSyncFails \/ InsertInto
  PROVE  FilesKept
<1>1. /\ Live /\ disk'.tables = disk.tables
      /\ \A n \in DOMAIN disk.logs : n # db.logfile => disk'.logs[n] = disk.logs[n]
  BY LogStepDoes
<1>2. Shape /\ db.logfile \in DOMAIN disk.logs
  BY <1>1, LiveFacts DEF TypeInv
<1>3. ASSUME NEW n \in DOMAIN disk.logs
      PROVE  GoesOn(disk.logs[n].records, disk'.logs[n].records)
  <2>1. disk.logs[n] \in Log /\ disk.logs[n].records \in Seq(Record)
    <3>1. disk.logs[n] \in Log
      BY <1>2, FileOf DEF Shape, Disk
    <3> QED
      BY <3>1 DEF Log
  <2>2. CASE disk'.logs[n] = disk.logs[n]
    BY <2>1, <2>2 DEF GoesOn
  <2>3. CASE disk' = disk
    BY <2>1, <2>3 DEF GoesOn
  <2>4. ASSUME LogAppend, n = db.logfile
        PROVE  GoesOn(disk.logs[n].records, disk'.logs[n].records)
    <3>1. CASE disk' = [disk EXCEPT !.logs[db.logfile].records = Append(@, GroupRecord)]
      <4>1. /\ GroupRecord \in Record
            /\ disk'.logs[n] = [records |-> Append(disk.logs[n].records, GroupRecord),
                                synced |-> disk.logs[n].synced,
                                inStep |-> disk.logs[n].inStep]
        BY <1>2, <2>4, <3>1, AppendDoes
      <4>2. disk'.logs[n].records = Append(disk.logs[n].records, GroupRecord)
        BY <4>1
      <4> QED
        BY <2>1, <4>1, <4>2, OneMoreGoesOn
    <3>2. CASE disk' = Loses(Entries(GroupRecord))
      <4>1. disk'.logs = disk.logs
        BY <1>2, <3>2, GroupRecordIs, LosesDoes DEF Shape
      <4> QED
        BY <2>1, <4>1 DEF GoesOn
    <3> QED
      BY <2>4, <3>1, <3>2 DEF LogAppend
  <2>6. CASE LogAppendFails /\ n = db.logfile
    <3>1. disk'.logs[n] = [disk.logs[n] EXCEPT !.inStep = FALSE]
      <4>1. disk' = [disk EXCEPT !.logs[n].inStep = FALSE]
        BY <2>6 DEF LogAppendFails
      <4> QED
        BY <1>2, <4>1 DEF Shape, Disk
    <3>2. disk'.logs[n].records = disk.logs[n].records
      BY <2>1, <3>1, LogWith
    <3> QED
      BY <2>1, <3>2 DEF GoesOn
  <2>5. CASE LogSync /\ n = db.logfile
    <3>1. disk'.logs[n] = [records |-> disk.logs[n].records,
                           synced |-> Len(disk.logs[n].records),
                           inStep |-> disk.logs[n].inStep]
      BY <2>5, LogStepDoes
    <3>2. disk'.logs[n].records = disk.logs[n].records
      BY <3>1
    <3> QED
      BY <2>1, <3>2 DEF GoesOn
  <2> QED
    BY <1>1, <2>2, <2>3, <2>4, <2>5, <2>6 DEF LogSyncFails, InsertInto
<1> QED
  BY <1>1, <1>3 DEF FilesKept, LogsGoOn, SameTables

\* A replay writes a table that the manifest does not name.
LEMMA ReplayKeepsFiles ==
  ASSUME TypeInv, ReplayLog \/ ReplayLogFails
  PROVE  FilesKept
<1>1. /\ disk'.logs = disk.logs
      /\ \A k \in DOMAIN disk.tables : k # db.next => disk'.tables[k] = disk.tables[k]
  BY ReplayLogDoes DEF Replayed
<1>2. db.next \notin Named(Current) \cup Named(db)
  <2>1. Starting /\ StartNumbers /\ ManifestNumbers /\ Shape
    BY DEF ReplayLog, ReplayLogFails, Starting, TypeInv, Numbers
  <2>2. Current \in Manifest /\ db \in Db
    BY <2>1, FileOf DEF ManifestNumbers, Shape, Disk, Current
  <2>3. Current.next < db.next /\ Below(Named(db), db.next) /\ Below(Named(Current), Current.next)
    BY <2>1 DEF StartNumbers, ManifestNumbers
  <2> QED
    BY <2>2, <2>3 DEF Below, Named, Manifest, Db
<1> QED
  BY <1>1, <1>2, NewTableKeepsFiles DEF TypeInv

\* The background thread writes tables that no version names.
LEMMA TablesKeepFiles ==
  ASSUME TypeInv, BuildTable \/ MergeTables
  PROVE  FilesKept
<1>1. /\ Shape /\ disk \in Disk /\ bg \in BgState /\ db \in Db
      /\ BgNumbers /\ Numbers
  BY DEF TypeInv, Shape, Numbers
<1>2. CASE BuildTable
  <2>1. bg.table \in Nat /\ db.imm \in SUBSET Entry /\ bg.table \notin Named(Current) \cup Named(db)
    <3>1. bg.at = "building"
      BY <1>2, Zenon DEF BuildTable
    <3> QED
      BY <1>1, <3>1 DEF BgNumbers, Dumping, BgState, Db
  <2>2. disk' = [disk EXCEPT !.tables = With(@, bg.table, db.imm)]
    BY <1>2, Zenon DEF BuildTable
  <2>3. /\ disk'.logs = disk.logs
        /\ \A m \in DOMAIN disk.tables : m # bg.table => disk'.tables[m] = disk.tables[m]
    BY <1>1, <2>1, <2>2, AddTable
  <2> QED
    BY <1>1, <2>1, <2>3, NewTableKeepsFiles
<1>3. CASE MergeTables
  <2>1. bg.at = "merging" /\ bg.inputs # {}
    BY <1>1, <1>3 DEF MergeTables, BgNumbers
  <2>2. bg.output \in Nat /\ bg.output \notin Named(Current) \cup Named(db)
    BY <1>1, <2>1 DEF BgNumbers, BgState
  <2>3. TableEntries(bg.inputs) \in SUBSET Entry
    <3>1. bg.inputs \subseteq DOMAIN disk.tables
      BY <1>1, <2>1, OpenWhen DEF BgNumbers, Numbers, LiveNumbers
    <3> QED
      BY <1>1, <3>1, TableEntriesType
  <2>4. disk' = [disk EXCEPT !.tables = With(@, bg.output, TableEntries(bg.inputs))]
    BY <1>3 DEF MergeTables
  <2>5. /\ disk'.logs = disk.logs
        /\ \A m \in DOMAIN disk.tables : m # bg.output => disk'.tables[m] = disk.tables[m]
    BY <1>1, <2>2, <2>3, <2>4, AddTable
  <2> QED
    BY <1>1, <2>2, <2>5, NewTableKeepsFiles
<1> QED
  BY <1>2, <1>3

\* The number of a new log is above those of all logs that are there.
LEMMA LogNumberIsNew ==
  ASSUME TypeInv, db.status = "open" \/ (db.status = "replaying" /\ db.replay = {})
  PROVE  db.next \in Nat /\ db.next \notin DOMAIN disk.logs
<1>1. Shape /\ Numbers /\ db \in Db /\ DOMAIN disk.logs \subseteq Nat
  BY DEF TypeInv, Shape, Disk, Files
<1>2. ASSUME NEW n \in DOMAIN disk.logs PROVE n < db.next
  <2>1. CASE db.status = "open"
    BY <1>1, <2>1 DEF Numbers, LiveNumbers, Live, Db
  <2>2. CASE db.status = "replaying" /\ db.replay = {}
    <3>1. /\ Below(LogsToReplay(Current), db.next)
          /\ Current.next < db.next /\ Current.log < Current.next
      BY <1>1, <2>2 DEF Numbers, ReplayNumbers, StartNumbers, Starting, ManifestNumbers
    <3>2. Current \in Manifest
      BY <1>1, FileOf DEF Numbers, ManifestNumbers, Shape, Disk, Current
    <3> QED
      BY <1>1, <3>1, <3>2 DEF Below, LogsToReplay, Manifest, Db
  <2> QED
    BY <2>1, <2>2
<1> QED
  BY <1>1, <1>2 DEF Db

\* Every step keeps the files.
LEMMA StepKeepsFiles == TypeInv /\ [Next]_vars => FilesKept
<1> SUFFICES ASSUME TypeInv, [Next]_vars PROVE FilesKept
  OBVIOUS
<1>1. Shape
  BY DEF TypeInv
<1>2. ASSUME disk' = disk PROVE FilesKept
  BY <1>1, <1>2, KeepingFiles
<1>3. ASSUME NEW w \in Writes, SwitchMemTable(w) PROVE FilesKept
  <2>1. db.status = "open" /\ disk' = [disk EXCEPT !.logs = With(@, db.next, EmptyLog)]
    BY <1>3 DEF SwitchMemTable, First, Open
  <2> QED
    BY <2>1, LogNumberIsNew, NewLogKeepsFiles
<1>4. CASE NewLog
  <2>1. /\ db.status = "replaying" /\ db.replay = {}
        /\ disk' = [disk EXCEPT !.logs = With(@, db.next, EmptyLog)]
    BY <1>4 DEF NewLog
  <2> QED
    BY <2>1, LogNumberIsNew, NewLogKeepsFiles
<1>5. CASE LogMemTable \/ LogMerge \/ LogMemTableFails \/ LogMergeFails
  <2>1. Live /\ bg.edit \in Edit /\ Named(bg.edit) \subseteq DOMAIN disk.tables
    BY <1>5, OpenWhen DEF LogMemTable, LogMerge, LogMemTableFails, LogMergeFails, TypeInv, Shape,
                          BgState, Numbers, EditNumbers, MergeEnds
  <2>2. LogEdit(bg.edit) \/ LogEditFails(bg.edit)
    BY <1>5 DEF LogMemTable, LogMerge, LogMemTableFails, LogMergeFails
  <2>3. disk'.logs = disk.logs /\ disk'.tables = disk.tables
    BY <2>1, <2>2, EditMovesManifest DEF ManifestMoves, OnlyCurrent
  <2> QED
    BY <1>1, <2>3, KeepingFiles
<1>6. CASE InstallMemTable \/ InstallMerge \/ Opened
  <2>1. \E d : disk' = DeleteObsoleteFiles(d)
    BY <1>6 DEF InstallMemTable, InstallMerge, Opened
  <2>2. /\ \A n \in DOMAIN disk'.logs : disk'.logs[n] = disk.logs[n]
        /\ \A n \in DOMAIN disk'.tables : disk'.tables[n] = disk.tables[n]
    BY <1>1, <2>1, DeleteDoes
  <2> QED
    BY <1>1, <2>2, KeepingFiles
<1>7. CASE SaveManifest \/ SetCurrentFile \/ OpenFails
  <2>1. disk'.logs = disk.logs /\ disk'.tables = disk.tables
    BY <1>1, <1>7 DEF SaveManifest, SetCurrentFile, OpenFails, Shape, Disk
  <2> QED
    BY <1>1, <2>1, KeepingFiles
<1>8. CASE Kill
  <2>1. disk'.logs = disk.logs /\ disk'.tables = disk.tables
    BY <1>8, KillDoes
  <2> QED
    BY <1>1, <2>1, KeepingFiles
<1>9. CASE Crash
  <2>1. disk'.tables = disk.tables
    BY <1>9, CrashDoes
  <2> QED
    BY <1>9, <2>1 DEF FilesKept, SameTables
<1>10. CASE LogAppend \/ LogSync \/ LogAppendFails \/ LogSyncFails \/ InsertInto
  BY <1>10, WritersKeepFiles
<1>11. CASE BuildTable \/ MergeTables
  BY <1>11, TablesKeepFiles
<1>12. CASE ReplayLog \/ ReplayLogFails
  BY <1>12, ReplayKeepsFiles
<1>13. ASSUME NEW w \in Writes, \/ Write(w) \/ WriteFails(w) \/ WriteHasRoom(w)
                                \/ WriteWaits(w) \/ SwitchFails(w)
       PROVE  FilesKept
  BY <1>2, <1>13 DEF Write, WriteFails, WriteHasRoom, WriteWaits, SwitchFails
<1>14. CASE \/ BackgroundStarts \/ MemTableFirst \/ MergeDone \/ BuildTableFails \/ MergeFails
            \/ Recover \/ UNCHANGED vars
  BY <1>2, <1>14 DEF BackgroundStarts, MemTableFirst, MergeDone, BuildTableFails, MergeFails,
                     Recover, vars
<1> QED
  BY <1>3, <1>4, <1>5, <1>6, <1>7, <1>8, <1>9, <1>10, <1>11, <1>12, <1>13, <1>14
     DEF Next, Writing, Background, Opening, Faults

\* Whatever fails and whenever the process dies, nothing is written over that a version
\* still needs, and no log but by the death of the machine loses a record.
THEOREM FilesAreWrittenOnce == Spec => [][FilesKept]_vars
<1>1. TypeInv /\ [Next]_vars => FilesKept
  BY StepKeepsFiles
<1> QED
  BY <1>1, NumbersInOrder, PTL DEF Spec

-----------------------------------------------------------------------------
(* A database can be opened again.                                         *)

\* The version of an open database is what its manifest says, up to the edit that was
\* appended last; without that an obsolete file could be one that the manifest names.
Mirrored ==
  Live /\ ~db.error =>
    Named(Current) = IF bg.at \in {"installing", "mergeInstalling"}
                     THEN (Named(db) \ bg.edit.inputs) \cup Named(bg.edit) ELSE Named(db)

\* The manifest can be read unless it is out of step, and its tables are there.
Openable ==
  /\ Current.inStep => ~Current.corrupt
  /\ Named(Current) \subseteq DOMAIN disk.tables
  /\ Mirrored

\* The files can be opened by what they were opened by before.
LEMMA StillOpenable ==
  ASSUME Openable, Current' = Current, DOMAIN disk.tables \subseteq DOMAIN disk'.tables, Mirrored'
  PROVE  Openable'
BY DEF Openable

\* Steps of an open database that leave its version and its manifest alone.
LEMMA StillMirrored ==
  ASSUME Mirrored, Named(Current') = Named(Current),
         db'.status = db.status, db'.l0 = db.l0, db'.l1 = db.l1, db.error => db'.error,
         \/ bg' = bg
         \/ /\ bg.at \notin {"installing", "mergeInstalling"}
            /\ bg'.at \notin {"installing", "mergeInstalling"}
  PROVE  Mirrored'
BY DEF Mirrored, Live, Named

\* Steps of the writers.
LEMMA WritersOpenable ==
  ASSUME TypeInv, Openable,
         \/ \E w \in Writes : \/ Write(w) \/ WriteFails(w) \/ WriteHasRoom(w) \/ WriteWaits(w)
                              \/ SwitchMemTable(w) \/ SwitchFails(w)
         \/ LogAppend \/ LogSync \/ LogAppendFails \/ LogSyncFails \/ InsertInto
  PROVE  Openable'
<1>1. Shape /\ Mirrored /\ db \in Db /\ disk \in Disk
  BY DEF TypeInv, Shape, Openable
<1>2. CASE \E w \in Writes : \/ Write(w) \/ WriteFails(w) \/ WriteHasRoom(w) \/ WriteWaits(w)
                             \/ SwitchFails(w)
  <2>1. disk' = disk /\ db' = db /\ bg' = bg
    BY <1>2, Zenon DEF Write, WriteFails, WriteHasRoom, WriteWaits, SwitchFails
  <2> QED
    BY <2>1 DEF Openable, Mirrored, Live, Named, Current
<1>3. ASSUME NEW w \in Writes, SwitchMemTable(w) PROVE Openable'
  <2>1. /\ disk' = [disk EXCEPT !.logs = With(@, db.next, EmptyLog)]
        /\ db' = [db EXCEPT !.next = @ + 1, !.logfile = db.next,
                            !.imm = db.mem, !.hasImm = TRUE, !.mem = {}]
        /\ bg' = IF bg.at = "none" THEN Scheduled(db') ELSE bg
    BY <1>3 DEF SwitchMemTable
  <2>2. disk'.tables = disk.tables /\ Current' = Current
    BY <1>1, <2>1 DEF Disk, Current
  <2>3. /\ db'.status = db.status /\ db'.l0 = db.l0 /\ db'.l1 = db.l1 /\ db'.error = db.error
    BY <1>1, <2>1 DEF Db
  <2>4. bg' = bg \/ (bg.at = "none" /\ bg'.at \in {"none", "scheduled"})
    BY <2>1, ScheduledIs
  <2> QED
    BY <1>1, <2>2, <2>3, <2>4, StillMirrored, StillOpenable
<1>4. CASE LogAppend \/ LogSync \/ LogAppendFails \/ LogSyncFails \/ InsertInto
  <2>1. disk'.tables = disk.tables /\ Current' = Current
    BY <1>4, LogStepDoes DEF Current
  <2>2. /\ db'.status = db.status /\ db'.l0 = db.l0 /\ db'.l1 = db.l1
        /\ db.error => db'.error
    <3> DEFINE n == db.last + Len(writing.group)  d == [db EXCEPT !.last = n]
    <3>1. /\ d \in Db \/ n \notin Nat
          /\ d.status = db.status /\ d.l0 = db.l0 /\ d.l1 = db.l1 /\ d.error = db.error
      BY <1>1 DEF Db
    <3>2. SequenceAfter(db, writing.group) = d
      BY DEF SequenceAfter
    <3>3. \/ db' = db \/ db' = d \/ db' = RecordBackgroundError(d)
          \/ db' = [d EXCEPT !.mem = @ \cup Entries(GroupRecord)]
      BY <1>4, <3>2 DEF LogAppend, LogSync, LogAppendFails, LogSyncFails, InsertInto
    <3>4. n \in Nat /\ d \in Db
      <4>1. db.last \in Nat
        BY NumberTypes
      <4>2. Len(writing.group) \in Nat
        BY <1>1 DEF Shape, WriterState
      <4>3. n \in Nat
        BY <4>1, <4>2
      <4>4. QED
        BY <3>1, <4>3
    <3> HIDE DEF d, n
    <3>5. db' = RecordBackgroundError(d) => /\ db'.status = d.status /\ db'.l0 = d.l0
                                            /\ db'.l1 = d.l1 /\ db'.error
      BY <3>4, ErrorRecorded
    <3>6. db' = [d EXCEPT !.mem = @ \cup Entries(GroupRecord)] =>
            /\ db'.status = d.status /\ db'.l0 = d.l0 /\ db'.l1 = d.l1 /\ db'.error = d.error
      BY <3>4 DEF Db
    <3> QED
      BY <3>1, <3>3, <3>5, <3>6
  <2>3. bg' = bg
    BY <1>4 DEF LogAppend, LogSync, LogAppendFails, LogSyncFails, InsertInto
  <2> QED
    BY <1>1, <2>1, <2>2, <2>3, StillMirrored, StillOpenable
<1> QED
  BY <1>2, <1>3, <1>4

\* Steps of the background thread that leave the manifest alone.
LEMMA BackgroundOpenable ==
  ASSUME TypeInv, Openable,
         \/ BackgroundStarts \/ MemTableFirst \/ BuildTable \/ MergeTables \/ MergeDone
         \/ BuildTableFails \/ MergeFails
  PROVE  Openable'
<1>1. Shape /\ Mirrored /\ db \in Db /\ disk \in Disk /\ bg \in BgState
  BY DEF TypeInv, Shape, Openable
<1>2. CASE BackgroundStarts \/ MemTableFirst
  <2>1. disk' = disk /\ bg.at \in {"scheduled", "merging", "merged"}
    BY <1>2 DEF BackgroundStarts, MemTableFirst
  <2>2. bg'.at \in {"building", "merging", "none", "scheduled"}
    <3>1. StartDump => bg'.at = "building"
      BY DEF StartDump, NoBackground
    <3>2. StartMerge => bg'.at = "merging"
      BY DEF StartMerge, NoBackground
    <3>3. NothingToDo => bg'.at \in {"none", "scheduled"}
      BY ScheduledIs DEF NothingToDo, BackgroundCallEnds
    <3>4. MemTableFirst => bg'.at = "building"
      BY <1>1 DEF MemTableFirst, BgState
    <3> QED
      BY <1>2, <3>1, <3>2, <3>3, <3>4 DEF BackgroundStarts
  <2>3. db' = db \/ db' = [db EXCEPT !.next = @ + 1]
    BY <1>2, Zenon DEF BackgroundStarts, MemTableFirst, StartDump, StartMerge, NothingToDo
  <2>4. db'.status = db.status /\ db'.l0 = db.l0 /\ db'.l1 = db.l1 /\ db'.error = db.error
    BY <1>1, <2>3 DEF Db
  <2>5. Current' = Current
    BY <2>1 DEF Current
  <2>6. Mirrored'
    BY <1>1, <2>1, <2>2, <2>4, <2>5, StillMirrored
  <2> QED
    BY <2>1, <2>5, <2>6, StillOpenable
<1>3. CASE BuildTable \/ MergeTables \/ MergeDone
  <2>1. /\ db' = db /\ bg.at \in {"building", "merging", "merged"}
        /\ bg'.at \in {"logging", "merged", "mergeLogging"}
    <3>1. BuildTable => db' = db /\ bg.at = "building" /\ bg'.at = "logging"
      <4>1. BuildTable => bg'.at = "logging"
        BY BuildTableTypes
      <4> QED
        BY <4>1, Zenon DEF BuildTable
    <3>2. MergeTables => db' = db /\ bg.at = "merging" /\ bg'.at = "merged"
      BY <1>1 DEF MergeTables, BgState
    <3>3. MergeDone => db' = db /\ bg.at = "merged" /\ bg'.at = "mergeLogging"
      BY <1>1 DEF MergeDone, BgState
    <3> QED
      BY <1>3, <3>1, <3>2, <3>3
  <2>2. \/ disk' = disk
        \/ disk' = [disk EXCEPT !.tables = With(@, bg.table, db.imm)]
        \/ disk' = [disk EXCEPT !.tables = With(@, bg.output, TableEntries(bg.inputs))]
    BY <1>3, Zenon DEF BuildTable, MergeTables, MergeDone
  <2>3. ASSUME NEW k, NEW entries, disk' = [disk EXCEPT !.tables = With(@, k, entries)]
        PROVE  DOMAIN disk.tables \subseteq DOMAIN disk'.tables /\ Current' = Current
    BY <1>1, <2>3 DEF Disk, With, Current
  <2>4. DOMAIN disk.tables \subseteq DOMAIN disk'.tables /\ Current' = Current
    BY <2>2, <2>3 DEF Current
  <2>5. Mirrored'
    BY <1>1, <2>1, <2>4, StillMirrored
  <2> QED
    BY <2>4, <2>5, StillOpenable
<1>4. CASE BuildTableFails \/ MergeFails
  <2>1. disk' = disk /\ db' = RecordBackgroundError(db)
    BY <1>4 DEF BuildTableFails, MergeFails, MemTableFails, MergeEndsBadly
  <2>2. db'.error
    BY <1>1, <2>1, ErrorRecorded
  <2> QED
    BY <2>1, <2>2, StillOpenable DEF Mirrored, Current
<1> QED
  BY <1>2, <1>3, <1>4

\* Steps that append to the manifest, and fail to.
LEMMA EditsOpenable ==
  ASSUME TypeInv, Openable, LogMemTable \/ LogMerge \/ LogMemTableFails \/ LogMergeFails
  PROVE  Openable'
<1>1. /\ Shape /\ Mirrored /\ db \in Db /\ Live /\ bg.edit \in Edit /\ bg \in BgState
      /\ Named(bg.edit) \subseteq DOMAIN disk.tables
  BY OpenWhen DEF LogMemTable, LogMerge, LogMemTableFails, LogMergeFails, TypeInv, Shape,
                  Openable, BgState, Numbers, EditNumbers, MergeEnds
<1>2. /\ ManifestMoves(bg.edit)
      /\ LogEdit(bg.edit) /\ ~db.error => Current' = Applied(Current, bg.edit)
  <2>1. LogEdit(bg.edit) \/ LogEditFails(bg.edit)
    BY DEF LogMemTable, LogMerge, LogMemTableFails, LogMergeFails
  <2> QED
    BY <1>1, <2>1, EditMovesManifest
<1>3. /\ disk'.tables = disk.tables /\ Current \in Manifest
      /\ \/ Current' = Current
         \/ Named(Current') = Named(Current) /\ ~Current'.inStep
         \/ /\ Named(Current') = (Named(Current) \ bg.edit.inputs) \cup Named(bg.edit)
            /\ Current'.inStep = Current.inStep /\ Current'.corrupt = Current.corrupt
  BY <1>1, <1>2, AppliedIs DEF ManifestMoves, OnlyCurrent, SameVersion, Current
<1>4. /\ Named(Current') \subseteq DOMAIN disk'.tables
      /\ Current'.inStep => ~Current'.corrupt
  BY <1>1, <1>3 DEF Openable
<1>5. Mirrored'
  <2>1. CASE LogMemTable \/ LogMerge
    <3>1. /\ db' = db /\ bg'.edit = bg.edit /\ bg'.at \in {"installing", "mergeInstalling"}
          /\ LogEdit(bg.edit) /\ bg.at \in {"logging", "mergeLogging"}
      BY <1>1, <2>1 DEF LogMemTable, LogMerge, BgState
    <3>2. ~db.error => /\ Named(Current') = (Named(Current) \ bg.edit.inputs) \cup Named(bg.edit)
                       /\ Named(Current) = Named(db)
      BY <1>1, <1>2, <1>3, <3>1, AppliedIs DEF Mirrored
    <3> QED
      BY <3>1, <3>2 DEF Mirrored
  <2>2. CASE LogMemTableFails \/ LogMergeFails
    <3>1. db' = RecordBackgroundError(db)
      BY <2>2 DEF LogMemTableFails, LogMergeFails, MemTableFails, MergeEndsBadly
    <3>2. db'.error
      BY <1>1, <3>1, ErrorRecorded
    <3> QED
      BY <3>2 DEF Mirrored
  <2> QED
    BY <2>1, <2>2
<1> QED
  BY <1>4, <1>5 DEF Openable

\* Obsolete files are deleted.
LEMMA DeletionsOpenable ==
  ASSUME TypeInv, Openable, InstallMemTable \/ InstallMerge \/ Opened
  PROVE  Openable'
<1>1. /\ Shape /\ Mirrored /\ db \in Db /\ bg \in BgState /\ bg.edit \in Edit /\ Live
      /\ writing \in WriterState
  BY OpenWhen DEF InstallMemTable, InstallMerge, Opened, TypeInv, Shape, Openable, BgState, Live
<1>2. /\ Named(db') = IF Opened THEN Named(db)
                      ELSE (Named(db) \ bg.edit.inputs) \cup Named(bg.edit)
      /\ db'.error = db.error /\ disk' = DeleteObsoleteFiles(db') /\ db'.manifest = db.manifest
      /\ Opened => bg = NoBackground
      /\ ~Opened => bg.at \in {"installing", "mergeInstalling"}
      /\ bg'.at \notin {"installing", "mergeInstalling"}
  <2> DEFINE d == Installed(db, bg.edit)
  <2>1. CASE Opened
    <3>1. /\ disk' = DeleteObsoleteFiles(db) /\ db' = [db EXCEPT !.status = "open"]
          /\ bg' = Scheduled(db) /\ bg = NoBackground
      BY <2>1, OpeningFacts DEF Opened
    <3>2. /\ db'.l0 = db.l0 /\ db'.l1 = db.l1 /\ db'.error = db.error /\ db'.log = db.log
          /\ db'.manifest = db.manifest
      BY <1>1, <3>1 DEF Db
    <3> QED
      BY <2>1, <3>1, <3>2, ScheduledIs
         DEF DeleteObsoleteFiles, DeletesFiles, ManifestsToKeep, Named
  <2>2. ASSUME InstallMemTable, ~Opened
        PROVE  /\ db' = [d EXCEPT !.imm = {}, !.hasImm = FALSE]
               /\ bg.at = "installing" /\ disk' = DeleteObsoleteFiles(db')
               /\ bg'.at \notin {"installing", "mergeInstalling"}
    BY <1>1, <2>2, ScheduledIs DEF InstallMemTable, CompactMemTableEnds, BackgroundCallEnds,
       ResumeMerge, BgState
  <2>3. ASSUME InstallMerge, ~Opened
        PROVE  /\ db' = d /\ bg.at = "mergeInstalling" /\ disk' = DeleteObsoleteFiles(db')
               /\ bg'.at \notin {"installing", "mergeInstalling"}
    BY <2>3, ScheduledIs DEF InstallMerge, BackgroundCallEnds
  <2>4. /\ d \in Db /\ Named(d) = (Named(db) \ bg.edit.inputs) \cup Named(bg.edit)
        /\ d.error = db.error /\ d.manifest = db.manifest
    BY <1>1, InstalledIs
  <2> HIDE DEF d
  <2>5. ASSUME db' = [d EXCEPT !.imm = {}, !.hasImm = FALSE]
        PROVE  Named(db') = Named(d) /\ db'.error = d.error /\ db'.manifest = d.manifest
    BY <2>4, <2>5 DEF Db, Named
  <2> QED
    BY <2>1, <2>2, <2>3, <2>4, <2>5
<1>3. /\ Named(Current) \subseteq DOMAIN disk.tables /\ (Current.inStep => ~Current.corrupt)
      /\ ~db.error => Named(Current) = Named(db')
  BY <1>1, <1>2 DEF Openable, Mirrored, NoBackground
<1>4. Current' = Current
  <2>1. db'.manifest = disk.current /\ disk.current \in DOMAIN disk.manifests /\ disk.current \in Nat
    BY <1>1, <1>2, LiveFacts, NumberTypes
  <2>2. disk.current >= db'.manifest
    BY <2>1
  <2> QED
    BY <1>1, <1>2, <2>1, <2>2, DeleteDoes DEF Current
<1>5. Named(Current') \subseteq DOMAIN disk'.tables
  BY <1>1, <1>2, <1>3, <1>4, DeleteDoes DEF DeletesFiles
<1> QED
  BY <1>2, <1>3, <1>4, <1>5 DEF Openable, Mirrored

\* DB::Open and the deaths.
LEMMA OpeningsOpenable ==
  ASSUME TypeInv, Openable,
         \/ Recover \/ ReplayLog \/ ReplayLogFails \/ NewLog \/ SaveManifest \/ SetCurrentFile
         \/ OpenFails \/ Kill \/ Crash
  PROVE  Openable'
<1>1. Shape /\ db \in Db /\ disk \in Disk
  BY DEF TypeInv, Shape
<1>2. CASE SetCurrentFile
  <2>1. /\ Current' = NewManifest /\ db.status = "pointing" /\ bg' = bg /\ bg = NoBackground
        /\ db' = [db EXCEPT !.status = "installing"]
        /\ disk' = [disk EXCEPT !.current = db.manifest]
    BY <1>2, SetCurrentFileTypes, OpeningFacts DEF SetCurrentFile
  <2>2. /\ Named(Current') = Named(db) /\ ~Current'.corrupt /\ Named(db') = Named(db)
        /\ disk'.tables = disk.tables
    BY <1>1, <2>1 DEF NewManifest, Named, Db, Disk
  <2>3. Named(db) \subseteq DOMAIN disk.tables
    BY <2>1 DEF TypeInv, Numbers, StartNumbers, Starting
  <2> QED
    BY <2>1, <2>2, <2>3 DEF Openable, Mirrored, NoBackground
<1>3. ASSUME Current' = Current, DOMAIN disk.tables \subseteq DOMAIN disk'.tables, ~Live'
      PROVE  Openable'
  BY <1>3, StillOpenable DEF Mirrored
<1>4. CASE Recover
  <2>1. disk' = disk /\ db'.status \in {"corrupt", "replaying"}
    BY <1>4 DEF Recover, Closed
  <2> QED
    BY <1>3, <2>1 DEF Current, Live
<1>5. CASE ReplayLog \/ ReplayLogFails
  <2>1. /\ disk'.manifests = disk.manifests /\ disk'.current = disk.current
        /\ DOMAIN disk.tables \subseteq DOMAIN disk'.tables /\ db'.status = "replaying"
    BY <1>5, ReplayLogDoes DEF Replayed
  <2> QED
    BY <1>3, <2>1 DEF Current, Live
<1>6. CASE NewLog
  <2>1. /\ disk' = [disk EXCEPT !.logs = With(@, db.next, EmptyLog)]
        /\ db' = [db EXCEPT !.status = "saving", !.logfile = db.next, !.log = db.next,
                            !.next = @ + 1]
    BY <1>6 DEF NewLog
  <2>2. /\ disk'.manifests = disk.manifests /\ disk'.current = disk.current
        /\ disk'.tables = disk.tables /\ db'.status = "saving"
    BY <1>1, <2>1 DEF Disk, Db
  <2> QED
    BY <1>3, <2>2 DEF Current, Live
<1>7. CASE SaveManifest
  <2>1. /\ disk' = [disk EXCEPT !.manifests = With(@, db.manifest, NewManifest)]
        /\ db' = [db EXCEPT !.status = "pointing"] /\ Starting
    BY <1>7 DEF SaveManifest, NewManifest, Starting
  <2>2. /\ disk'.manifests = With(disk.manifests, db.manifest, NewManifest)
        /\ disk'.tables = disk.tables /\ disk'.current = disk.current /\ db'.status = "pointing"
    BY <1>1, <2>1 DEF Disk, Db
  <2>3. disk.current # db.manifest /\ disk.current \in DOMAIN disk.manifests
    BY <2>1, NumberTypes DEF TypeInv, Numbers, StartNumbers, ManifestNumbers
  <2>4. Current' = Current
    BY <2>2, <2>3 DEF With, Current
  <2> QED
    BY <1>3, <2>2, <2>4 DEF Live
<1>8. CASE OpenFails
  <2>1. db'.status = "failed" /\ Current' = Current /\ disk'.tables = disk.tables
    BY <1>8, OpenFailsTypes DEF OpenFails, Closed
  <2> QED
    BY <1>3, <2>1 DEF Live
<1>9. CASE Kill
  <2>1. /\ disk'.tables = disk.tables /\ Named(Current') = Named(Current)
        /\ Current' = Current \/ ~Current'.inStep
        /\ Die
    BY <1>9, KillDoes DEF SameVersion, Current
  <2> QED
    BY <2>1 DEF Die, Closed, Live, Openable, Mirrored
<1>10. CASE Crash
  <2>1. /\ disk'.tables = disk.tables /\ Current' = Current /\ Die
    BY <1>10, CrashDoes DEF Current
  <2> QED
    BY <1>3, <2>1 DEF Die, Closed, Live
<1> QED
  BY <1>2, <1>4, <1>5, <1>6, <1>7, <1>8, <1>9, <1>10

\* Every step.
LEMMA StepOpenable == TypeInv /\ Openable /\ [Next]_vars => Openable'
<1> SUFFICES ASSUME TypeInv, Openable, [Next]_vars PROVE Openable'
  OBVIOUS
<1>1. CASE UNCHANGED vars
  BY <1>1 DEF vars, Openable, Mirrored, Live, Current, Named
<1> QED
  BY <1>1, WritersOpenable, BackgroundOpenable, EditsOpenable, DeletionsOpenable, OpeningsOpenable
     DEF Next, Writing, Background, Opening, Faults

\* DB::Open finds the tables that the manifest names after any death and any failed
\* operation, and a manifest it can read unless an edit failed to be appended to it: a
\* failed append is recorded before another file is deleted.
THEOREM DatabasesOpenAgain == Spec => []OpensAgain
<1>1. Init => Openable
  <2> SUFFICES ASSUME Init PROVE Openable
    OBVIOUS
  <2> DEFINE m == [l0 |-> {}, l1 |-> {}, log |-> 0, next |-> 2, last |-> 0,
                   inStep |-> TRUE, corrupt |-> FALSE]
  <2>1. disk.manifests = [n \in {1} |-> m] /\ disk.current = 1 /\ db = Closed
    BY DEF Init
  <2>2. Current = m /\ m.l0 = {} /\ m.l1 = {} /\ ~m.corrupt
    BY <2>1 DEF Current
  <2> HIDE DEF m
  <2> QED
    BY <2>1, <2>2 DEF Openable, Mirrored, Live, Named, Closed
<1>2. TypeInv /\ Openable => OpensAgain
  BY DEF Openable, OpensAgain, Current, Named, TypeInv, Numbers, ManifestNumbers, LiveNumbers,
         Live, Open
<1> QED
  BY <1>1, <1>2, StepOpenable, NumbersInOrder, PTL DEF Spec

=============================================================================
