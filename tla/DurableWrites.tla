----------------------------- MODULE DurableWrites -----------------------------
(***************************************************************************)
(* What LevelDB promises the callers of DB::Write: the writes of a batch   *)
(* group become durable at once and stay together, a write is answered     *)
(* with success only when it is durable, and stays.  The death of the      *)
(* process takes nothing away.  That of the machine takes groups that are  *)
(* only in a log, unless one of their writes asked for sync and was        *)
(* answered.                                                               *)
(***************************************************************************)
EXTENDS Naturals

CONSTANTS Writes, Synced

VARIABLES
  stored,    \* the writes in tables
  logged,    \* the batch groups that are in a log
  answered,  \* what the caller of each write has seen
  crashes    \* deaths of the machine

vars == <<stored, logged, answered, crashes>>

Init ==
  /\ stored = {}
  /\ logged = {}
  /\ answered = [w \in Writes |-> "none"]
  /\ crashes = 0

\* The writes that the next DB::Open brings back.
Kept == stored \cup UNION logged

Pending == {w \in Writes : answered[w] = "none"}

Answers(S, result) == [w \in Writes |-> IF w \in S THEN result ELSE answered[w]]

\* A group of writes that are pending, and not durable yet, becomes durable.
Log(group) ==
  /\ group \subseteq Pending \ Kept
  /\ logged' = logged \cup {group}
  /\ UNCHANGED <<stored, answered, crashes>>

\* Whole groups are moved from the logs to tables.  A log with nothing in it but
\* stored groups may stay, or be replayed again.
Dump(groups) ==
  /\ stored' = stored \cup UNION groups
  /\ logged \ groups \subseteq logged'
  /\ \A group \in logged' \ logged : group \subseteq stored'
  /\ UNCHANGED <<answered, crashes>>

Answer(S, result) ==
  /\ result = "ok" => S \subseteq Kept
  /\ answered' = Answers(S, result)
  /\ UNCHANGED <<stored, logged, crashes>>

\* The process dies while the writes of S are pending.
ProcessDies(S) ==
  /\ answered' = Answers(S, "died")
  /\ UNCHANGED <<stored, logged, crashes>>

\* The machine dies.
MachineDies(S) ==
  /\ answered' = Answers(S, "died")
  /\ logged' \subseteq logged
  /\ \A w \in Synced : answered[w] = "ok" => w \in Kept'
  /\ crashes' = crashes + 1
  /\ UNCHANGED stored

Next ==
  \/ \E group \in SUBSET Writes : Log(group)
  \/ \E groups \in SUBSET logged : Dump(groups)
  \/ \E S \in SUBSET Pending :
       \/ Answer(S, "ok") \/ Answer(S, "error")
       \/ ProcessDies(S) \/ MachineDies(S)

Spec == Init /\ [][Next]_vars

=============================================================================
