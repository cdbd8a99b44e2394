---------------------------- MODULE FirestoreWrites ----------------------------
(***************************************************************************)
(* The write path of the Firestore client below addDocument: SyncEngine,   *)
(* LocalStore with its LevelDB mutation queues, the write side of          *)
(* RemoteStore and WriteStream, against a backend that may commit, refuse  *)
(* or fall silent.  Every action but the backend's is one operation of the *)
(* client's worker queue.                                                  *)
(***************************************************************************)
EXTENDS Integers, Sequences, FiniteSets

CONSTANTS
  Writes,             \* one mutation batch each; addDocument makes one write
  Users,              \* accounts, and the account of nobody
  Waiters,            \* calls of waitForPendingWrites
  Handshake,          \* the first message of a write stream, in both directions
  NoBatch,            \* the worker is not between the halves of an acknowledgement
  kMaxPendingWrites,  \* capacity of the write pipeline (10 in the code)
  MaxFaults,          \* bound: failed or refused requests, lost connections
  MaxChanges,         \* bound: credential changes and launches after a kill
  MaxToggles          \* bound: calls of disableNetwork

ASSUME PipelineAssumption == kMaxPendingWrites \in Nat \ {0}

ASSUME BoundsAssumption == MaxFaults \in Nat /\ MaxChanges \in Nat /\ MaxToggles \in Nat

ASSUME HandshakeAssumption == Handshake \notin Writes

ASSUME BatchAssumption == NoBatch \notin [id : Nat, write : Writes]

VARIABLES
  \* LevelDB
  queue,        \* per user: the mutation batches not acknowledged, by batch id
  savedToken,   \* per user: last_stream_token (0: empty)
  \* SyncEngine and LocalStore
  user,         \* current_user_
  nextId,       \* next_batch_id_
  callbacks,    \* mutation_callbacks_
  waits,        \* pending_writes_callbacks_, by caller
  \* RemoteStore
  enabled,      \* is_network_enabled_
  pipeline,     \* write_pipeline_
  acking,       \* the batch HandleSuccessfulWrite is at, its user notified
  \* WriteStream
  stream,       \* state_, close_count_, GetToken calls, handshake, idle timer, token
  \* the gRPC call and the backend
  wire,         \* requests not handled, responses not delivered, the verdict,
                \* and what abandoned calls still carry to the backend
  log,          \* writes in the order the backend first committed them
  \* history
  issued,       \* per user: writes in the order WriteMutations ran
  answered,     \* what the completion block of each write was called with
  refused,      \* writes the backend refused for good
  left          \* what remains of the bounds

vars == <<queue, savedToken, user, nextId, callbacks, waits, enabled, pipeline,
          acking, stream, wire, log, issued, answered, refused, left>>

Batch == [id : Nat, write : Writes]
State == {"Initial", "Starting", "Open", "Error", "Backoff"}
Result == {"none", "ok", "error"}
Request == [write : Writes \cup {Handshake}, token : Nat]
Response == Writes \cup {Handshake}
Verdict == {"none", "permanent", "aborted", "transient"}
Stream == [state : State, closes : Nat, calls : SUBSET Nat,
           handshake : BOOLEAN, idle : BOOLEAN, token : Nat]
Wire == [no : Nat, requests : Seq(Request), responses : Seq(Response),
         verdict : Verdict, stray : SUBSET Seq(Response)]
Wait == [result : {"none", "waiting", "ok", "cancelled"}, id : Nat,
         writes : SUBSET Writes]

TypeOK ==
  /\ queue \in [Users -> Seq(Batch)]
  /\ savedToken \in [Users -> Nat]
  /\ user \in Users
  /\ nextId \in Nat
  /\ callbacks \in [Users -> SUBSET Batch]
  /\ waits \in [Waiters -> Wait]
  /\ enabled \in BOOLEAN
  /\ pipeline \in Seq(Batch)
  /\ acking \in Batch \cup {NoBatch}
  /\ stream \in Stream
  /\ wire \in Wire
  /\ log \in Seq(Writes)
  /\ issued \in [Users -> Seq(Writes)]
  /\ answered \in [Writes -> Result]
  /\ refused \subseteq Writes
  /\ left \in [faults : Nat, changes : Nat, toggles : Nat]

-----------------------------------------------------------------------------
(* LevelDbMutationQueue: rows of one user ordered by batch id.             *)

\* An iterator's Seek: how many rows have an id up to the one given.
RowsUpTo(q, id) == Cardinality({i \in DOMAIN q : q[i].id <= id})

RemoveMutationBatch(q, id) ==
  LET n == RowsUpTo(q, id) IN SubSeq(q, 1, n-1) \o SubSeq(q, n+1, Len(q))

Ids(q) == {q[i].id : i \in DOMAIN q}

GetHighestUnacknowledgedBatchId == queue[user][Len(queue[user])].id

\* Mutant: a queue that is opened numbers its batches from one.
FirstBatchId == 1

\* The highest id any user's queue holds, plus one.
LoadNextBatchIdFromDb ==
  LET ids == {0} \cup UNION {Ids(queue[u]) : u \in Users} IN
  1 + CHOOSE n \in ids : \A id \in ids : id <= n

-----------------------------------------------------------------------------
(* Stream: pure steps of its state machine.                                *)

IsStarted(s) == s.state \in {"Starting", "Open", "Backoff"}

RequestCredentials(s) == [s EXCEPT !.calls = @ \cup {s.closes}]

\* Mutant: a stream in error is not started again.
StartInitialOnly(s) ==
  IF s.state = "Error" THEN s ELSE RequestCredentials([s EXCEPT !.state = "Starting"])

Start(s) ==
  IF s.state = "Error" THEN [s EXCEPT !.state = "Backoff"]
  ELSE RequestCredentials([s EXCEPT !.state = "Starting"])

\* Mutant: the idle timer survives.
CloseKeepingIdle(s, state) ==
  [s EXCEPT !.state = state, !.closes = @ + 1, !.handshake = FALSE]

\* Close: both kinds leave no timer and invalidate the GetToken calls.
Close(s, state) ==
  [s EXCEPT !.state = state, !.closes = @ + 1, !.idle = FALSE, !.handshake = FALSE]

\* A graceful stop of a stream that is not started returns early.
Stop(s) == IF IsStarted(s) THEN Close(s, "Initial") ELSE s

InhibitBackoff(s) == [s EXCEPT !.state = "Initial"]

-----------------------------------------------------------------------------
(* RemoteStore: the pipeline.                                              *)

\* Mutant: the search for the next batch starts one id too far.
FilledFromNext(pipe, q) ==
  LET last == IF pipe = <<>> THEN -1 ELSE pipe[Len(pipe)].id
      from == RowsUpTo(q, last + 1)
      room == kMaxPendingWrites - Len(pipe)
      to   == IF from + room < Len(q) THEN from + room ELSE Len(q)
  IN  pipe \o SubSeq(q, from + 1, to)

\* FillWritePipeline's loop: the batches after the last one retrieved.
Filled(pipe, q) ==
  LET last == IF pipe = <<>> THEN -1 ELSE pipe[Len(pipe)].id
      from == RowsUpTo(q, last)
      room == kMaxPendingWrites - Len(pipe)
      to   == IF from + room < Len(q) THEN from + room ELSE Len(q)
  IN  pipe \o SubSeq(q, from + 1, to)

\* The writes of batches or of requests.
Writing(s) == [i \in DOMAIN s |-> s[i].write]

RequestsFor(batches, token) ==
  [i \in DOMAIN batches |-> [write |-> batches[i].write, token |-> token]]

\* The connection after WriteMutations for each of the batches.
Sent(w, batches, token) ==
  [w EXCEPT !.requests = @ \o RequestsFor(batches, token)]

\* Mutant: an open stream may send before its handshake is complete.
CanSendWhenOpen(s) == s.state = "Open"

CanSend(s) == s.state = "Open" /\ s.handshake

\* The whole of FillWritePipeline with a stream in state s, a pipeline, a
\* queue and a connection: add, send what an open stream may send, mark an
\* idle stream, start one that is needed.
FillWritePipeline(on, s, pipe, q, w) ==
  LET p    == IF on THEN Filled(pipe, q) ELSE pipe
      new  == SubSeq(p, Len(pipe) + 1, Len(p))
      live == CanSend(s) /\ new # <<>>
      idle == (s.idle \/ (on /\ p = <<>> /\ s.state = "Open")) /\ ~live
      kept == [s EXCEPT !.idle = idle]
  IN  /\ pipeline' = p
      /\ wire' = IF live THEN Sent(w, new, s.token) ELSE w
      /\ stream' = IF on /\ p # <<>> /\ ~IsStarted(s) THEN Start(kept) ELSE kept

\* The gRPC call is gone.  What it had accepted may still reach the backend,
\* unless the backend had ended it; what the backend sent is lost.
Abandoned ==
  IF wire.verdict = "none" /\ stream.handshake /\ wire.requests # <<>>
  THEN {Writing(wire.requests)} ELSE {}

Hung == [wire EXCEPT !.requests = <<>>, !.responses = <<>>, !.verdict = "none",
                     !.stray = @ \cup Abandoned]

WireAfterStop == IF IsStarted(stream) THEN Hung ELSE wire

-----------------------------------------------------------------------------
(* SyncEngine: who is told.                                                *)

\* Mutant: the callback stays in the map.
NotifyUserKeeping(id, result) ==
  /\ answered' = [w \in Writes |->
       IF \E c \in callbacks[user] : c.id = id /\ c.write = w THEN result ELSE answered[w]]
  /\ UNCHANGED callbacks

NotifyUser(id, result) ==
  LET found == {c \in callbacks[user] : c.id = id} IN
  /\ answered' = [w \in Writes |-> IF \E c \in found : c.write = w
                                   THEN result ELSE answered[w]]
  /\ callbacks' = [callbacks EXCEPT ![user] = @ \ found]

\* Mutant: every waiter is told.
TriggerAll(id) ==
  waits' = [x \in Waiters |-> IF waits[x].result = "waiting"
                              THEN [waits[x] EXCEPT !.result = "ok"] ELSE waits[x]]

TriggerPendingWriteCallbacks(id) ==
  waits' = [x \in Waiters |-> IF waits[x].result = "waiting" /\ waits[x].id = id
                              THEN [waits[x] EXCEPT !.result = "ok"] ELSE waits[x]]

FailOutstandingPendingWriteCallbacks ==
  waits' = [x \in Waiters |-> IF waits[x].result = "waiting"
                              THEN [waits[x] EXCEPT !.result = "cancelled"] ELSE waits[x]]

QueuedWrites(u) == {queue[u][i].write : i \in DOMAIN queue[u]}

Issued(w) == \E u \in Users : \E i \in DOMAIN issued[u] : issued[u][i] = w

-----------------------------------------------------------------------------
(* The operations of the worker queue.  None runs inside another: acking   *)
(* marks the one operation that is split, where a kill can fall.           *)

Free == acking = NoBatch

\* SyncEngine::WriteMutations, called by addDocument.
WriteMutations(w) ==
  /\ Free /\ ~Issued(w)
  /\ LET batch == [id |-> nextId, write |-> w]
         q     == Append(queue[user], batch)
     IN  /\ queue' = [queue EXCEPT ![user] = q]
         /\ callbacks' = [callbacks EXCEPT ![user] =
              IF \E c \in @ : c.id = nextId THEN @ ELSE @ \cup {batch}]
         /\ FillWritePipeline(enabled, stream, pipeline, q, wire)
  /\ nextId' = nextId + 1
  /\ issued' = [issued EXCEPT ![user] = Append(@, w)]
  /\ UNCHANGED <<savedToken, user, waits, enabled, acking, log, answered,
                 refused, left>>

\* SyncEngine::RegisterPendingWritesCallback.
WaitForPendingWrites(x) ==
  /\ Free /\ waits[x].result = "none"
  /\ LET q == queue[user] IN
     waits' = [waits EXCEPT ![x] =
       IF q = <<>> THEN [@ EXCEPT !.result = "ok"]
       ELSE [result |-> "waiting", id |-> GetHighestUnacknowledgedBatchId,
             writes |-> QueuedWrites(user)]]
  /\ UNCHANGED <<queue, savedToken, user, nextId, callbacks, enabled, pipeline,
                 acking, stream, wire, log, issued, answered, refused, left>>

\* SyncEngine::HandleCredentialChange, the user changed or only the token.
HandleCredentialChange(u) ==
  /\ Free /\ left.changes > 0
  /\ user' = u
  /\ IF u = user THEN UNCHANGED <<waits, nextId>>
     ELSE /\ FailOutstandingPendingWriteCallbacks
          /\ nextId' = LoadNextBatchIdFromDb
  /\ IF enabled
     THEN FillWritePipeline(TRUE, [Stop(stream) EXCEPT !.token = savedToken[u]],
                            <<>>, queue[u], WireAfterStop)
     ELSE UNCHANGED <<pipeline, stream, wire>>
  /\ left' = [left EXCEPT !.changes = @ - 1]
  /\ UNCHANGED <<queue, savedToken, callbacks, enabled, acking, log, issued,
                 answered, refused>>

\* RemoteStore::DisableNetwork.
DisableNetwork ==
  /\ Free /\ left.toggles > 0
  /\ enabled' = FALSE
  /\ pipeline' = <<>>
  /\ stream' = Stop(stream)
  /\ wire' = WireAfterStop
  /\ left' = [left EXCEPT !.toggles = @ - 1]
  /\ UNCHANGED <<queue, savedToken, user, nextId, callbacks, waits, acking, log,
                 issued, answered, refused>>

\* RemoteStore::EnableNetwork, also when the network is enabled.
EnableNetwork ==
  /\ Free
  /\ enabled' = TRUE
  /\ FillWritePipeline(TRUE, [stream EXCEPT !.token = savedToken[user]],
                       pipeline, queue[user], wire)
  /\ UNCHANGED <<queue, savedToken, user, nextId, callbacks, waits, acking, log,
                 issued, answered, refused, left>>

-----------------------------------------------------------------------------
(* The stream's timers, its GetToken callback and its messages.            *)

\* The errors that end a handshake's stream token.
IsPermanentError(status) == status \in {"permanent", "aborted"}

\* The errors that end a write: a permanent one that is not Aborted.
IsPermanentWriteError(status) == status = "permanent"

\* Stream::Close with an error, its listener OnWriteStreamClose included:
\* HandleWriteError or HandleHandshakeError, then a restart if writes wait.
CloseWithError(status, s) ==
  LET rejected == s.handshake /\ IsPermanentWriteError(status) /\ pipeline # <<>>
      reset    == ~s.handshake /\ IsPermanentError(status) /\ pipeline # <<>>
      batch    == Head(pipeline)
      q        == RemoveMutationBatch(queue[user], batch.id)
      closed   == Close(s, "Error")
  IN  IF rejected
      THEN /\ queue' = [queue EXCEPT ![user] = q]
           /\ NotifyUser(batch.id, "error")
           /\ TriggerPendingWriteCallbacks(batch.id)
           /\ FillWritePipeline(enabled, InhibitBackoff(closed), Tail(pipeline), q, Hung)
           /\ UNCHANGED savedToken
      ELSE /\ savedToken' = IF reset THEN [savedToken EXCEPT ![user] = 0] ELSE savedToken
           /\ LET ended == IF reset THEN [closed EXCEPT !.token = 0] ELSE closed IN
              stream' = IF enabled /\ pipeline # <<>> THEN Start(ended) ELSE ended
           /\ wire' = Hung
           /\ UNCHANGED <<queue, callbacks, waits, pipeline, answered>>

\* The idle timer, one minute after FillWritePipeline found nothing to send.
\* OnWriteStreamClose asserts that no write needs the stream.
IdleTimeout ==
  /\ Free /\ stream.idle
  /\ LET s == Stop(stream) IN
     stream' = IF enabled /\ pipeline # <<>> /\ ~IsStarted(s) THEN Start(s) ELSE s
  /\ wire' = WireAfterStop
  /\ UNCHANGED <<queue, savedToken, user, nextId, callbacks, waits, enabled,
                 pipeline, acking, log, issued, answered, refused, left>>

\* The timer of BackoffAndTryRestarting.
BackoffElapsed ==
  /\ Free /\ stream.state = "Backoff"
  /\ stream' = Start([stream EXCEPT !.state = "Initial"])
  /\ UNCHANGED <<queue, savedToken, user, nextId, callbacks, waits, enabled,
                 pipeline, acking, wire, log, issued, answered, refused, left>>

\* Mutant: the count of closes is not compared.
CountsAlways(c) == TRUE

\* A GetToken callback counts only while nothing closed the stream since.
CountsFor(c) == c = stream.closes

\* ResumeStartWithCredentials with a token: the call starts, OnStreamStart
\* opens the stream, OnWriteStreamOpen writes the handshake.
TokenReceived(c) ==
  /\ Free /\ c \in stream.calls
  /\ LET s == [stream EXCEPT !.calls = @ \ {c}] IN
     IF CountsFor(c)
     THEN /\ stream' = [s EXCEPT !.state = "Open", !.idle = FALSE]
          /\ wire' = [wire EXCEPT !.no = @ + 1, !.verdict = "none", !.responses = <<>>,
                                   !.requests = <<[write |-> Handshake, token |-> 0]>>]
     ELSE stream' = s /\ UNCHANGED wire
  /\ UNCHANGED <<queue, savedToken, user, nextId, callbacks, waits, enabled,
                 pipeline, acking, log, issued, answered, refused, left>>

\* ResumeStartWithCredentials with an error: offline, or the token changed.
TokenRefused(c, status) ==
  /\ Free /\ left.faults > 0 /\ c \in stream.calls /\ CountsFor(c)
  /\ CloseWithError(status, [stream EXCEPT !.calls = @ \ {c}])
  /\ left' = [left EXCEPT !.faults = @ - 1]
  /\ UNCHANGED <<user, nextId, enabled, acking, log, issued, refused>>

\* Mutant: the token of the handshake is not recorded.
LeaveLastStreamToken == savedToken

SetLastStreamToken == [savedToken EXCEPT ![user] = wire.no]

\* The first response: OnWriteStreamHandshakeComplete sends the pipeline.
HandshakeComplete ==
  /\ Free /\ wire.responses # <<>> /\ ~stream.handshake
  /\ stream' = [stream EXCEPT !.token = wire.no, !.handshake = TRUE,
                              !.idle = @ /\ pipeline = <<>>]
  /\ savedToken' = SetLastStreamToken
  /\ wire' = Sent([wire EXCEPT !.responses = Tail(@)], pipeline, wire.no)
  /\ UNCHANGED <<queue, user, nextId, callbacks, waits, enabled, pipeline, acking,
                 log, issued, answered, refused, left>>

\* Every other response: the first write of the pipeline is done.  The user
\* is notified first ...
MutationResult ==
  /\ Free /\ wire.responses # <<>> /\ stream.handshake
  /\ LET batch == Head(pipeline) IN
     /\ acking' = batch
     /\ NotifyUser(batch.id, "ok")
     /\ TriggerPendingWriteCallbacks(batch.id)
  /\ pipeline' = Tail(pipeline)
  /\ stream' = [stream EXCEPT !.token = wire.no]
  /\ wire' = [wire EXCEPT !.responses = Tail(@)]
  /\ UNCHANGED <<queue, savedToken, user, nextId, enabled, log, issued, refused, left>>

\* ... and then the store: LocalStore::AcknowledgeBatch and the refill.
AcknowledgeBatch ==
  /\ acking # NoBatch
  /\ LET q == RemoveMutationBatch(queue[user], acking.id) IN
     /\ queue' = [queue EXCEPT ![user] = q]
     /\ FillWritePipeline(enabled, stream, pipeline, q, wire)
  /\ savedToken' = [savedToken EXCEPT ![user] = stream.token]
  /\ acking' = NoBatch
  /\ UNCHANGED <<user, nextId, callbacks, waits, enabled, log, issued, answered,
                 refused, left>>

\* Stream::OnStreamFinish: the backend's verdict, or a lost connection.  What
\* the call had not delivered is dropped (GrpcStream).
StreamFinished(status) ==
  /\ Free /\ stream.state = "Open"
  /\ IF wire.verdict = "none" THEN status = "transient" /\ left.faults > 0
     ELSE status = wire.verdict
  /\ CloseWithError(status, stream)
  /\ left' = IF wire.verdict = "none" THEN [left EXCEPT !.faults = @ - 1] ELSE left
  /\ UNCHANGED <<user, nextId, enabled, acking, log, issued, refused>>

-----------------------------------------------------------------------------
(* The backend handles the requests of one stream in order.                *)

Serving == wire.requests # <<>> /\ wire.verdict = "none"

Committed == {log[i] : i \in DOMAIN log}

Commit(w) == log' = IF w \in Committed \cup {Handshake} THEN log ELSE Append(log, w)

BackendAnswers ==
  /\ Serving
  /\ Commit(wire.requests[1].write)
  /\ wire' = [wire EXCEPT !.requests = Tail(@),
                          !.responses = Append(@, wire.requests[1].write)]
  /\ UNCHANGED <<queue, savedToken, user, nextId, callbacks, waits, enabled,
                 pipeline, acking, stream, issued, answered, refused, left>>

\* It refuses a request and ends the stream with that status.
BackendRefuses(status) ==
  /\ Serving /\ left.faults > 0
  /\ wire' = [wire EXCEPT !.verdict = status]
  /\ refused' = IF status = "permanent"
                THEN refused \cup ({wire.requests[1].write} \ {Handshake}) ELSE refused
  /\ left' = [left EXCEPT !.faults = @ - 1]
  /\ UNCHANGED <<queue, savedToken, user, nextId, callbacks, waits, enabled,
                 pipeline, acking, stream, log, issued, answered>>

\* It commits a request of a call the client has abandoned.
BackendCommitsStray(s) ==
  /\ Commit(Head(s))
  /\ wire' = [wire EXCEPT !.stray = (@ \ {s}) \cup ({Tail(s)} \ {<<>>})]
  /\ UNCHANGED <<queue, savedToken, user, nextId, callbacks, waits, enabled,
                 pipeline, acking, stream, issued, answered, refused, left>>

-----------------------------------------------------------------------------
(* Launch and kill.                                                        *)

\* FirestoreClient::Initialize for a user: LocalStore::Start, RemoteStore::Start.
Launch(u) ==
  /\ user' = u
  /\ nextId' = LoadNextBatchIdFromDb
  /\ callbacks' = [v \in Users |-> {}]
  /\ enabled' = TRUE
  /\ acking' = NoBatch
  /\ FillWritePipeline(TRUE,
       [state |-> "Initial", closes |-> 0, calls |-> {}, handshake |-> FALSE,
        idle |-> FALSE, token |-> savedToken[u]],
       <<>>, queue[u], Hung)

Init ==
  /\ queue = [u \in Users |-> <<>>]
  /\ savedToken = [u \in Users |-> 0]
  /\ user \in Users
  /\ nextId = 1
  /\ callbacks = [u \in Users |-> {}]
  /\ waits = [x \in Waiters |-> [result |-> "none", id |-> 0, writes |-> {}]]
  /\ enabled = TRUE
  /\ pipeline = <<>>
  /\ acking = NoBatch
  /\ stream = [state |-> "Initial", closes |-> 0, calls |-> {}, handshake |-> FALSE,
               idle |-> FALSE, token |-> 0]
  /\ wire = [no |-> 0, requests |-> <<>>, responses |-> <<>>, verdict |-> "none",
              stray |-> {}]
  /\ log = <<>>
  /\ issued = [u \in Users |-> <<>>]
  /\ answered = [w \in Writes |-> "none"]
  /\ refused = {}
  /\ left = [faults |-> MaxFaults, changes |-> MaxChanges, toggles |-> MaxToggles]

\* The process dies at any moment and the app is launched again.
KillAndLaunch(u) ==
  /\ left.changes > 0
  /\ Launch(u)
  /\ waits' = [x \in Waiters |-> IF waits[x].result = "waiting"
                                 THEN [waits[x] EXCEPT !.result = "cancelled"] ELSE waits[x]]
  /\ left' = [left EXCEPT !.changes = @ - 1]
  /\ UNCHANGED <<queue, savedToken, log, issued, answered, refused>>

Next ==
  \/ \E w \in Writes : WriteMutations(w)
  \/ \E x \in Waiters : WaitForPendingWrites(x)
  \/ \E u \in Users : HandleCredentialChange(u) \/ KillAndLaunch(u)
  \/ DisableNetwork \/ EnableNetwork
  \/ IdleTimeout \/ BackoffElapsed
  \/ \E c \in stream.calls : TokenReceived(c)
  \/ \E c \in stream.calls, status \in {"aborted", "transient"} : TokenRefused(c, status)
  \/ HandshakeComplete \/ MutationResult \/ AcknowledgeBatch
  \/ \E status \in Verdict \ {"none"} : StreamFinished(status)
  \/ BackendAnswers
  \/ \E status \in {"permanent", "aborted"} : BackendRefuses(status)
  \/ \E s \in wire.stray : BackendCommitsStray(s)

Fairness ==
  /\ WF_vars(BackoffElapsed)
  /\ WF_vars(\E c \in stream.calls : TokenReceived(c))
  /\ WF_vars(HandshakeComplete)
  /\ WF_vars(MutationResult)
  /\ WF_vars(AcknowledgeBatch)
  /\ WF_vars(wire.verdict # "none" /\ \E status \in Verdict : StreamFinished(status))
  /\ WF_vars(BackendAnswers)

Spec == Init /\ [][Next]_vars

FairSpec == Spec /\ Fairness

-----------------------------------------------------------------------------
(* Properties.                                                             *)

\* The batch being acknowledged, which is still in the store, and the pipeline.
Outstanding == IF acking = NoBatch THEN pipeline ELSE <<acking>> \o pipeline

\* The pipeline is the head of the current user's queue, in its order and without
\* a gap, whatever user changes, rejections, restarts and refills came before;
\* with the network disabled it is empty (FillWritePipeline, DisableNetworkInternal).
PipelineIsPrefix ==
  /\ enabled \/ pipeline = <<>>
  /\ Len(Outstanding) <= Len(queue[user])
  /\ Outstanding = SubSeq(queue[user], 1, Len(Outstanding))

\* The client takes a response to be about the first write of its pipeline, which
\* nothing in the message says: what a stream past its handshake still has to
\* answer, in order, is exactly the pipeline (OnWriteStreamMutationResult).
ResponsesInOrder ==
  stream.state = "Open" /\ stream.handshake =>
    Writing(pipeline) = wire.responses \o Writing(wire.requests)

\* A write whose completion block was called without an error is committed.
OkMeansCommitted == \A w \in Writes : answered[w] = "ok" => w \in Committed

\* No completion block is left behind: each belongs to a batch still in its user's
\* queue, so that the acknowledgement or rejection of it will call the block.  Batch
\* ids are the keys of both and start afresh at a launch and at a user change.
CallbacksAreQueued ==
  \A u \in Users : \A c \in callbacks[u] : \E i \in DOMAIN queue[u] : queue[u][i] = c

\* waitForPendingWrites succeeds only when every write that was pending at the call
\* has left the queue, that is, was committed or given up.
WaitersHold ==
  \A x \in Waiters : waits[x].result = "ok" =>
    \A w \in waits[x].writes : w \in Committed \cup refused

\* A write that was issued is never lost: it is in its user's queue until the
\* backend has committed it or refused it for good, through kills, user changes
\* and errors that are not permanent.
NothingLost ==
  \A u \in Users : \A i \in DOMAIN issued[u] :
    issued[u][i] \in QueuedWrites(u) \cup Committed \cup refused

\* Writes of one user reach the backend in the order they were issued: when a
\* later one is committed, each earlier one was committed before it or refused.
CommittedInOrder ==
  \A u \in Users : \A j \in DOMAIN issued[u] : \A i \in 1..j-1 :
    LET first == issued[u][i]
        later == issued[u][j]
    IN  \A n \in DOMAIN log : log[n] = later =>
          first \in refused \/ \E k \in 1..n : log[k] = first

\* A write request carries the token its own stream was given at the handshake,
\* never one of an earlier stream or of another user, though the token is read
\* back from the user's queue at every launch, enabling and user change.
TokenOfStream ==
  \A i \in DOMAIN wire.requests :
    wire.requests[i].write # Handshake => wire.requests[i].token = wire.no

\* What the HARD_ASSERTs of stream.cc, remote_store.cc and local_store.cc demand: a
\* token is awaited exactly in Starting, messages arrive only on an open stream, a
\* result finds a pipeline, an idle stream has nothing to send, a stream runs
\* only with the network enabled and whenever there is a pipeline.
AssertsHold ==
  /\ stream.state = "Starting" <=> stream.closes \in stream.calls
  /\ wire.responses # <<>> \/ wire.verdict # "none" => stream.state = "Open"
  /\ wire.responses # <<>> /\ stream.handshake => pipeline # <<>>
  /\ stream.idle => stream.state = "Open" /\ pipeline = <<>>
  /\ IsStarted(stream) => enabled
  /\ enabled /\ pipeline # <<>> => IsStarted(stream)

\* The caller of a write sees an abstract answer: none twice, none lost.
Outcome(w) ==
  IF answered[w] # "none" THEN answered[w]
  ELSE IF ~Issued(w) THEN "unissued"
  ELSE IF \E u \in Users : \E c \in callbacks[u] : c.write = w
  THEN "outstanding" ELSE "forgotten"

Answers == INSTANCE WriteAnswers WITH status <- [w \in Writes |-> Outcome(w)]

\* Every completion block is called at most once, whatever the order of answers,
\* errors and user changes, and only the death of the process forgets one.
AnswersSpec == Answers!Spec

\* Unless the network stays disabled, everything the current user wrote is sent and
\* answered, through backoff, resent requests and stale callbacks, and every call
\* of waitForPendingWrites returns.
Drains ==
  <>[](enabled => /\ queue[user] = <<>>
                  /\ \A x \in Waiters : waits[x].result # "waiting")

\* HandleWriteError: on a permanent error "the request itself was the problem".  The
\* request it gives up is the first of the pipeline; when the acknowledgements
\* before the refusal were dropped, that one is committed and another refused.
RejectedWasRefused == \A w \in Writes : answered[w] = "error" => w \in refused

=============================================================================
