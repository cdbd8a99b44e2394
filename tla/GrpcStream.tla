------------------------------ MODULE GrpcStream ------------------------------
(***************************************************************************)
(* GrpcStream and GrpcCompletion: one bidirectional gRPC call, driven from *)
(* Firestore's worker queue, whose operations come back as completions     *)
(* through a polling thread.  The worker blocks while it finishes a call.  *)
(* gRPC and the server are the environment; so is the Stream above, which  *)
(* destroys the object as soon as it is finished.                          *)
(***************************************************************************)
EXTENDS Integers, Sequences, FiniteSets

CONSTANTS
  MaxSent,     \* bound: messages of the server
  MaxWritten   \* bound: messages of the client

ASSUME BoundsAssumption == MaxSent \in Nat /\ MaxWritten \in Nat \ {0}

VARIABLES
  stream,     \* the GrpcStream, with the operations it has at gRPC
  task,       \* what the worker is blocked in, and what it is about
  queue,      \* completions on the worker queue
  poller,     \* the completion PollGrpcQueue is handing over, if any
  cancelled,  \* TryCancel was called on the context
  ended,      \* the server or the transport has ended the call
  inbox,      \* messages that have come and were not read
  sent,       \* history: messages of the server,
  delivered,  \* those the observer has got,
  written,    \* messages of the client,
  accepted,   \* those gRPC has taken,
  notified,   \* what OnStreamFinish was called with,
  finishes    \* how often the call was finished

vars == <<stream, task, queue, poller, cancelled, ended, inbox, sent, delivered,
          written, accepted, notified, finishes>>

Type == {"read", "write", "finish"}

\* callback: what a completion that succeeds does, nothing for a last write and
\* for the finish of a shutdown.
Op == [tag : Nat, type : Type, callback : BOOLEAN, message : Nat]
Completion == [tag : Nat, type : Type, callback : BOOLEAN, message : Nat, ok : BOOLEAN]

Stream == [phase : {"created", "started", "destroyed"},
           observer : BOOLEAN,          \* observer_
           finished : BOOLEAN,          \* is_grpc_call_finished_
           buffered : Seq(Nat),         \* BufferedWriter::queue_
           active : BOOLEAN,            \* has_active_write_
           completions : SUBSET Nat,    \* completions_
           armed : SUBSET Nat,          \* completions that are not cancelled
           tags : Nat,                  \* completions created so far
           ops : SUBSET Op]             \* completions gRPC has not returned

\* failing and finishing: FinishGrpcCall waits for the completions; draining: so
\* does Shutdown; lastWrite: TryLastWrite waits for its own.
Task == [at : {"idle", "failing", "finishing", "draining", "lastWrite"},
         about : {"call", "connectivity", "stop"}]

Idle == [at |-> "idle", about |-> "stop"]

TypeOK ==
  /\ stream \in Stream
  /\ task \in Task
  /\ queue \in Seq(Completion)
  /\ poller \in SUBSET Completion /\ Cardinality(poller) <= 1
  /\ cancelled \in BOOLEAN /\ ended \in BOOLEAN
  /\ inbox \in Seq(Nat) /\ sent \in Seq(Nat) /\ delivered \in Seq(Nat)
  /\ written \in Seq(Nat) /\ accepted \in Seq(Nat)
  /\ notified \in Seq({"call", "connectivity"})
  /\ finishes \in Nat

-----------------------------------------------------------------------------
(* GrpcStream's own steps, as functions of the object.                     *)

NewCompletion(g, type, callback, message) ==
  [g EXCEPT !.completions = @ \cup {g.tags}, !.armed = @ \cup {g.tags},
            !.tags = @ + 1,
            !.ops = @ \cup {[tag |-> g.tags, type |-> type, callback |-> callback,
                             message |-> message]}]

\* Mutant: the next read is issued only when the call is known to be good.
ReadOnce(g) == IF g.observer /\ g.tags = 0 THEN NewCompletion(g, "read", TRUE, 0) ELSE g

Read(g) == IF g.observer THEN NewCompletion(g, "read", TRUE, 0) ELSE g

\* Mutant: a write does not wait for the one before.
StartWrite(g, callback) ==
  IF g.buffered = <<>> THEN g
  ELSE NewCompletion([g EXCEPT !.active = TRUE, !.buffered = Tail(@)],
                     "write", callback, Head(g.buffered))

\* BufferedWriter::TryStartWrite, and the operation it makes.
TryStartWrite(g, callback) ==
  IF g.buffered = <<>> \/ g.active THEN g
  ELSE NewCompletion([g EXCEPT !.active = TRUE, !.buffered = Tail(@)],
                     "write", callback, Head(g.buffered))

Write(g, message) == TryStartWrite([g EXCEPT !.buffered = Append(@, message)], TRUE)

\* Mutant: the last write overtakes those that are buffered.
LastWriteAhead(g, message) ==
  NewCompletion([g EXCEPT !.active = TRUE], "write", FALSE, message)

\* TryLastWrite: the write starts only if no other is active.
LastWrite(g, message) == TryStartWrite([g EXCEPT !.buffered = Append(@, message)], FALSE)

\* Mutant: the write that is done stays the active one.
NextWriteBlocked(g) == IF g.observer THEN TryStartWrite(g, TRUE) ELSE g

\* OnWrite: DequeueNextWrite.
NextWrite(g) ==
  IF g.observer THEN TryStartWrite([g EXCEPT !.active = FALSE], TRUE) ELSE g

\* Mutant: completions that are on the worker queue already are left alone.
CancelAtGrpc(g) == [g EXCEPT !.armed = @ \ {o.tag : o \in g.ops}]

\* FastFinishCompletionsBlocking: first every completion becomes a no-op, then ...
CancelCompletions(g) == [g EXCEPT !.armed = @ \ g.completions]

\* Mutant: the wait is left out.
NoWait(g) == TRUE

\* ... the worker waits until gRPC has returned them all.
OffQueue(g) == \A o \in g.ops : o.tag \notin g.completions

\* Mutant: the context is not cancelled.
LeaveContext(g) == cancelled

TryCancel(g) == TRUE

\* Shutdown: a call that was started and not finished is cancelled and finished.
ShouldFinish(g) == g.completions # {} /\ ~g.finished

-----------------------------------------------------------------------------
(* Blocking operations of the worker.                                      *)

WorkerFree == task.at = "idle"

\* FinishGrpcCall up to its wait.
FinishGrpcCall(g, at, about) ==
  /\ stream' = [CancelCompletions(g) EXCEPT !.finished = TRUE]
  /\ task' = [at |-> at, about |-> about]

\* Shutdown up to its first wait, for FinishImmediately or FinishAndNotify.
Shutdown(g, about) ==
  IF ShouldFinish(g)
  THEN FinishGrpcCall(g, "finishing", about) /\ cancelled' = TryCancel(g)
  ELSE /\ stream' = CancelCompletions(g)
       /\ task' = [at |-> "draining", about |-> about]
       /\ UNCHANGED cancelled

\* FinishGrpcCall after its wait.  The finish of a failed call comes back to
\* FinishAndNotify; that of a shutdown is cancelled and waited for.
CallFinished ==
  /\ task.at \in {"failing", "finishing"} /\ OffQueue(stream)
  /\ LET g == NewCompletion([stream EXCEPT !.completions = {}], "finish",
                            task.at = "failing", 0)
     IN  IF task.at = "failing"
         THEN stream' = g /\ task' = Idle
         ELSE stream' = CancelCompletions(g) /\ task' = [task EXCEPT !.at = "draining"]
  /\ finishes' = finishes + 1
  /\ UNCHANGED <<queue, poller, cancelled, ended, inbox, sent, delivered, written,
                 accepted, notified>>

Notifies(about) == about # "stop"

\* Shutdown after its last wait.  The observer is unset and, by FinishAndNotify,
\* told; Stream::Close, which asked for this or is called by it, destroys the object.
Drained ==
  /\ task.at = "draining" /\ OffQueue(stream)
  /\ stream' = [stream EXCEPT !.completions = {}, !.observer = FALSE, !.phase = "destroyed"]
  /\ notified' = IF stream.observer /\ Notifies(task.about)
                 THEN Append(notified, task.about) ELSE notified
  /\ task' = Idle
  /\ UNCHANGED <<queue, poller, cancelled, ended, inbox, sent, delivered, written,
                 accepted, finishes>>

-----------------------------------------------------------------------------
(* Calls of the Stream and of the connectivity monitor.                    *)

Started == stream.phase = "started"

\* The client's messages are numbered in the order they are written.
Fresh == Len(written) + 1

\* Start: a first read, and the observer writes the handshake.
Start ==
  /\ stream.phase = "created"
  /\ stream' = Write(Read([stream EXCEPT !.phase = "started"]), Fresh)
  /\ written' = <<Fresh>>
  /\ UNCHANGED <<task, queue, poller, cancelled, ended, inbox, sent, delivered,
                 accepted, notified, finishes>>

\* Stream::Write, also as the reaction to a message or after a failed operation.
WriteMessage ==
  /\ WorkerFree /\ Started /\ Len(written) < MaxWritten
  /\ stream' = Write(stream, Fresh)
  /\ written' = Append(written, Fresh)
  /\ UNCHANGED <<task, queue, poller, cancelled, ended, inbox, sent, delivered,
                 accepted, notified, finishes>>

\* WriteStream::TearDown before the handshake is complete.
FinishImmediately ==
  /\ WorkerFree /\ Started /\ delivered = <<>>
  /\ Shutdown(stream, "stop")
  /\ UNCHANGED <<queue, poller, ended, inbox, sent, delivered, written, accepted,
                 notified, finishes>>

\* WriteStream::TearDown after it: a last write, waited for, and the same.
WriteAndFinish ==
  /\ WorkerFree /\ Started /\ delivered # <<>>
  /\ LET g == IF stream.finished THEN stream ELSE LastWrite(stream, Fresh) IN
     IF g.tags # stream.tags
     THEN /\ stream' = g
          /\ task' = [at |-> "lastWrite", about |-> "stop"]
          /\ UNCHANGED cancelled
     ELSE Shutdown(g, "stop")
  /\ written' = IF stream.finished THEN written ELSE Append(written, Fresh)
  /\ UNCHANGED <<queue, poller, ended, inbox, sent, delivered, accepted, notified, finishes>>

\* TryLastWrite's wait ends, because the write came back or after half a second.
LastWriteEnds ==
  /\ task.at = "lastWrite"
  /\ Shutdown(stream, "stop")
  /\ UNCHANGED <<queue, poller, ended, inbox, sent, delivered, written, accepted,
                 notified, finishes>>

\* GrpcConnection's callback of the connectivity monitor.
ConnectivityChanged ==
  /\ WorkerFree /\ Started
  /\ Shutdown(stream, "connectivity")
  /\ UNCHANGED <<queue, poller, ended, inbox, sent, delivered, written, accepted,
                 notified, finishes>>

-----------------------------------------------------------------------------
(* Completions on the worker queue.                                        *)

\* The next completion, on a worker that is free, and the object without it.
Running(c) == WorkerFree /\ queue # <<>> /\ c = Head(queue)
Armed(c) == c.tag \in stream.armed
Without(c) == [stream EXCEPT !.completions = @ \ {c.tag}, !.armed = @ \ {c.tag}]

RunCancelled(c) ==
  /\ Running(c) /\ ~Armed(c)
  /\ queue' = Tail(queue)
  /\ UNCHANGED <<stream, task, poller, cancelled, ended, inbox, sent, delivered,
                 written, accepted, notified, finishes>>

\* OnRead: the next read, then the observer, which finishes the stream at once if
\* it cannot parse the message.
OnRead(c) ==
  /\ Running(c) /\ Armed(c) /\ c.ok /\ c.type = "read"
  /\ queue' = Tail(queue)
  /\ LET g == Read(Without(c)) IN
     IF stream.observer
     THEN /\ delivered' = Append(delivered, c.message)
          /\ \/ stream' = g /\ UNCHANGED <<task, cancelled>>
             \/ Shutdown(g, "stop")
     ELSE stream' = g /\ UNCHANGED <<task, cancelled, delivered>>
  /\ UNCHANGED <<poller, ended, inbox, sent, written, accepted, notified, finishes>>

OnWrite(c) ==
  /\ Running(c) /\ Armed(c) /\ c.ok /\ c.type = "write"
  /\ queue' = Tail(queue)
  /\ stream' = IF c.callback THEN NextWrite(Without(c)) ELSE Without(c)
  /\ UNCHANGED <<task, poller, cancelled, ended, inbox, sent, delivered, written,
                 accepted, notified, finishes>>

\* The finish of a failed call: FinishAndNotify with the call's status.
OnFinish(c) ==
  /\ Running(c) /\ Armed(c) /\ c.ok /\ c.type = "finish"
  /\ queue' = Tail(queue)
  /\ IF c.callback THEN Shutdown(Without(c), "call")
     ELSE stream' = Without(c) /\ UNCHANGED <<task, cancelled>>
  /\ UNCHANGED <<poller, ended, inbox, sent, delivered, written, accepted, notified,
                 finishes>>

OnOperationFailed(c) ==
  /\ Running(c) /\ Armed(c) /\ ~c.ok
  /\ queue' = Tail(queue)
  /\ IF stream.finished THEN stream' = Without(c) /\ UNCHANGED task
     ELSE FinishGrpcCall(Without(c), "failing", "call")
  /\ UNCHANGED <<poller, cancelled, ended, inbox, sent, delivered, written, accepted,
                 notified, finishes>>

-----------------------------------------------------------------------------
(* The polling thread: GrpcCompletion::Complete first fulfils the promise  *)
(* the worker may wait for, then puts the completion on the worker queue.  *)

Return(o, message, ok) ==
  /\ poller = {}
  /\ stream' = [stream EXCEPT !.ops = @ \ {o}]
  /\ poller' = {[tag |-> o.tag, type |-> o.type, callback |-> o.callback,
                 message |-> message, ok |-> ok]}

Enqueue ==
  /\ poller # {}
  /\ queue' = queue \o <<CHOOSE c \in poller : TRUE>>
  /\ poller' = {}
  /\ UNCHANGED <<stream, task, cancelled, ended, inbox, sent, delivered, written,
                 accepted, notified, finishes>>

-----------------------------------------------------------------------------
(* gRPC and the server.                                                    *)

Over == ended \/ cancelled

ServerSends ==
  /\ Started /\ ~Over /\ Len(sent) < MaxSent
  /\ sent' = Append(sent, Len(sent) + 1)
  /\ inbox' = Append(inbox, Len(sent) + 1)
  /\ UNCHANGED <<stream, task, queue, poller, cancelled, ended, delivered, written,
                 accepted, notified, finishes>>

\* The server ends the call, or the connection is lost.
CallEnds ==
  /\ Started /\ ~Over
  /\ ended' = TRUE
  /\ UNCHANGED <<stream, task, queue, poller, cancelled, inbox, sent, delivered,
                 written, accepted, notified, finishes>>

ReadReturns(o) ==
  /\ o.type = "read" /\ inbox # <<>>
  /\ Return(o, Head(inbox), TRUE)
  /\ inbox' = Tail(inbox)
  /\ UNCHANGED <<task, queue, cancelled, ended, sent, delivered, written, accepted,
                 notified, finishes>>

WriteReturns(o) ==
  /\ o.type = "write" /\ ~Over
  /\ Return(o, 0, TRUE)
  /\ accepted' = Append(accepted, o.message)
  /\ UNCHANGED <<task, queue, cancelled, ended, inbox, sent, delivered, written,
                 notified, finishes>>

\* Operations of a call that is over fail; finishing it succeeds.
OverReturns(o) ==
  /\ Over /\ (o.type = "read" => inbox = <<>> \/ cancelled)
  /\ Return(o, 0, o.type = "finish")
  /\ UNCHANGED <<task, queue, cancelled, ended, inbox, sent, delivered, written,
                 accepted, notified, finishes>>

-----------------------------------------------------------------------------
Init ==
  /\ stream = [phase |-> "created", observer |-> TRUE, finished |-> FALSE,
               buffered |-> <<>>, active |-> FALSE, completions |-> {}, armed |-> {},
               tags |-> 0, ops |-> {}]
  /\ task = Idle
  /\ queue = <<>> /\ poller = {}
  /\ cancelled = FALSE /\ ended = FALSE
  /\ inbox = <<>> /\ sent = <<>> /\ delivered = <<>>
  /\ written = <<>> /\ accepted = <<>> /\ notified = <<>>
  /\ finishes = 0

Worker ==
  \/ \E c \in {queue[i] : i \in DOMAIN queue} :
       RunCancelled(c) \/ OnRead(c) \/ OnWrite(c) \/ OnFinish(c) \/ OnOperationFailed(c)
  \/ CallFinished \/ Drained \/ LastWriteEnds

Calls == Start \/ WriteMessage \/ FinishImmediately \/ WriteAndFinish \/ ConnectivityChanged

Next ==
  \/ Worker \/ Calls \/ Enqueue
  \/ ServerSends \/ CallEnds
  \/ \E o \in stream.ops : ReadReturns(o) \/ WriteReturns(o) \/ OverReturns(o)

\* The worker and the poller run, and gRPC returns the operations of a call that
\* is over; it need not return those of a live one.
Fairness ==
  /\ WF_vars(Worker)
  /\ WF_vars(Enqueue)
  /\ WF_vars(Over /\ \E o \in stream.ops : ReadReturns(o) \/ OverReturns(o))

Spec == Init /\ [][Next]_vars

FairSpec == Spec /\ Fairness

-----------------------------------------------------------------------------
(* Properties.                                                             *)

\* gRPC allows one read and one write at a time, however the observer's calls,
\* the completions on the queue and the buffered writes interleave.
OneOfEachType == \A o, p \in stream.ops : o.type = p.type => o = p

\* Nothing that was issued before it is at gRPC when a call is finished (gRPC
\* asks for that), and a call that was started is finished once before the object
\* goes, whichever of a failure, a stop and a connectivity change comes first.
FinishedProperly ==
  /\ \A o, p \in stream.ops : o.type = "finish" => p = o \/ p.tag > o.tag
  /\ finishes <= 1
  /\ stream.phase = "destroyed" => finishes = 1

\* gRPC and completions hold plain pointers to the object: once it is destroyed,
\* no operation of it is at gRPC, no completion on its way will run, and it owns
\* none (the HARD_ASSERT of the destructor).
NothingDangles ==
  stream.phase = "destroyed" =>
    /\ stream.ops = {} /\ stream.completions = {}
    /\ \A c \in poller \cup {queue[i] : i \in DOMAIN queue} : ~Armed(c)

\* A message cannot get stuck: while the call is good, one read is on its way, and
\* a buffered write waits for one that is.
AlwaysListening ==
  LET alive(type) ==
        \/ \E o \in stream.ops : o.type = type /\ o.tag \in stream.armed
        \/ \E c \in poller \cup {queue[i] : i \in DOMAIN queue} :
             c.type = type /\ Armed(c)
  IN  Started /\ ~stream.finished =>
        alive("read") /\ (stream.buffered # <<>> => alive("write"))

\* What the Stream sees is a message stream.
Channel == INSTANCE MessageStream WITH
  phase <- IF stream.phase # "destroyed" THEN "open"
           ELSE IF notified # <<>> THEN "finished" ELSE "closed"

\* Messages of both directions pass in order and without a gap, the observer hears
\* of at most one finish, and of nothing after it or after it finished the call.
ChannelSpec == Channel!Spec

\* A call the server ends is noticed: the observer is told or has closed it.
EndIsNoticed == ended ~> stream.phase = "destroyed"

\* The worker is never blocked for good by a call it finishes.
WorkerReturns == []<>WorkerFree

=============================================================================
