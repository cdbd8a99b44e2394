--------------------------- MODULE GrpcStreamProofs ---------------------------
(***************************************************************************)
(* Theorems about GrpcStream, for any number of messages.                  *)
(***************************************************************************)
EXTENDS GrpcStream, FiniteSetTheorems, TLAPS

USE BoundsAssumption

-----------------------------------------------------------------------------
(* The inductive invariant.                                                *)

\* Completions gRPC has returned and the worker has not run.
Coming == poller \cup {queue[i] : i \in DOMAIN queue}

\* No operation of a type is at gRPC or will be heard of.
NoLive(g, C, type) ==
  /\ \A o \in g.ops : o.type # type
  /\ \A c \in C : c.tag \in g.armed => c.type # type

\* One of them will be heard of.
Alive(g, C, type) ==
  \/ \E o \in g.ops : o.type = type /\ o.tag \in g.armed
  \/ \E c \in C : c.type = type /\ c.tag \in g.armed

\* Tags tell operations and completions apart; gRPC holds what is waited for.
Tagged(g, C) ==
  /\ \A o \in g.ops : o.tag < g.tags /\ o.tag \in g.completions
  /\ \A o, p \in g.ops : o.tag = p.tag => o = p
  /\ \A c \in C : c.tag < g.tags
  /\ \A c, d \in C : c.tag = d.tag => c = d
  /\ \A o \in g.ops, c \in C : o.tag # c.tag
  /\ g.armed \subseteq g.completions
  /\ \A n \in g.completions : n < g.tags

\* One operation of each type, and a finish behind all others.
Single(g, C) ==
  /\ \A o, p \in g.ops : o.type = p.type => o = p
  /\ \A o \in g.ops, c \in C : c.tag \in g.armed => c.type # o.type
  /\ \A c, d \in C : c.tag \in g.armed /\ d.tag \in g.armed /\ c.type = d.type => c = d
  /\ \A o, p \in g.ops : o.type = "finish" => p = o \/ p.tag > o.tag

\* The object between two of its own steps.
Core(g, C) ==
  /\ g \in Stream /\ C \subseteq Completion
  /\ Tagged(g, C) /\ Single(g, C)
  /\ NoLive(g, C, "write") \/ g.active

\* A last write, whose completion leaves the buffer alone.
LastLive(g, C) ==
  \/ \E o \in g.ops : o.type = "write" /\ ~o.callback
  \/ \E c \in C : c.type = "write" /\ ~c.callback /\ c.tag \in g.armed

FinishLive(g, C) ==
  \/ \E o \in g.ops : o.type = "finish"
  \/ \E c \in C : c.type = "finish"

Finishing(t) == t.at \in {"failing", "finishing"}

\* The call is finished once, and the finish comes after it.
FinishInv(g, C, t, n) ==
  /\ n \in {0, 1}
  /\ g.finished <=> n = 1 \/ Finishing(t)
  /\ Finishing(t) => n = 0
  /\ t.at = "draining" => n = 1
  /\ FinishLive(g, C) => n = 1

\* While the worker waits for its completions none of them will run.
QuietInv(g, t) == Finishing(t) \/ t.at = "draining" => g.armed = {}

\* A last write that will be heard of is waited for, or comes after the finish.
LastInv(g, C, t) == LastLive(g, C) => t.at = "lastWrite" \/ g.finished

ListenInv(g, C) ==
  g.phase = "started" /\ ~g.finished =>
    /\ Alive(g, C, "read")
    /\ g.active => Alive(g, C, "write")

PhaseInv(g, C, t, n) ==
  /\ g.phase = "created" =>
       /\ g.completions = {} /\ g.ops = {} /\ C = {}
       /\ ~g.active /\ g.buffered = <<>> /\ ~g.finished
  /\ g.phase # "destroyed" => g.observer
  /\ g.phase = "destroyed" => g.completions = {} /\ n = 1
  /\ t.at # "idle" => g.phase = "started"

\* The variables that only carry messages.
DataTypes ==
  /\ cancelled \in BOOLEAN /\ ended \in BOOLEAN
  /\ inbox \in Seq(Nat) /\ sent \in Seq(Nat) /\ delivered \in Seq(Nat)
  /\ written \in Seq(Nat) /\ accepted \in Seq(Nat)
  /\ notified \in Seq({"call", "connectivity"})

QueueTypes ==
  /\ queue \in Seq(Completion)
  /\ poller = {} \/ \E c \in Completion : poller = {c}

\* The object g, the completions C of it that are on their way, the task t of the
\* worker and the number n of finishes.
StreamInv(g, C, t, n) ==
  /\ Core(g, C)
  /\ g.buffered # <<>> => g.active
  /\ FinishInv(g, C, t, n) /\ QuietInv(g, t) /\ LastInv(g, C, t)
  /\ ListenInv(g, C) /\ PhaseInv(g, C, t, n)

Inv ==
  /\ task \in Task /\ DataTypes /\ QueueTypes
  /\ StreamInv(stream, Coming, task, finishes)

\* What FinishGrpcCall asks of the object, and Shutdown.
Startable(g, C, n) ==
  /\ Core(g, C) /\ (g.buffered # <<>> => g.active)
  /\ g.phase = "started" /\ g.observer
  /\ n \in {0, 1} /\ (g.finished <=> n = 1)
  /\ FinishLive(g, C) => n = 1

Stoppable(g, C, n) == Startable(g, C, n) /\ (~g.finished => g.completions # {})

-----------------------------------------------------------------------------
(* GrpcStream's own steps keep the object in order.                        *)

\* Completions that are gone do no harm.
LEMMA FewerKeep ==
  ASSUME NEW g, NEW C, NEW D \in SUBSET C, Core(g, C)
  PROVE  Core(g, D)
BY DEF Core, Tagged, Single, NoLive

\* The completion that is made, and the rest of the object.
LEMMA NewFields ==
  ASSUME NEW g \in Stream, NEW type \in Type, NEW callback \in BOOLEAN, NEW message \in Nat,
         NEW h, h = NewCompletion(g, type, callback, message)
  PROVE  /\ h \in Stream
         /\ h.phase = g.phase /\ h.observer = g.observer /\ h.finished = g.finished
         /\ h.buffered = g.buffered /\ h.active = g.active
         /\ h.completions = g.completions \cup {g.tags}
         /\ h.armed = g.armed \cup {g.tags}
         /\ h.tags = g.tags + 1
         /\ h.ops = g.ops \cup {[tag |-> g.tags, type |-> type, callback |-> callback,
                                 message |-> message]}
<1> DEFINE n == [tag |-> g.tags, type |-> type, callback |-> callback, message |-> message]
<1>1. g.tags \in Nat /\ n \in Op
  BY DEF Stream, Op
<1> HIDE DEF n
<1>2. /\ g.completions \cup {g.tags} \in SUBSET Nat
      /\ g.armed \cup {g.tags} \in SUBSET Nat
      /\ g.tags + 1 \in Nat
      /\ g.ops \cup {n} \in SUBSET Op
  BY <1>1 DEF Stream
<1>3. h = [g EXCEPT !.completions = @ \cup {g.tags}, !.armed = @ \cup {g.tags},
                    !.tags = @ + 1, !.ops = @ \cup {n}]
  BY DEF NewCompletion, n
<1>4. h \in Stream
  BY <1>2, <1>3 DEF Stream
<1>5. /\ h.phase = g.phase /\ h.observer = g.observer /\ h.finished = g.finished
      /\ h.buffered = g.buffered /\ h.active = g.active
      /\ h.completions = g.completions \cup {g.tags}
      /\ h.armed = g.armed \cup {g.tags}
      /\ h.tags = g.tags + 1
      /\ h.ops = g.ops \cup {n}
  BY <1>3 DEF Stream
<1>6. QED
  BY <1>4, <1>5 DEF n

LEMMA NewKeeps ==
  ASSUME NEW g, NEW C, Core(g, C),
         NEW type \in Type, NEW callback \in BOOLEAN, NEW message \in Nat,
         NoLive(g, C, type),
         type = "finish" => g.ops = {},
         type = "write" => g.active
  PROVE  Core(NewCompletion(g, type, callback, message), C)
<1> DEFINE n == [tag |-> g.tags, type |-> type, callback |-> callback, message |-> message]
           h == NewCompletion(g, type, callback, message)
<1>1. /\ h \in Stream
      /\ h.active = g.active
      /\ h.completions = g.completions \cup {g.tags}
      /\ h.armed = g.armed \cup {g.tags}
      /\ h.tags = g.tags + 1
      /\ h.ops = g.ops \cup {n}
  BY NewFields DEF Core
<1>2. n.tag = g.tags /\ n.type = type /\ g.tags \in Nat
  BY DEF Core, Stream
<1>3. /\ \A o \in g.ops : o.tag \in Nat /\ o.tag < g.tags
      /\ \A c \in C : c.tag \in Nat /\ c.tag < g.tags
      /\ \A m \in g.completions : m \in Nat /\ m < g.tags
  BY DEF Core, Tagged, Stream, Op, Completion
<1> HIDE DEF n, h
<1>4. Tagged(h, C)
  BY <1>1, <1>2, <1>3 DEF Core, Tagged
<1>5. Single(h, C)
  <2>1. \A o, p \in h.ops : o.type = p.type => o = p
    BY <1>1, <1>2 DEF Core, Single, NoLive
  <2>2. \A o \in h.ops, c \in C : c.tag \in h.armed => c.type # o.type
    BY <1>1, <1>2, <1>3 DEF Core, Single, NoLive
  <2>3. \A c, d \in C : c.tag \in h.armed /\ d.tag \in h.armed /\ c.type = d.type => c = d
    BY <1>1, <1>3 DEF Core, Single
  <2>4. \A o, p \in h.ops : o.type = "finish" => p = o \/ p.tag > o.tag
    BY <1>1, <1>2, <1>3 DEF Core, Single
  <2>5. QED
    BY <2>1, <2>2, <2>3, <2>4 DEF Single
<1>6. NoLive(h, C, "write") \/ h.active
  BY <1>1, <1>2, <1>3 DEF Core, NoLive
<1>7. QED
  BY <1>1, <1>4, <1>5, <1>6 DEF Core, h

\* Read, when none is under way.
LEMMA ReadKeeps ==
  ASSUME NEW g, NEW C, Core(g, C), NoLive(g, C, "read")
  PROVE  Core(Read(g), C)
<1>1. "read" \in Type /\ TRUE \in BOOLEAN /\ 0 \in Nat
  BY DEF Type
<1>2. Core(NewCompletion(g, "read", TRUE, 0), C)
  BY <1>1, NewKeeps
<1>3. QED
  BY <1>2 DEF Read

\* A write that may start: the object with the first buffered message active.
LEMMA TryStartWriteKeeps ==
  ASSUME NEW g, NEW C, Core(g, C), NEW callback \in BOOLEAN
  PROVE  LET h == TryStartWrite(g, callback) IN
         Core(h, C) /\ (h.buffered # <<>> => h.active)
<1>1. CASE g.buffered = <<>> \/ g.active
  BY <1>1 DEF TryStartWrite
<1>2. CASE ~(g.buffered = <<>> \/ g.active)
  <2> DEFINE k == [g EXCEPT !.active = TRUE, !.buffered = Tail(@)]
             h == NewCompletion(k, "write", callback, Head(g.buffered))
  <2>1. g \in Stream /\ g.buffered \in Seq(Nat) /\ g.buffered # <<>>
    BY <1>2 DEF Core, Stream
  <2>2. Tail(g.buffered) \in Seq(Nat) /\ Head(g.buffered) \in Nat
    BY <2>1
  <2>3. /\ k \in Stream /\ k.active
        /\ k.ops = g.ops /\ k.armed = g.armed /\ k.completions = g.completions
        /\ k.tags = g.tags
    BY <2>1, <2>2 DEF Stream
  <2> HIDE DEF k
  <2>4. Core(k, C)
    BY <2>3 DEF Core, Tagged, Single
  <2>5. NoLive(k, C, "write")
    BY <1>2, <2>3 DEF Core, NoLive
  <2>6. "write" \in Type
    BY DEF Type
  <2>7. Core(h, C)
    BY <2>2, <2>3, <2>4, <2>5, <2>6, NewKeeps
  <2>8. h.active
    BY <2>2, <2>3, <2>6, NewFields
  <2>9. TryStartWrite(g, callback) = h
    BY <1>2 DEF TryStartWrite, k
  <2>10. QED
    BY <2>7, <2>8, <2>9
<1>3. QED
  BY <1>1, <1>2

\* A message is buffered.
LEMMA BufferFields ==
  ASSUME NEW g \in Stream, NEW message \in Nat,
         NEW h, h = [g EXCEPT !.buffered = Append(@, message)]
  PROVE  /\ h \in Stream /\ h.buffered = Append(g.buffered, message) /\ h.buffered # <<>>
         /\ h.phase = g.phase /\ h.observer = g.observer /\ h.finished = g.finished
         /\ h.active = g.active /\ h.completions = g.completions /\ h.armed = g.armed
         /\ h.tags = g.tags /\ h.ops = g.ops
<1>1. g.buffered \in Seq(Nat)
  BY DEF Stream
<1>2. Append(g.buffered, message) \in Seq(Nat) /\ Append(g.buffered, message) # <<>>
  BY <1>1
<1>3. QED
  BY <1>2 DEF Stream

LEMMA BufferKeeps ==
  ASSUME NEW g, NEW C, Core(g, C), NEW message \in Nat
  PROVE  Core([g EXCEPT !.buffered = Append(@, message)], C)
<1> DEFINE h == [g EXCEPT !.buffered = Append(@, message)]
<1>1. /\ h \in Stream /\ h.active = g.active /\ h.completions = g.completions
      /\ h.armed = g.armed /\ h.tags = g.tags /\ h.ops = g.ops
  BY BufferFields DEF Core
<1> HIDE DEF h
<1>2. Core(h, C)
  BY <1>1 DEF Core, Tagged, Single, NoLive
<1>3. QED
  BY <1>2 DEF h

\* CancelCompletions leaves nothing armed.
LEMMA CancelKeeps ==
  ASSUME NEW g, NEW C, Core(g, C), NEW h, h = CancelCompletions(g)
  PROVE  /\ Core(h, C) /\ h.armed = {}
         /\ h.phase = g.phase /\ h.observer = g.observer /\ h.finished = g.finished
         /\ h.buffered = g.buffered /\ h.active = g.active
         /\ h.completions = g.completions /\ h.tags = g.tags /\ h.ops = g.ops
<1>1. g.armed \ g.completions = {}
  BY DEF Core, Tagged
<1>2. /\ h \in Stream /\ h.armed = {}
      /\ h.phase = g.phase /\ h.observer = g.observer /\ h.finished = g.finished
      /\ h.buffered = g.buffered /\ h.active = g.active
      /\ h.completions = g.completions /\ h.tags = g.tags /\ h.ops = g.ops
  BY <1>1 DEF CancelCompletions, Core, Stream
<1>3. Core(h, C)
  BY <1>2 DEF Core, Tagged, Single, NoLive
<1>4. QED
  BY <1>2, <1>3

\* A completion that runs leaves the object without it.
Dropped(h, C, c) ==
  /\ Core(h, C)
  /\ Armed(c) => NoLive(h, C, c.type)
  /\ h.phase = stream.phase /\ h.observer = stream.observer
  /\ h.finished = stream.finished
  /\ h.buffered = stream.buffered /\ h.active = stream.active
  /\ h.completions = stream.completions \ {c.tag}
  /\ h.armed = stream.armed \ {c.tag}
  /\ h.tags = stream.tags /\ h.ops = stream.ops

LEMMA WithoutKeeps ==
  ASSUME NEW C, Core(stream, C), NEW c \in C, NEW h, h = Without(c)
  PROVE  Dropped(h, C, c)
<1>1. /\ h \in Stream
      /\ h.phase = stream.phase /\ h.observer = stream.observer
      /\ h.finished = stream.finished
      /\ h.buffered = stream.buffered /\ h.active = stream.active
      /\ h.completions = stream.completions \ {c.tag}
      /\ h.armed = stream.armed \ {c.tag}
      /\ h.tags = stream.tags /\ h.ops = stream.ops
  BY DEF Without, Core, Stream
<1>2. Tagged(h, C)
  BY <1>1 DEF Core, Tagged
<1>3. Single(h, C) /\ (NoLive(h, C, "write") \/ h.active)
  BY <1>1 DEF Core, Single, NoLive
<1>4. Armed(c) => NoLive(h, C, c.type)
  BY <1>1 DEF Core, Single, NoLive, Armed
<1>5. QED
  BY <1>1, <1>2, <1>3, <1>4 DEF Core, Dropped

\* The first buffered message goes out or stays; nothing else changes.
Follows(h, k, C, callback) ==
  /\ Core(h, C)
  /\ h.buffered # <<>> => h.active
  /\ h.phase = k.phase /\ h.observer = k.observer /\ h.finished = k.finished
  /\ k.completions \subseteq h.completions
  /\ h.armed \subseteq k.armed \cup {k.tags}
  /\ Alive(k, C, "read") => Alive(h, C, "read")
  /\ (k.active => Alive(k, C, "write")) => (h.active => Alive(h, C, "write"))
  /\ FinishLive(h, C) => FinishLive(k, C)
  /\ callback = TRUE => (LastLive(h, C) => LastLive(k, C))
  /\ h.tags # k.tags => Alive(h, C, "write")

LEMMA WriteKeeps ==
  ASSUME NEW k, NEW C, Core(k, C), NEW callback \in BOOLEAN,
         NEW h, h = TryStartWrite(k, callback)
  PROVE  Follows(h, k, C, callback)
<1>1. Core(h, C) /\ (h.buffered # <<>> => h.active)
  BY TryStartWriteKeeps
<1>2. CASE k.buffered = <<>> \/ k.active
  BY <1>1, <1>2 DEF TryStartWrite, Follows
<1>3. CASE ~(k.buffered = <<>> \/ k.active)
  <2> DEFINE j == [k EXCEPT !.active = TRUE, !.buffered = Tail(@)]
             n == [tag |-> k.tags, type |-> "write", callback |-> callback,
                   message |-> Head(k.buffered)]
  <2>1. k \in Stream /\ k.buffered \in Seq(Nat) /\ k.buffered # <<>> /\ k.tags \in Nat
    BY <1>3 DEF Core, Stream
  <2>2. Tail(k.buffered) \in Seq(Nat) /\ Head(k.buffered) \in Nat
    BY <2>1
  <2>3. /\ j \in Stream /\ j.ops = k.ops /\ j.armed = k.armed /\ j.tags = k.tags
        /\ j.completions = k.completions
        /\ j.phase = k.phase /\ j.observer = k.observer /\ j.finished = k.finished
    BY <2>1, <2>2 DEF Stream
  <2> HIDE DEF j
  <2>4. h = NewCompletion(j, "write", callback, Head(k.buffered))
    BY <1>3 DEF TryStartWrite, j
  <2>5. /\ h.phase = k.phase /\ h.observer = k.observer /\ h.finished = k.finished
        /\ h.completions = k.completions \cup {k.tags}
        /\ h.armed = k.armed \cup {k.tags}
        /\ h.ops = k.ops \cup {n}
    <3>1. "write" \in Type
      BY DEF Type
    <3>2. QED
      BY <2>2, <2>3, <2>4, <3>1, NewFields
  <2>6. n.tag = k.tags /\ n.type = "write" /\ n.callback = callback
    OBVIOUS
  <2> HIDE DEF n
  <2>7. \A c \in C : c.tag \in h.armed => c.tag \in k.armed
    BY <2>1, <2>5 DEF Core, Tagged, Completion
  <2>8. /\ Alive(k, C, "read") => Alive(h, C, "read")
        /\ Alive(h, C, "write")
        /\ FinishLive(h, C) => FinishLive(k, C)
        /\ callback = TRUE => (LastLive(h, C) => LastLive(k, C))
    BY <2>5, <2>6, <2>7 DEF Alive, FinishLive, LastLive
  <2>9. QED
    BY <1>1, <2>5, <2>8 DEF Follows
<1>4. QED
  BY <1>2, <1>3

-----------------------------------------------------------------------------
(* Completions on their way.                                               *)

LEMMA Dequeue ==
  ASSUME QueueTypes, queue # <<>>, queue' = Tail(queue), poller' = poller
  PROVE  /\ QueueTypes'
         /\ Coming' \subseteq Coming
         /\ Coming \subseteq Coming' \cup {Head(queue)}
         /\ Head(queue) \in Coming
<1>1. queue \in Seq(Completion)
  BY DEF QueueTypes
<1>2. /\ Tail(queue) \in Seq(Completion)
      /\ Len(Tail(queue)) = Len(queue) - 1 /\ Len(queue) \in Nat /\ Len(queue) > 0
      /\ DOMAIN queue = 1..Len(queue) /\ DOMAIN Tail(queue) = 1..(Len(queue) - 1)
      /\ \A i \in 1..(Len(queue) - 1) : Tail(queue)[i] = queue[i + 1]
      /\ Head(queue) = queue[1]
  BY <1>1
<1>3. \A i \in DOMAIN queue :
        \/ queue[i] = Head(queue)
        \/ \E j \in DOMAIN Tail(queue) : queue[i] = Tail(queue)[j]
  <2> SUFFICES ASSUME NEW i \in DOMAIN queue, i # 1
               PROVE  \E j \in DOMAIN Tail(queue) : queue[i] = Tail(queue)[j]
    BY <1>2
  <2>1. i - 1 \in DOMAIN Tail(queue) /\ Tail(queue)[i - 1] = queue[i]
    BY <1>2
  <2>2. QED
    BY <2>1
<1>4. \A i \in DOMAIN Tail(queue) : i + 1 \in DOMAIN queue /\ Tail(queue)[i] = queue[i + 1]
  BY <1>2
<1>5. 1 \in DOMAIN queue
  BY <1>2
<1>6. QueueTypes'
  BY <1>2 DEF QueueTypes
<1>7. {queue'[i] : i \in DOMAIN queue'} \subseteq {queue[i] : i \in DOMAIN queue}
  BY <1>4
<1>8. {queue[i] : i \in DOMAIN queue} \subseteq {queue'[i] : i \in DOMAIN queue'} \cup {Head(queue)}
  BY <1>3
<1>9. Head(queue) \in {queue[i] : i \in DOMAIN queue}
  BY <1>2, <1>5
<1>10. QED
  BY <1>6, <1>7, <1>8, <1>9 DEF Coming

LEMMA EnqueueComing ==
  ASSUME QueueTypes, Enqueue
  PROVE  QueueTypes' /\ Coming' = Coming
<1>1. PICK c \in Completion : poller = {c}
  BY DEF QueueTypes, Enqueue
<1>2. queue' = queue \o <<c>> /\ poller' = {}
  BY <1>1 DEF Enqueue
<1>3. /\ queue \in Seq(Completion) /\ queue' \in Seq(Completion)
      /\ DOMAIN queue = 1..Len(queue) /\ DOMAIN queue' = 1..(Len(queue) + 1)
      /\ Len(queue) \in Nat
      /\ \A i \in 1..Len(queue) : queue'[i] = queue[i]
      /\ queue'[Len(queue) + 1] = c
  BY <1>1, <1>2 DEF QueueTypes
<1>4. \A i \in DOMAIN queue' : i \in DOMAIN queue \/ i = Len(queue) + 1
  BY <1>3
<1>5. Len(queue) + 1 \in DOMAIN queue' /\ \A i \in DOMAIN queue : i \in DOMAIN queue'
  BY <1>3
<1>6. {queue'[i] : i \in DOMAIN queue'} = {c} \cup {queue[i] : i \in DOMAIN queue}
  BY <1>3, <1>4, <1>5
<1>7. QED
  BY <1>1, <1>2, <1>3, <1>6 DEF QueueTypes, Coming

\* gRPC hands an operation to the poller.
LEMMA ReturnComing ==
  ASSUME QueueTypes, stream \in Stream, NEW o \in stream.ops,
         NEW message \in Nat, NEW ok \in BOOLEAN,
         Return(o, message, ok), queue' = queue
  PROVE  /\ QueueTypes'
         /\ stream' = [stream EXCEPT !.ops = @ \ {o}]
         /\ \E c \in Completion :
              /\ Coming' = Coming \cup {c}
              /\ c.tag = o.tag /\ c.type = o.type /\ c.callback = o.callback
<1> DEFINE c == [tag |-> o.tag, type |-> o.type, callback |-> o.callback,
                 message |-> message, ok |-> ok]
<1>1. o \in Op
  BY DEF Stream
<1>2. c \in Completion
  BY <1>1 DEF Op, Completion
<1>3. c.tag = o.tag /\ c.type = o.type /\ c.callback = o.callback
  OBVIOUS
<1>4. poller = {} /\ poller' = {c} /\ stream' = [stream EXCEPT !.ops = @ \ {o}]
  BY DEF Return
<1> HIDE DEF c
<1>5. QueueTypes'
  BY <1>2, <1>4 DEF QueueTypes
<1>6. Coming' = Coming \cup {c}
  BY <1>4 DEF Coming
<1>7. QED
  BY <1>2, <1>3, <1>4, <1>5, <1>6

-----------------------------------------------------------------------------
(* Steps of the invariant's parts.                                         *)

\* A completion that will not do anything is gone.
LEMMA GoneKeeps ==
  ASSUME NEW g, NEW C, NEW t, NEW n, StreamInv(g, C, t, n), NEW D \in SUBSET C,
         \A c \in C \ D : c.tag \notin g.armed
  PROVE  StreamInv(g, D, t, n)
<1>1. Core(g, D)
  BY FewerKeep DEF StreamInv
<1>2. FinishLive(g, D) => FinishLive(g, C)
  BY DEF FinishLive
<1>3. LastLive(g, D) => LastLive(g, C)
  BY DEF LastLive
<1>4. \A type : Alive(g, C, type) => Alive(g, D, type)
  BY DEF Alive
<1>5. C = {} => D = {}
  OBVIOUS
<1>6. QED
  BY <1>1, <1>2, <1>3, <1>4, <1>5
     DEF StreamInv, FinishInv, QuietInv, LastInv, ListenInv, PhaseInv

\* An operation comes back from gRPC.
LEMMA ReturnKeeps ==
  ASSUME NEW g, NEW C, NEW t, NEW n, StreamInv(g, C, t, n),
         NEW o \in g.ops, NEW c \in Completion,
         c.tag = o.tag, c.type = o.type, c.callback = o.callback,
         NEW h, h = [g EXCEPT !.ops = @ \ {o}]
  PROVE  StreamInv(h, C \cup {c}, t, n)
<1> DEFINE D == C \cup {c}
<1>1. /\ h \in Stream /\ h.ops = g.ops \ {o}
      /\ h.phase = g.phase /\ h.observer = g.observer /\ h.finished = g.finished
      /\ h.buffered = g.buffered /\ h.active = g.active
      /\ h.completions = g.completions /\ h.armed = g.armed /\ h.tags = g.tags
  BY DEF StreamInv, Core, Stream
<1>2. D \subseteq Completion
  BY DEF StreamInv, Core
<1>3. Tagged(h, D)
  BY <1>1 DEF StreamInv, Core, Tagged
<1>4. Single(h, D)
  <2>1. \A p, q \in h.ops : /\ p.type = q.type => p = q
                            /\ p.type = "finish" => q = p \/ q.tag > p.tag
    BY <1>1 DEF StreamInv, Core, Single
  <2>2. \A p \in h.ops, d \in D : d.tag \in h.armed => d.type # p.type
    BY <1>1 DEF StreamInv, Core, Single
  <2>3. \A d, e \in D : d.tag \in h.armed /\ e.tag \in h.armed /\ d.type = e.type => d = e
    BY <1>1 DEF StreamInv, Core, Single
  <2>4. QED
    BY <2>1, <2>2, <2>3 DEF Single
<1>5. \A type : NoLive(g, C, type) => NoLive(h, D, type)
  BY <1>1 DEF NoLive
<1>6. Core(h, D)
  BY <1>1, <1>2, <1>3, <1>4, <1>5 DEF StreamInv, Core
<1>7. FinishLive(h, D) => FinishLive(g, C)
  BY <1>1 DEF FinishLive
<1>8. LastLive(h, D) => LastLive(g, C)
  BY <1>1 DEF LastLive
<1>9. \A type : Alive(g, C, type) => Alive(h, D, type)
  BY <1>1 DEF Alive
<1>10. g.phase # "created"
  BY DEF StreamInv, PhaseInv
<1>11. QED
  BY <1>1, <1>6, <1>7, <1>8, <1>9, <1>10
     DEF StreamInv, FinishInv, QuietInv, LastInv, ListenInv, PhaseInv

\* FinishGrpcCall, up to its wait, on a call that was not finished.
LEMMA FinishKeeps ==
  ASSUME NEW g, NEW C, NEW n, Startable(g, C, n), ~g.finished,
         NEW at \in {"failing", "finishing"}, NEW about \in {"call", "connectivity", "stop"},
         FinishGrpcCall(g, at, about)
  PROVE  task' \in Task /\ StreamInv(stream', C, task', n) /\ stream'.armed = {}
<1> DEFINE h == CancelCompletions(g)
<1>1. /\ Core(h, C) /\ h.armed = {}
      /\ h.phase = g.phase /\ h.observer = g.observer /\ h.finished = g.finished
      /\ h.buffered = g.buffered /\ h.active = g.active
      /\ h.completions = g.completions /\ h.tags = g.tags /\ h.ops = g.ops
  BY CancelKeeps DEF Startable
<1>2. stream' = [h EXCEPT !.finished = TRUE] /\ task' = [at |-> at, about |-> about]
  BY DEF FinishGrpcCall
<1> HIDE DEF h
<1>3. task' \in Task /\ task'.at = at
  BY <1>2 DEF Task
<1>4. /\ stream' \in Stream /\ stream'.finished
      /\ stream'.phase = h.phase /\ stream'.observer = h.observer
      /\ stream'.buffered = h.buffered /\ stream'.active = h.active
      /\ stream'.completions = h.completions /\ stream'.armed = h.armed
      /\ stream'.tags = h.tags /\ stream'.ops = h.ops
  BY <1>1, <1>2 DEF Core, Stream
<1>5. Core(stream', C)
  BY <1>1, <1>4 DEF Core, Tagged, Single, NoLive
<1>6. FinishLive(stream', C) => FinishLive(g, C)
  BY <1>1, <1>4 DEF FinishLive
<1>7. QED
  BY <1>1, <1>3, <1>4, <1>5, <1>6
     DEF Startable, StreamInv, FinishInv, Finishing, QuietInv, LastInv, ListenInv, PhaseInv

\* Shutdown, up to its first wait.
LEMMA ShutdownKeeps ==
  ASSUME NEW g, NEW C, NEW n, Stoppable(g, C, n),
         NEW about \in {"call", "connectivity", "stop"}, Shutdown(g, about),
         cancelled \in BOOLEAN
  PROVE  /\ task' \in Task /\ StreamInv(stream', C, task', n) /\ stream'.armed = {}
         /\ cancelled' \in BOOLEAN
<1>1. CASE ShouldFinish(g)
  <2>1. FinishGrpcCall(g, "finishing", about) /\ cancelled' = TRUE
    BY <1>1 DEF Shutdown, TryCancel
  <2>2. ~g.finished
    BY <1>1 DEF ShouldFinish
  <2>3. QED
    BY <2>1, <2>2, FinishKeeps DEF Stoppable
<1>2. CASE ~ShouldFinish(g)
  <2>1. /\ stream' = CancelCompletions(g)
        /\ task' = [at |-> "draining", about |-> about]
        /\ cancelled' = cancelled
    BY <1>2 DEF Shutdown
  <2>2. task' \in Task /\ task'.at = "draining"
    BY <2>1 DEF Task
  <2>3. g.finished /\ n = 1
    BY <1>2 DEF ShouldFinish, Stoppable, Startable
  <2>4. /\ Core(stream', C) /\ stream'.armed = {}
        /\ stream'.phase = g.phase /\ stream'.observer = g.observer
        /\ stream'.finished = g.finished
        /\ stream'.buffered = g.buffered /\ stream'.active = g.active
    BY <2>1, CancelKeeps DEF Stoppable, Startable
  <2>5. QED
    BY <2>1, <2>2, <2>3, <2>4
       DEF Stoppable, Startable, StreamInv, FinishInv, Finishing, QuietInv, LastInv,
           ListenInv, PhaseInv
<1>3. QED
  BY <1>1, <1>2

\* A started call whose worker does not finish it already can be shut down.
LEMMA CanStop ==
  ASSUME Inv, Started, task.at \in {"idle", "lastWrite"}
  PROVE  Stoppable(stream, Coming, finishes)
<1>1. ~stream.finished => \E tag : tag \in stream.armed
  BY DEF Inv, StreamInv, ListenInv, Alive, Started
<1>2. ~stream.finished => stream.completions # {}
  BY <1>1 DEF Inv, StreamInv, Core, Tagged
<1>3. ~Finishing(task)
  BY DEF Finishing
<1>4. QED
  BY <1>2, <1>3 DEF Inv, StreamInv, FinishInv, PhaseInv, Stoppable, Startable, Started

LEMMA FreshIsNat ==
  ASSUME DataTypes
  PROVE  Fresh \in Nat
BY DEF DataTypes, Fresh

-----------------------------------------------------------------------------
(* Blocking operations of the worker.                                      *)

LEMMA CallFinishedKeeps ==
  ASSUME Inv, CallFinished
  PROVE  Inv'
<1> DEFINE g == [stream EXCEPT !.completions = {}]
           notify == task.at = "failing"
           h == NewCompletion(g, "finish", notify, 0)
<1>1. stream.ops = {} /\ stream.armed = {} /\ finishes = 0 /\ stream.finished /\ Started
  <2>1. Finishing(task) /\ OffQueue(stream)
    BY DEF CallFinished, Finishing
  <2>2. stream.ops = {}
    BY <2>1 DEF OffQueue, Inv, StreamInv, Core, Tagged
  <2>3. QED
    BY <2>1, <2>2 DEF CallFinished, Inv, StreamInv, QuietInv, FinishInv, PhaseInv, Started
<1>2. /\ g \in Stream /\ g.ops = {} /\ g.armed = {} /\ g.completions = {} /\ g.finished
      /\ g.phase = stream.phase /\ g.observer = stream.observer /\ g.tags = stream.tags
      /\ g.buffered = stream.buffered /\ g.active = stream.active
  BY <1>1 DEF Inv, StreamInv, Core, Stream
<1> HIDE DEF g
<1>3. Core(g, Coming)
  BY <1>1, <1>2 DEF Inv, StreamInv, Core, Tagged, Single, NoLive
<1>4. /\ "finish" \in Type /\ notify \in BOOLEAN /\ 0 \in Nat
      /\ NoLive(g, Coming, "finish")
  BY <1>2 DEF Type, NoLive
<1> HIDE DEF notify
<1>5. Core(h, Coming)
  BY <1>2, <1>3, <1>4, NewKeeps
<1>6. /\ h.phase = g.phase /\ h.observer = g.observer /\ h.finished
      /\ h.buffered = g.buffered /\ h.active = g.active
  BY <1>2, <1>4, NewFields
<1> HIDE DEF h
<1>7. finishes' = 1 /\ Coming' = Coming /\ DataTypes' /\ QueueTypes'
  BY <1>1 DEF CallFinished, Coming, Inv, DataTypes, QueueTypes
<1>8. CASE task.at = "failing"
  <2>1. stream' = h /\ task' = Idle
    BY <1>8 DEF CallFinished, g, h, notify
  <2>2. task' \in Task /\ task'.at = "idle"
    BY <2>1 DEF Idle, Task
  <2>3. StreamInv(stream', Coming, task', 1)
    BY <1>1, <1>2, <1>5, <1>6, <2>1, <2>2
       DEF Inv, StreamInv, FinishInv, Finishing, QuietInv, LastInv, ListenInv, PhaseInv, Started
  <2>4. QED
    BY <1>7, <2>2, <2>3 DEF Inv
<1>9. CASE task.at # "failing"
  <2>1. stream' = CancelCompletions(h) /\ task' = [task EXCEPT !.at = "draining"]
    BY <1>9 DEF CallFinished, g, h, notify
  <2>2. task' \in Task /\ task'.at = "draining"
    BY <2>1 DEF Inv, Task
  <2>3. /\ Core(stream', Coming) /\ stream'.armed = {}
        /\ stream'.phase = h.phase /\ stream'.observer = h.observer
        /\ stream'.finished = h.finished
        /\ stream'.buffered = h.buffered /\ stream'.active = h.active
    BY <1>5, <2>1, CancelKeeps
  <2>4. StreamInv(stream', Coming, task', 1)
    BY <1>1, <1>2, <1>6, <2>2, <2>3
       DEF Inv, StreamInv, FinishInv, Finishing, QuietInv, LastInv, ListenInv, PhaseInv, Started
  <2>5. QED
    BY <1>7, <2>2, <2>4 DEF Inv
<1>10. QED
  BY <1>8, <1>9

LEMMA DrainedKeeps ==
  ASSUME Inv, Drained
  PROVE  Inv'
<1>1. stream.ops = {} /\ stream.armed = {} /\ finishes = 1 /\ stream.finished
  <2>1. task.at = "draining" /\ OffQueue(stream)
    BY DEF Drained
  <2>2. stream.ops = {}
    BY <2>1 DEF OffQueue, Inv, StreamInv, Core, Tagged
  <2>3. QED
    BY <2>1, <2>2 DEF Inv, StreamInv, QuietInv, FinishInv
<1>2. /\ stream' = [stream EXCEPT !.completions = {}, !.observer = FALSE,
                                  !.phase = "destroyed"]
      /\ task' = Idle /\ finishes' = finishes
  BY DEF Drained
<1>3. task' \in Task /\ task'.at = "idle"
  BY <1>2 DEF Idle, Task
<1>4. /\ stream' \in Stream /\ stream'.ops = {} /\ stream'.armed = {}
      /\ stream'.completions = {} /\ stream'.finished /\ stream'.phase = "destroyed"
      /\ stream'.tags = stream.tags
      /\ stream'.buffered = stream.buffered /\ stream'.active = stream.active
  BY <1>1, <1>2 DEF Inv, StreamInv, Core, Stream
<1>5. Core(stream', Coming)
  BY <1>1, <1>4 DEF Inv, StreamInv, Core, Tagged, Single, NoLive
<1>6. StreamInv(stream', Coming, task', finishes')
  BY <1>1, <1>2, <1>3, <1>4, <1>5
     DEF Inv, StreamInv, FinishInv, Finishing, QuietInv, LastInv, ListenInv, PhaseInv
<1>7. Coming' = Coming /\ QueueTypes'
  BY DEF Drained, Coming, Inv, QueueTypes
<1>8. notified' \in Seq({"call", "connectivity"})
  <2>1. /\ notified \in Seq({"call", "connectivity"})
        /\ task.about \in {"call", "connectivity", "stop"}
    BY DEF Inv, DataTypes, Task
  <2>2. Notifies(task.about) => task.about \in {"call", "connectivity"}
    BY <2>1 DEF Notifies
  <2>3. QED
    BY <2>1, <2>2 DEF Drained
<1>9. DataTypes'
  BY <1>8 DEF Drained, Inv, DataTypes
<1>10. QED
  BY <1>3, <1>6, <1>7, <1>9 DEF Inv

-----------------------------------------------------------------------------
(* Calls of the Stream and of the connectivity monitor.                    *)

LEMMA StartKeeps ==
  ASSUME Inv, Start
  PROVE  Inv'
<1> DEFINE g == [stream EXCEPT !.phase = "started"]
           r == Read(g)
           k == [r EXCEPT !.buffered = Append(@, Fresh)]
<1>1. /\ stream.completions = {} /\ stream.ops = {} /\ Coming = {} /\ ~stream.active
      /\ stream.buffered = <<>> /\ ~stream.finished /\ stream.observer
      /\ task.at = "idle" /\ finishes = 0 /\ stream.armed = {}
  BY DEF Start, Inv, StreamInv, Core, Tagged, PhaseInv, FinishInv
<1>2. Fresh \in Nat
  BY FreshIsNat DEF Inv
<1>3. /\ g \in Stream /\ g.phase = "started" /\ g.observer /\ ~g.finished
      /\ g.completions = {} /\ g.ops = {} /\ g.armed = {} /\ ~g.active
      /\ g.buffered = <<>> /\ g.tags = stream.tags
  BY <1>1 DEF Inv, StreamInv, Core, Stream
<1> HIDE DEF g
<1>4. Core(g, Coming) /\ NoLive(g, Coming, "read")
  BY <1>1, <1>3 DEF Inv, StreamInv, Core, Tagged, Single, NoLive
<1>5. Core(r, Coming)
  BY <1>4, ReadKeeps
<1>6. /\ r.phase = "started" /\ r.observer /\ ~r.finished /\ ~r.active
      /\ Alive(r, Coming, "read")
      /\ \A o \in r.ops : o.type = "read"
  <2>1. PICK callback \in BOOLEAN : callback = TRUE
    OBVIOUS
  <2>2. r = NewCompletion(g, "read", callback, 0)
    BY <1>3, <2>1 DEF Read
  <2> DEFINE n == [tag |-> g.tags, type |-> "read", callback |-> callback, message |-> 0]
  <2>3. "read" \in Type /\ 0 \in Nat
    BY DEF Type
  <2> HIDE DEF r
  <2>4. /\ r.phase = g.phase /\ r.observer = g.observer /\ r.finished = g.finished
        /\ r.active = g.active
        /\ r.armed = g.armed \cup {g.tags} /\ r.ops = g.ops \cup {n}
    <3>1. g \in Stream
      BY <1>3
    <3>2. QED
      BY <3>1, <2>2, <2>3, NewFields
  <2>5. n.tag = g.tags /\ n.type = "read"
    OBVIOUS
  <2> HIDE DEF n
  <2>6. /\ r.phase = "started" /\ r.observer /\ ~r.finished /\ ~r.active
        /\ r.armed = {g.tags} /\ r.ops = {n}
    BY <1>3, <2>4
  <2>7. n \in r.ops /\ n.tag \in r.armed
    BY <2>5, <2>6
  <2>8. Alive(r, Coming, "read")
    BY <2>5, <2>7 DEF Alive
  <2>9. \A o \in r.ops : o.type = "read"
    BY <2>5, <2>6
  <2>10. QED
    BY <2>6, <2>8, <2>9
<1> HIDE DEF r
<1>7. Core(k, Coming)
  BY <1>2, <1>5, BufferKeeps
<1>8. /\ k.phase = "started" /\ k.observer /\ ~k.finished /\ ~k.active
      /\ k.ops = r.ops /\ k.armed = r.armed
  BY <1>2, <1>5, <1>6, BufferFields DEF Core
<1>9. Alive(k, Coming, "read") /\ ~FinishLive(k, Coming) /\ ~LastLive(k, Coming)
  BY <1>1, <1>6, <1>8 DEF Alive, FinishLive, LastLive
<1> HIDE DEF k
<1>10. stream' = TryStartWrite(k, TRUE)
  BY DEF Start, Write, g, r, k
<1>11. Follows(stream', k, Coming, TRUE)
  BY <1>7, <1>10, WriteKeeps
<1>12. task' = task /\ finishes' = finishes /\ Coming' = Coming /\ QueueTypes'
  BY DEF Start, Coming, Inv, QueueTypes
<1>13. StreamInv(stream', Coming, task', finishes')
  BY <1>1, <1>8, <1>9, <1>11, <1>12
     DEF Follows, StreamInv, FinishInv, Finishing, QuietInv, LastInv, ListenInv, PhaseInv
<1>14. DataTypes'
  BY <1>2 DEF Start, Inv, DataTypes
<1>15. QED
  BY <1>12, <1>13, <1>14 DEF Inv

\* What Write and LastWrite leave of a started call.
LEMMA BufferedWriteKeeps ==
  ASSUME Inv, Started, NEW callback \in BOOLEAN, NEW message \in Nat,
         NEW h, h = TryStartWrite([stream EXCEPT !.buffered = Append(@, message)], callback)
  PROVE  /\ Core(h, Coming)
         /\ h.buffered # <<>> => h.active
         /\ h.phase = "started" /\ h.observer /\ h.finished = stream.finished
         /\ stream.completions \subseteq h.completions
         /\ FinishLive(h, Coming) => FinishLive(stream, Coming)
         /\ callback = TRUE => (LastLive(h, Coming) => LastLive(stream, Coming))
         /\ ListenInv(h, Coming)
<1> DEFINE k == [stream EXCEPT !.buffered = Append(@, message)]
<1>1. Core(k, Coming)
  BY BufferKeeps DEF Inv, StreamInv
<1>2. /\ k.phase = stream.phase /\ k.observer = stream.observer
      /\ k.finished = stream.finished
      /\ k.active = stream.active /\ k.completions = stream.completions
      /\ k.ops = stream.ops /\ k.armed = stream.armed
  BY BufferFields DEF Inv, StreamInv, Core
<1> HIDE DEF k
<1>3. h = TryStartWrite(k, callback)
  BY DEF k
<1>4. /\ FinishLive(k, Coming) => FinishLive(stream, Coming)
      /\ LastLive(k, Coming) => LastLive(stream, Coming)
      /\ \A type : Alive(k, Coming, type) <=> Alive(stream, Coming, type)
  BY <1>2 DEF FinishLive, LastLive, Alive
<1>5. stream.phase = "started" /\ stream.observer /\ ListenInv(stream, Coming)
  BY DEF Inv, StreamInv, PhaseInv, Started
<1>6. Follows(h, k, Coming, callback)
  BY <1>1, <1>3, WriteKeeps
<1>7. ListenInv(h, Coming)
  BY <1>2, <1>4, <1>5, <1>6 DEF Follows, ListenInv
<1>8. QED
  BY <1>2, <1>4, <1>5, <1>6, <1>7 DEF Follows

LEMMA WriteMessageKeeps ==
  ASSUME Inv, WriteMessage
  PROVE  Inv'
<1>1. Fresh \in Nat /\ Started /\ task.at = "idle"
  BY FreshIsNat DEF Inv, WriteMessage, WorkerFree
<1>2. stream' = TryStartWrite([stream EXCEPT !.buffered = Append(@, Fresh)], TRUE)
  BY DEF WriteMessage, Write
<1>3. /\ Core(stream', Coming)
      /\ stream'.buffered # <<>> => stream'.active
      /\ stream'.phase = "started" /\ stream'.observer /\ stream'.finished = stream.finished
      /\ FinishLive(stream', Coming) => FinishLive(stream, Coming)
      /\ LastLive(stream', Coming) => LastLive(stream, Coming)
      /\ ListenInv(stream', Coming)
  BY <1>1, <1>2, BufferedWriteKeeps
<1>4. task' = task /\ finishes' = finishes /\ Coming' = Coming /\ QueueTypes'
  BY DEF WriteMessage, Coming, Inv, QueueTypes
<1>5. StreamInv(stream', Coming, task', finishes')
  BY <1>1, <1>3, <1>4
     DEF Inv, StreamInv, FinishInv, Finishing, QuietInv, LastInv, PhaseInv
<1>6. DataTypes'
  BY <1>1 DEF WriteMessage, Inv, DataTypes
<1>7. QED
  BY <1>4, <1>5, <1>6 DEF Inv

\* A call is stopped as it is.
LEMMA StopKeeps ==
  ASSUME Inv, Started, task.at \in {"idle", "lastWrite"},
         NEW about \in {"call", "connectivity", "stop"}, Shutdown(stream, about),
         UNCHANGED <<queue, poller, ended, inbox, sent, delivered, written, accepted,
                     notified, finishes>>
  PROVE  Inv'
<1>1. /\ task' \in Task /\ StreamInv(stream', Coming, task', finishes)
      /\ cancelled' \in BOOLEAN
  BY CanStop, ShutdownKeeps DEF Inv, DataTypes
<1>2. Coming' = Coming /\ QueueTypes' /\ finishes' = finishes
  BY DEF Coming, Inv, QueueTypes
<1>3. DataTypes'
  BY <1>1 DEF Inv, DataTypes
<1>4. QED
  BY <1>1, <1>2, <1>3 DEF Inv

LEMMA WriteAndFinishKeeps ==
  ASSUME Inv, WriteAndFinish
  PROVE  Inv'
<1> DEFINE g == IF stream.finished THEN stream ELSE LastWrite(stream, Fresh)
<1>1. Fresh \in Nat /\ Started /\ task.at = "idle"
  BY FreshIsNat DEF Inv, WriteAndFinish, WorkerFree
<1>2. /\ Core(g, Coming)
      /\ g.buffered # <<>> => g.active
      /\ g.phase = "started" /\ g.observer /\ g.finished = stream.finished
      /\ stream.completions \subseteq g.completions
      /\ FinishLive(g, Coming) => FinishLive(stream, Coming)
      /\ ListenInv(g, Coming)
  <2>1. CASE stream.finished
    BY <1>1, <2>1 DEF Inv, StreamInv, PhaseInv, Started
  <2>2. CASE ~stream.finished
    <3>1. g = TryStartWrite([stream EXCEPT !.buffered = Append(@, Fresh)], FALSE)
      BY <2>2 DEF LastWrite
    <3> HIDE DEF g
    <3>2. QED
      BY <1>1, <3>1, BufferedWriteKeeps
  <2>3. QED
    BY <2>1, <2>2
<1>3. Coming' = Coming /\ QueueTypes' /\ finishes' = finishes
  BY DEF WriteAndFinish, Coming, Inv, QueueTypes
<1>4. written' \in Seq(Nat)
  BY <1>1 DEF WriteAndFinish, Inv, DataTypes
<1>5. CASE g.tags # stream.tags
  <2>1. /\ stream' = g /\ task' = [at |-> "lastWrite", about |-> "stop"]
        /\ UNCHANGED cancelled
    BY <1>5 DEF WriteAndFinish
  <2> HIDE DEF g
  <2>2. task' \in Task /\ task'.at = "lastWrite"
    BY <2>1 DEF Task
  <2>3. StreamInv(stream', Coming, task', finishes')
    BY <1>1, <1>2, <1>3, <2>1, <2>2
       DEF Inv, StreamInv, FinishInv, Finishing, QuietInv, LastInv, PhaseInv
  <2>4. DataTypes'
    BY <1>4, <2>1 DEF WriteAndFinish, Inv, DataTypes
  <2>5. QED
    BY <1>3, <2>2, <2>3, <2>4 DEF Inv
<1>6. CASE g.tags = stream.tags
  <2>1. Shutdown(g, "stop")
    BY <1>6 DEF WriteAndFinish
  <2> HIDE DEF g
  <2>2. Stoppable(g, Coming, finishes)
    BY <1>1, <1>2, CanStop DEF Stoppable, Startable
  <2>3. /\ task' \in Task /\ StreamInv(stream', Coming, task', finishes)
        /\ cancelled' \in BOOLEAN
    BY <2>1, <2>2, ShutdownKeeps DEF Inv, DataTypes
  <2>4. DataTypes'
    BY <1>4, <2>3 DEF WriteAndFinish, Inv, DataTypes
  <2>5. QED
    BY <1>3, <2>3, <2>4 DEF Inv
<1>7. QED
  BY <1>5, <1>6

-----------------------------------------------------------------------------
(* Completions on the worker queue.                                        *)

\* What is known of a completion that runs.
LEMMA RunningFacts ==
  ASSUME Inv, NEW c, Running(c), queue' = Tail(queue), poller' = poller
  PROVE  /\ QueueTypes' /\ c \in Coming /\ c \in Completion
         /\ Coming' \subseteq Coming /\ Coming \subseteq Coming' \cup {c}
         /\ task.at = "idle" /\ task = task
         /\ Armed(c) => Started /\ stream.observer
<1>1. /\ QueueTypes' /\ c \in Coming
      /\ Coming' \subseteq Coming /\ Coming \subseteq Coming' \cup {c}
  BY Dequeue DEF Inv, Running
<1>2. c \in Completion
  BY <1>1 DEF Inv, StreamInv, Core
<1>3. stream.phase # "created"
  BY <1>1 DEF Inv, StreamInv, PhaseInv
<1>4. stream.phase = "destroyed" => ~Armed(c)
  BY DEF Inv, StreamInv, PhaseInv, Core, Tagged, Armed
<1>5. stream.phase \in {"created", "started", "destroyed"}
  BY DEF Inv, StreamInv, Core, Stream
<1>6. QED
  BY <1>1, <1>2, <1>3, <1>4, <1>5
     DEF Running, WorkerFree, Started, Inv, StreamInv, PhaseInv

\* The completion that ran is forgotten.
LEMMA RanKeeps ==
  ASSUME NEW t, NEW n, NEW c, StreamInv(stream', Coming, t, n),
         Coming' \subseteq Coming, Coming \subseteq Coming' \cup {c},
         c.tag \notin stream'.armed
  PROVE  StreamInv(stream', Coming', t, n)
<1>1. \A d \in Coming \ Coming' : d.tag \notin stream'.armed
  OBVIOUS
<1>2. QED
  BY <1>1, GoneKeeps

LEMMA RunCancelledKeeps ==
  ASSUME Inv, NEW c, RunCancelled(c)
  PROVE  Inv'
<1>1. /\ Running(c) /\ ~Armed(c) /\ queue' = Tail(queue)
      /\ stream' = stream /\ task' = task /\ poller' = poller /\ finishes' = finishes
  BY DEF RunCancelled
<1>2. QueueTypes' /\ Coming' \subseteq Coming /\ Coming \subseteq Coming' \cup {c}
  BY <1>1, RunningFacts
<1>3. StreamInv(stream', Coming', task', finishes')
  BY <1>1, <1>2, RanKeeps DEF Inv, Armed
<1>4. DataTypes'
  BY DEF RunCancelled, Inv, DataTypes
<1>5. QED
  BY <1>1, <1>2, <1>3, <1>4 DEF Inv

\* Of the other types, what was alive stays alive without c.
LEMMA OthersLive ==
  ASSUME Inv, NEW c \in Coming, NEW h, h = Without(c), NEW type, type # c.type,
         Alive(stream, Coming, type)
  PROVE  Alive(h, Coming, type)
<1>1. h.armed = stream.armed \ {c.tag} /\ h.ops = stream.ops
  BY WithoutKeeps DEF Inv, StreamInv, Dropped
<1>2. \A o \in stream.ops : o.tag # c.tag
  BY DEF Inv, StreamInv, Core, Tagged
<1>3. \A d \in Coming : d.type = type => d.tag # c.tag
  BY DEF Inv, StreamInv, Core, Tagged
<1>4. QED
  BY <1>1, <1>2, <1>3 DEF Alive

\* Nothing new is a finish or a last write.
LEMMA WithoutLive ==
  ASSUME Inv, NEW c \in Coming, NEW h, h = Without(c)
  PROVE  /\ FinishLive(h, Coming) => FinishLive(stream, Coming)
         /\ LastLive(h, Coming) => LastLive(stream, Coming)
<1>1. h.armed = stream.armed \ {c.tag} /\ h.ops = stream.ops
  BY WithoutKeeps DEF Inv, StreamInv, Dropped
<1>2. QED
  BY <1>1 DEF FinishLive, LastLive

\* A finished call only forgets its completion.
LEMMA FinishedKeeps ==
  ASSUME Inv, NEW c, Running(c), Armed(c), queue' = Tail(queue), poller' = poller,
         stream.finished, stream' = Without(c)
  PROVE  /\ QueueTypes' /\ StreamInv(stream', Coming', task, finishes)
<1>1. /\ QueueTypes' /\ c \in Coming
      /\ Coming' \subseteq Coming /\ Coming \subseteq Coming' \cup {c}
      /\ task.at = "idle" /\ Started
  BY RunningFacts
<1>2. Dropped(stream', Coming, c)
  BY <1>1, WithoutKeeps DEF Inv, StreamInv
<1>3. FinishLive(stream', Coming) => FinishLive(stream, Coming)
  BY <1>1, WithoutLive
<1>4. StreamInv(stream', Coming, task, finishes)
  BY <1>1, <1>2, <1>3
     DEF Dropped, Inv, StreamInv, FinishInv, Finishing, QuietInv, LastInv, ListenInv,
         PhaseInv, Started
<1>5. StreamInv(stream', Coming', task, finishes)
  BY <1>1, <1>2, <1>4, RanKeeps DEF Dropped
<1>6. QED
  BY <1>1, <1>5

LEMMA OnReadKeeps ==
  ASSUME Inv, NEW c, OnRead(c)
  PROVE  Inv'
<1> DEFINE w == Without(c)
           g == Read(w)
<1>1. /\ Running(c) /\ Armed(c) /\ c.type = "read" /\ queue' = Tail(queue)
      /\ poller' = poller /\ finishes' = finishes
  BY DEF OnRead
<1>2. /\ QueueTypes' /\ c \in Coming /\ c \in Completion
      /\ Coming' \subseteq Coming /\ Coming \subseteq Coming' \cup {c}
      /\ task.at = "idle" /\ Started /\ stream.observer
  BY <1>1, RunningFacts
<1>3. Dropped(w, Coming, c)
  BY <1>2, WithoutKeeps DEF Inv, StreamInv
<1>4. /\ Alive(stream, Coming, "write") => Alive(w, Coming, "write")
      /\ FinishLive(w, Coming) => FinishLive(stream, Coming)
      /\ LastLive(w, Coming) => LastLive(stream, Coming)
  BY <1>1, <1>2, OthersLive, WithoutLive
<1>5. c.tag < stream.tags /\ c.tag \in Nat /\ stream.tags \in Nat
  BY <1>2 DEF Inv, StreamInv, Core, Tagged, Stream, Completion
<1> HIDE DEF w
<1>6. /\ Core(w, Coming) /\ NoLive(w, Coming, "read")
      /\ w.phase = stream.phase /\ w.observer = stream.observer
      /\ w.finished = stream.finished
      /\ w.buffered = stream.buffered /\ w.active = stream.active
      /\ w.armed = stream.armed \ {c.tag} /\ w.tags = stream.tags /\ w.ops = stream.ops
      /\ w \in Stream
  BY <1>1, <1>3 DEF Dropped, Core
<1>7. Core(g, Coming)
  BY <1>6, ReadKeeps
<1>8. /\ g.phase = w.phase /\ g.observer = w.observer /\ g.finished = w.finished
      /\ g.buffered = w.buffered /\ g.active = w.active
      /\ g.completions # {}
      /\ c.tag \notin g.armed
      /\ Alive(g, Coming, "read")
      /\ Alive(w, Coming, "write") => Alive(g, Coming, "write")
      /\ FinishLive(g, Coming) => FinishLive(w, Coming)
      /\ LastLive(g, Coming) => LastLive(w, Coming)
  <2>1. PICK callback \in BOOLEAN : callback = TRUE
    OBVIOUS
  <2> DEFINE n == [tag |-> w.tags, type |-> "read", callback |-> callback, message |-> 0]
  <2>2. g = NewCompletion(w, "read", callback, 0)
    BY <1>2, <1>6, <2>1 DEF Read
  <2> HIDE DEF g
  <2>3. /\ g.phase = w.phase /\ g.observer = w.observer /\ g.finished = w.finished
        /\ g.buffered = w.buffered /\ g.active = w.active
        /\ g.completions = w.completions \cup {w.tags}
        /\ g.armed = w.armed \cup {w.tags} /\ g.ops = w.ops \cup {n}
    <3>1. w \in Stream /\ "read" \in Type /\ 0 \in Nat
      BY <1>6 DEF Type
    <3>2. QED
      BY <3>1, <2>2, NewFields
  <2>4. n.tag = w.tags /\ n.type = "read"
    OBVIOUS
  <2> HIDE DEF n
  <2>5. c.tag \notin g.armed
    BY <1>6, <1>5, <2>3
  <2>6. Alive(g, Coming, "read")
    <3>1. n \in g.ops /\ n.type = "read" /\ n.tag \in g.armed
      BY <2>3, <2>4
    <3>2. QED
      BY <3>1 DEF Alive
  <2>7. Alive(w, Coming, "write") => Alive(g, Coming, "write")
    BY <2>3 DEF Alive
  <2>8. FinishLive(g, Coming) => FinishLive(w, Coming)
    BY <2>3, <2>4 DEF FinishLive
  <2>9. \A d \in Coming : d.tag \in g.armed => d.tag \in w.armed
    BY <1>6, <2>3 DEF Core, Tagged, Stream, Completion
  <2>10. LastLive(g, Coming) => LastLive(w, Coming)
    BY <2>3, <2>4, <2>9 DEF LastLive
  <2>11. QED
    BY <2>3, <2>5, <2>6, <2>7, <2>8, <2>10
<1> HIDE DEF g
<1>9. delivered' \in Seq(Nat)
  <2>1. c.message \in Nat /\ delivered \in Seq(Nat)
    BY <1>2 DEF Inv, DataTypes, Completion
  <2>2. delivered' = Append(delivered, c.message)
    BY <1>2 DEF OnRead
  <2>3. QED
    BY <2>1, <2>2
<1>10. CASE stream' = g /\ UNCHANGED <<task, cancelled>>
  <2>1. StreamInv(stream', Coming, task', finishes')
    BY <1>1, <1>2, <1>6, <1>4, <1>7, <1>8, <1>10
       DEF Inv, StreamInv, FinishInv, Finishing, QuietInv, LastInv, ListenInv, PhaseInv, Started
  <2>2. StreamInv(stream', Coming', task', finishes')
    BY <1>2, <1>8, <1>10, <2>1, RanKeeps
  <2>3. DataTypes'
    BY <1>9, <1>10 DEF OnRead, Inv, DataTypes
  <2>4. QED
    BY <1>2, <1>10, <2>2, <2>3 DEF Inv
<1>11. CASE Shutdown(g, "stop")
  <2>1. Stoppable(g, Coming, finishes)
    BY <1>2, <1>6, <1>4, <1>7, <1>8
       DEF Stoppable, Startable, Inv, StreamInv, FinishInv, Finishing, Started
  <2>2. /\ task' \in Task /\ StreamInv(stream', Coming, task', finishes)
        /\ stream'.armed = {} /\ cancelled' \in BOOLEAN
    BY <1>11, <2>1, ShutdownKeeps DEF Inv, DataTypes
  <2>3. StreamInv(stream', Coming', task', finishes')
    BY <1>1, <1>2, <2>2, RanKeeps
  <2>4. DataTypes'
    BY <1>9, <2>2 DEF OnRead, Inv, DataTypes
  <2>5. QED
    BY <1>2, <2>2, <2>3, <2>4 DEF Inv
<1>12. QED
  BY <1>2, <1>10, <1>11 DEF OnRead, g, w

LEMMA OnWriteKeeps ==
  ASSUME Inv, NEW c, OnWrite(c)
  PROVE  Inv'
<1> DEFINE w == Without(c)
           k == [w EXCEPT !.active = FALSE]
<1>1. /\ Running(c) /\ Armed(c) /\ c.type = "write" /\ queue' = Tail(queue)
      /\ poller' = poller /\ finishes' = finishes /\ task' = task
  BY DEF OnWrite
<1>2. /\ QueueTypes' /\ c \in Coming /\ c \in Completion
      /\ Coming' \subseteq Coming /\ Coming \subseteq Coming' \cup {c}
      /\ task.at = "idle" /\ Started /\ stream.observer
  BY <1>1, RunningFacts
<1>3. DataTypes'
  BY DEF OnWrite, Inv, DataTypes
<1>4. CASE ~c.callback
  <2>1. stream' = Without(c)
    BY <1>4 DEF OnWrite
  <2>2. LastLive(stream, Coming)
    BY <1>1, <1>2, <1>4 DEF LastLive, Armed
  <2>3. stream.finished
    BY <1>2, <2>2 DEF Inv, StreamInv, LastInv
  <2>4. StreamInv(stream', Coming', task, finishes)
    BY <1>1, <2>1, <2>3, FinishedKeeps
  <2>5. QED
    BY <1>1, <1>2, <1>3, <2>4 DEF Inv
<1>5. CASE c.callback
  <2>1. Dropped(w, Coming, c)
    BY <1>2, WithoutKeeps DEF Inv, StreamInv
  <2>2. /\ Alive(stream, Coming, "read") => Alive(w, Coming, "read")
        /\ FinishLive(w, Coming) => FinishLive(stream, Coming)
        /\ LastLive(w, Coming) => LastLive(stream, Coming)
    BY <1>1, <1>2, OthersLive, WithoutLive
  <2>3. c.tag < stream.tags /\ c.tag \in Nat /\ stream.tags \in Nat
    BY <1>2 DEF Inv, StreamInv, Core, Tagged, Stream, Completion
  <2>4. stream' = NextWrite(w)
    BY <1>5 DEF OnWrite
  <2> HIDE DEF w
  <2>5. /\ Core(w, Coming) /\ NoLive(w, Coming, "write")
        /\ w.phase = stream.phase /\ w.observer = stream.observer
        /\ w.finished = stream.finished
        /\ w.armed = stream.armed \ {c.tag} /\ w.tags = stream.tags /\ w.ops = stream.ops
        /\ w \in Stream
    BY <1>1, <2>1 DEF Dropped, Core
  <2>6. stream' = TryStartWrite(k, TRUE)
    BY <1>2, <2>5, <2>4 DEF NextWrite
  <2>7. /\ k \in Stream /\ ~k.active /\ k.phase = w.phase /\ k.observer = w.observer
        /\ k.finished = w.finished /\ k.completions = w.completions
        /\ k.armed = w.armed /\ k.tags = w.tags /\ k.ops = w.ops
    BY <2>5 DEF Stream
  <2> HIDE DEF k
  <2>8. Core(k, Coming)
    BY <2>5, <2>7 DEF Core, Tagged, Single, NoLive
  <2>9. Follows(stream', k, Coming, TRUE)
    BY <2>6, <2>8, WriteKeeps
  <2>10. /\ Alive(w, Coming, "read") => Alive(k, Coming, "read")
         /\ FinishLive(k, Coming) => FinishLive(w, Coming)
         /\ LastLive(k, Coming) => LastLive(w, Coming)
    BY <2>7 DEF Alive, FinishLive, LastLive
  <2>11. StreamInv(stream', Coming, task', finishes')
    <3>1. ListenInv(stream', Coming)
      BY <1>2, <2>2, <2>5, <2>7, <2>9, <2>10
         DEF Follows, Inv, StreamInv, ListenInv, Started
    <3>2. /\ Core(stream', Coming) /\ (stream'.buffered # <<>> => stream'.active)
          /\ stream'.phase = "started" /\ stream'.observer
          /\ stream'.finished = stream.finished
      BY <1>2, <2>5, <2>7, <2>9 DEF Follows, Started
    <3>3. FinishInv(stream', Coming, task, finishes) /\ LastInv(stream', Coming, task)
      BY <2>2, <2>9, <2>10, <3>2 DEF Follows, Inv, StreamInv, FinishInv, LastInv
    <3>4. QED
      BY <1>1, <1>2, <3>1, <3>2, <3>3 DEF StreamInv, Finishing, QuietInv, PhaseInv
  <2>12. c.tag \notin stream'.armed
    BY <2>5, <2>3, <2>7, <2>9 DEF Follows
  <2>13. StreamInv(stream', Coming', task', finishes')
    BY <1>2, <2>11, <2>12, RanKeeps
  <2>14. QED
    BY <1>1, <1>2, <1>3, <2>13 DEF Inv
<1>6. QED
  BY <1>4, <1>5

LEMMA OnFinishKeeps ==
  ASSUME Inv, NEW c, OnFinish(c)
  PROVE  Inv'
<1>1. /\ Running(c) /\ Armed(c) /\ c.type = "finish" /\ queue' = Tail(queue)
      /\ poller' = poller /\ finishes' = finishes
  BY DEF OnFinish
<1>2. /\ QueueTypes' /\ c \in Coming
      /\ Coming' \subseteq Coming /\ Coming \subseteq Coming' \cup {c}
      /\ task.at = "idle" /\ Started /\ stream.observer
  BY <1>1, RunningFacts
<1>3. finishes = 1 /\ stream.finished
  BY <1>1, <1>2 DEF FinishLive, Inv, StreamInv, FinishInv
<1>4. CASE ~c.callback
  <2>1. stream' = Without(c) /\ UNCHANGED <<task, cancelled>>
    BY <1>4 DEF OnFinish
  <2>2. StreamInv(stream', Coming', task, finishes)
    BY <1>1, <1>3, <2>1, FinishedKeeps
  <2>3. DataTypes'
    BY <2>1 DEF OnFinish, Inv, DataTypes
  <2>4. QED
    BY <1>1, <1>2, <2>1, <2>2, <2>3 DEF Inv
<1>5. CASE c.callback
  <2> DEFINE w == Without(c)
  <2>1. Shutdown(w, "call")
    BY <1>5 DEF OnFinish
  <2>2. Dropped(w, Coming, c)
    BY <1>2, WithoutKeeps DEF Inv, StreamInv
  <2> HIDE DEF w
  <2>3. Stoppable(w, Coming, finishes)
    BY <1>2, <1>3, <2>2 DEF Dropped, Stoppable, Startable, Inv, StreamInv, Started
  <2>4. /\ task' \in Task /\ StreamInv(stream', Coming, task', finishes)
        /\ stream'.armed = {} /\ cancelled' \in BOOLEAN
    BY <2>1, <2>3, ShutdownKeeps DEF Inv, DataTypes
  <2>5. StreamInv(stream', Coming', task', finishes')
    BY <1>1, <1>2, <2>4, RanKeeps
  <2>6. DataTypes'
    BY <2>4 DEF OnFinish, Inv, DataTypes
  <2>7. QED
    BY <1>2, <2>4, <2>5, <2>6 DEF Inv
<1>6. QED
  BY <1>4, <1>5

LEMMA OnOperationFailedKeeps ==
  ASSUME Inv, NEW c, OnOperationFailed(c)
  PROVE  Inv'
<1>1. /\ Running(c) /\ Armed(c) /\ queue' = Tail(queue)
      /\ poller' = poller /\ finishes' = finishes
  BY DEF OnOperationFailed
<1>2. /\ QueueTypes' /\ c \in Coming
      /\ Coming' \subseteq Coming /\ Coming \subseteq Coming' \cup {c}
      /\ task.at = "idle" /\ Started /\ stream.observer
  BY <1>1, RunningFacts
<1>3. DataTypes'
  BY DEF OnOperationFailed, Inv, DataTypes
<1>4. CASE stream.finished
  <2>1. stream' = Without(c) /\ UNCHANGED task
    BY <1>4 DEF OnOperationFailed
  <2>2. StreamInv(stream', Coming', task, finishes)
    BY <1>1, <1>4, <2>1, FinishedKeeps
  <2>3. QED
    BY <1>1, <1>2, <1>3, <2>1, <2>2 DEF Inv
<1>5. CASE ~stream.finished
  <2> DEFINE w == Without(c)
  <2>1. FinishGrpcCall(w, "failing", "call")
    BY <1>5 DEF OnOperationFailed
  <2>2. Dropped(w, Coming, c)
    BY <1>2, WithoutKeeps DEF Inv, StreamInv
  <2>3. FinishLive(w, Coming) => FinishLive(stream, Coming)
    BY <1>2, WithoutLive
  <2> HIDE DEF w
  <2>4. Startable(w, Coming, finishes)
    BY <1>2, <1>5, <2>2, <2>3
       DEF Dropped, Startable, Inv, StreamInv, FinishInv, Finishing, Started
  <2>5. /\ task' \in Task /\ StreamInv(stream', Coming, task', finishes)
        /\ stream'.armed = {}
    BY <1>5, <2>1, <2>2, <2>4, FinishKeeps DEF Dropped
  <2>6. StreamInv(stream', Coming', task', finishes')
    BY <1>1, <1>2, <2>5, RanKeeps
  <2>7. QED
    BY <1>2, <1>3, <2>5, <2>6 DEF Inv
<1>6. QED
  BY <1>4, <1>5

-----------------------------------------------------------------------------
(* gRPC, the poller and the server.                                        *)

\* An operation comes back, whatever it says.
LEMMA ReturnsKeep ==
  ASSUME Inv, NEW o \in stream.ops, NEW message \in Nat, NEW ok \in BOOLEAN,
         Return(o, message, ok), UNCHANGED <<queue, task, finishes>>, DataTypes'
  PROVE  Inv'
<1>1. stream \in Stream /\ StreamInv(stream, Coming, task, finishes)
  BY DEF Inv, StreamInv, Core
<1>2. PICK c \in Completion :
        /\ Coming' = Coming \cup {c}
        /\ c.tag = o.tag /\ c.type = o.type /\ c.callback = o.callback
  BY <1>1, ReturnComing DEF Inv
<1>3. QueueTypes' /\ stream' = [stream EXCEPT !.ops = @ \ {o}]
  BY <1>1, ReturnComing DEF Inv
<1>4. StreamInv(stream', Coming \cup {c}, task, finishes)
  BY <1>1, <1>2, <1>3, ReturnKeeps
<1>5. QED
  BY <1>2, <1>3, <1>4 DEF Inv

LEMMA ReadReturnsKeeps ==
  ASSUME Inv, NEW o \in stream.ops, ReadReturns(o)
  PROVE  Inv'
<1>1. inbox \in Seq(Nat) /\ inbox # <<>> /\ inbox' = Tail(inbox)
  BY DEF ReadReturns, Inv, DataTypes
<1>2. Head(inbox) \in Nat /\ inbox' \in Seq(Nat)
  BY <1>1
<1>3. DataTypes'
  BY <1>2 DEF ReadReturns, Inv, DataTypes
<1>4. /\ Return(o, Head(inbox), TRUE) /\ TRUE \in BOOLEAN
      /\ UNCHANGED <<queue, task, finishes>>
  BY DEF ReadReturns
<1>5. QED
  BY <1>2, <1>3, <1>4, ReturnsKeep

LEMMA WriteReturnsKeeps ==
  ASSUME Inv, NEW o \in stream.ops, WriteReturns(o)
  PROVE  Inv'
<1>1. o.message \in Nat
  BY DEF Inv, StreamInv, Core, Stream, Op
<1>2. DataTypes'
  BY <1>1 DEF WriteReturns, Inv, DataTypes
<1>3. /\ Return(o, 0, TRUE) /\ 0 \in Nat /\ TRUE \in BOOLEAN
      /\ UNCHANGED <<queue, task, finishes>>
  BY DEF WriteReturns
<1>4. QED
  BY <1>2, <1>3, ReturnsKeep

LEMMA OverReturnsKeeps ==
  ASSUME Inv, NEW o \in stream.ops, OverReturns(o)
  PROVE  Inv'
<1> DEFINE ok == o.type = "finish"
<1>1. DataTypes'
  BY DEF OverReturns, Inv, DataTypes
<1>2. /\ Return(o, 0, ok) /\ 0 \in Nat /\ ok \in BOOLEAN
      /\ UNCHANGED <<queue, task, finishes>>
  BY DEF OverReturns
<1> HIDE DEF ok
<1>3. QED
  BY <1>1, <1>2, ReturnsKeep

LEMMA EnqueueKeeps ==
  ASSUME Inv, Enqueue
  PROVE  Inv'
<1>1. QueueTypes' /\ Coming' = Coming
  BY EnqueueComing DEF Inv
<1>2. DataTypes' /\ stream' = stream /\ task' = task /\ finishes' = finishes
  BY DEF Enqueue, Inv, DataTypes
<1>3. QED
  BY <1>1, <1>2 DEF Inv

LEMMA ServerKeeps ==
  ASSUME Inv, ServerSends \/ CallEnds
  PROVE  Inv'
<1>1. /\ stream' = stream /\ task' = task /\ finishes' = finishes
      /\ Coming' = Coming /\ QueueTypes'
  BY DEF ServerSends, CallEnds, Coming, Inv, QueueTypes
<1>2. sent \in Seq(Nat) /\ inbox \in Seq(Nat) /\ Len(sent) + 1 \in Nat
  BY DEF Inv, DataTypes
<1>3. CASE ServerSends
  <2>1. sent' = Append(sent, Len(sent) + 1) /\ inbox' = Append(inbox, Len(sent) + 1)
    BY <1>3 DEF ServerSends
  <2>2. sent' \in Seq(Nat) /\ inbox' \in Seq(Nat)
    BY <1>2, <2>1
  <2>3. DataTypes'
    BY <1>3, <2>2 DEF ServerSends, Inv, DataTypes
  <2>4. QED
    BY <1>1, <2>3 DEF Inv
<1>4. CASE CallEnds
  <2>1. DataTypes'
    BY <1>4 DEF CallEnds, Inv, DataTypes
  <2>2. QED
    BY <1>1, <2>1 DEF Inv
<1>5. QED
  BY <1>3, <1>4

-----------------------------------------------------------------------------
(* Theorems.                                                               *)

LEMMA InitInv ==
  ASSUME Init
  PROVE  Inv
<1>1. /\ stream \in Stream
      /\ stream.phase = "created" /\ stream.observer /\ ~stream.finished
      /\ stream.buffered = <<>> /\ ~stream.active
      /\ stream.completions = {} /\ stream.armed = {} /\ stream.ops = {}
  BY DEF Init, Stream
<1>2. Coming = {} /\ QueueTypes
  BY DEF Init, Coming, QueueTypes
<1>3. Core(stream, Coming)
  BY <1>1, <1>2 DEF Core, Tagged, Single, NoLive
<1>4. task \in Task /\ task.at = "idle" /\ finishes = 0
  BY DEF Init, Idle, Task
<1>5. ~FinishLive(stream, Coming) /\ ~LastLive(stream, Coming)
  BY <1>1, <1>2 DEF FinishLive, LastLive
<1>6. StreamInv(stream, Coming, task, finishes)
  BY <1>1, <1>2, <1>3, <1>4, <1>5
     DEF StreamInv, FinishInv, Finishing, QuietInv, LastInv, ListenInv, PhaseInv
<1>7. DataTypes
  <2>1. <<>> \in Seq(Nat) /\ <<>> \in Seq({"call", "connectivity"})
    OBVIOUS
  <2>2. QED
    BY <2>1 DEF Init, DataTypes
<1>8. QED
  BY <1>2, <1>4, <1>6, <1>7 DEF Inv

\* Every step of the worker, its callers, the poller, gRPC and the server.
LEMMA NextKeeps ==
  ASSUME Inv, [Next]_vars
  PROVE  Inv'
<1>1. CASE \E c \in {queue[i] : i \in DOMAIN queue} :
             RunCancelled(c) \/ OnRead(c) \/ OnWrite(c) \/ OnFinish(c) \/ OnOperationFailed(c)
  BY <1>1, RunCancelledKeeps, OnReadKeeps, OnWriteKeeps, OnFinishKeeps,
     OnOperationFailedKeeps
<1>2. CASE CallFinished \/ Drained \/ Start \/ WriteMessage \/ WriteAndFinish
  BY <1>2, CallFinishedKeeps, DrainedKeeps, StartKeeps, WriteMessageKeeps,
     WriteAndFinishKeeps
<1>3. CASE LastWriteEnds
  <2>1. Started
    BY <1>3 DEF LastWriteEnds, Inv, StreamInv, PhaseInv, Started
  <2>2. QED
    BY <1>3, <2>1, StopKeeps DEF LastWriteEnds
<1>4. CASE FinishImmediately
  BY <1>4, StopKeeps DEF FinishImmediately, WorkerFree
<1>5. CASE ConnectivityChanged
  BY <1>5, StopKeeps DEF ConnectivityChanged, WorkerFree
<1>6. CASE Enqueue \/ ServerSends \/ CallEnds
  BY <1>6, EnqueueKeeps, ServerKeeps
<1>7. CASE \E o \in stream.ops : ReadReturns(o) \/ WriteReturns(o) \/ OverReturns(o)
  BY <1>7, ReadReturnsKeeps, WriteReturnsKeeps, OverReturnsKeeps
<1>8. CASE UNCHANGED vars
  <2>1. /\ stream' = stream /\ task' = task /\ finishes' = finishes
        /\ Coming' = Coming /\ QueueTypes' /\ DataTypes'
    BY <1>8 DEF vars, Coming, Inv, QueueTypes, DataTypes
  <2>2. QED
    BY <2>1 DEF Inv
<1>9. QED
  BY <1>1, <1>2, <1>3, <1>4, <1>5, <1>6, <1>7, <1>8 DEF Next, Worker, Calls

\* The inductive invariant: the object's completions, what gRPC and the queue hold
\* of them, and the worker's task belong together.
THEOREM Invariance == Spec => []Inv
<1>1. Init => Inv
  BY InitInv
<1>2. Inv /\ [Next]_vars => Inv'
  BY NextKeeps
<1>3. QED
  BY <1>1, <1>2, PTL DEF Spec

\* The variables keep their types; the poller holds one completion at most.
THEOREM TypeCorrect == Spec => []TypeOK
<1>1. Inv => TypeOK
  <2> SUFFICES ASSUME Inv PROVE TypeOK
    OBVIOUS
  <2>1. poller \in SUBSET Completion /\ Cardinality(poller) <= 1
    <3>1. CASE poller = {}
      BY <3>1, FS_EmptySet
    <3>2. CASE \E c \in Completion : poller = {c}
      BY <3>2, FS_Singleton
    <3>3. QED
      BY <3>1, <3>2 DEF Inv, QueueTypes
  <2>2. stream \in Stream /\ finishes \in Nat
    BY DEF Inv, StreamInv, Core, FinishInv
  <2>3. QED
    BY <2>1, <2>2 DEF Inv, DataTypes, QueueTypes, TypeOK
<1>2. QED
  BY <1>1, Invariance, PTL

\* gRPC never has two reads or two writes of a call, nor anything besides a finish
\* that was issued before it (grpc_stream.cc: Write, FinishGrpcCall).
THEOREM OneOfEachTypeHolds == Spec => []OneOfEachType
<1>1. Inv => OneOfEachType
  BY DEF Inv, StreamInv, Core, Single, OneOfEachType
<1>2. QED
  BY <1>1, Invariance, PTL

\* A call is finished once, and before the object goes, whichever of a failure, a
\* stop and a change of connectivity comes first (FinishGrpcCall, Shutdown).
THEOREM FinishedProperlyHolds == Spec => []FinishedProperly
<1>1. Inv => FinishedProperly
  BY DEF Inv, StreamInv, Core, Single, FinishInv, PhaseInv, FinishedProperly
<1>2. QED
  BY <1>1, Invariance, PTL

\* Nothing that is still on its way reaches a destroyed object (Shutdown,
\* FastFinishCompletionsBlocking, GrpcCompletion::Cancel).
THEOREM NothingDanglesHolds == Spec => []NothingDangles
<1>1. Inv => NothingDangles
  <2> SUFFICES ASSUME Inv, stream.phase = "destroyed"
               PROVE  /\ stream.ops = {} /\ stream.completions = {}
                      /\ \A c \in Coming : ~Armed(c)
    BY DEF NothingDangles, Coming
  <2>1. stream.completions = {}
    BY DEF Inv, StreamInv, PhaseInv
  <2>2. stream.ops = {} /\ stream.armed = {}
    BY <2>1 DEF Inv, StreamInv, Core, Tagged
  <2>3. QED
    BY <2>1, <2>2 DEF Armed
<1>2. QED
  BY <1>1, Invariance, PTL

\* While the call is good a read is on its way, and a write when one is buffered
\* (OnRead, OnWrite, BufferedWriter).
THEOREM AlwaysListeningHolds == Spec => []AlwaysListening
<1>1. Inv => AlwaysListening
  <2> SUFFICES ASSUME Inv, Started, ~stream.finished
               PROVE  /\ Alive(stream, Coming, "read")
                      /\ stream.buffered # <<>> => Alive(stream, Coming, "write")
    BY DEF AlwaysListening, Alive, Coming, Armed
  <2>1. QED
    BY DEF Inv, StreamInv, ListenInv, Started
<1>2. QED
  BY <1>1, Invariance, PTL

=============================================================================
