---------------------------- MODULE GrpcStreamOrder ----------------------------
(***************************************************************************)
(* GrpcStream implements MessageStream, for any number of messages: where  *)
(* each message of either direction is, and that every step passes the     *)
(* next one or none.                                                       *)
(***************************************************************************)
EXTENDS GrpcStreamProofs

-----------------------------------------------------------------------------
(* Where the messages are.                                                 *)

Numbered(s) == \A i \in DOMAIN s : s[i] = i

\* q holds the last Len(q) messages of s.
EndOf(q, s) ==
  /\ Len(q) <= Len(s)
  /\ \A i \in DOMAIN q : q[i] = Len(s) - Len(q) + i

\* The server's messages s are those delivered, d, the one in a read that will be
\* heard of, and those not read, q.
ReadOrder(g, C, s, d, q) ==
  /\ EndOf(q, s)
  /\ \A o \in g.ops : o.type = "read" /\ o.tag \in g.armed => Len(d) + Len(q) = Len(s)
  /\ \A c \in C : c.type = "read" /\ c.tag \in g.armed /\ c.ok =>
       c.message = Len(d) + 1 /\ Len(d) + 1 + Len(q) = Len(s)

\* The client's messages w are those gRPC has taken, a, the one in a write, and
\* those buffered.
WriteOrder(g, w, a) ==
  /\ EndOf(g.buffered, w)
  /\ \A o \in g.ops : o.type = "write" =>
       o.message = Len(a) + 1 /\ Len(a) + 1 + Len(g.buffered) = Len(w)
  /\ (\A o \in g.ops : o.type # "write") => Len(a) + Len(g.buffered) = Len(w)

OrderInv ==
  /\ Numbered(sent) /\ Numbered(written)
  /\ ReadOrder(stream, Coming, sent, delivered, inbox)
  /\ ~Over => WriteOrder(stream, written, accepted)
  /\ stream.phase = "created" =>
       /\ inbox = <<>> /\ sent = <<>> /\ delivered = <<>>
       /\ written = <<>> /\ accepted = <<>>

-----------------------------------------------------------------------------
(* Sequences.                                                              *)

LEMMA AppendNumbered ==
  ASSUME NEW s \in Seq(Nat), Numbered(s)
  PROVE  Numbered(Append(s, Len(s) + 1))
BY DEF Numbered

LEMMA AppendEnd ==
  ASSUME NEW q \in Seq(Nat), NEW s \in Seq(Nat), EndOf(q, s)
  PROVE  EndOf(Append(q, Len(s) + 1), Append(s, Len(s) + 1))
<1> DEFINE r == Append(q, Len(s) + 1)
           t == Append(s, Len(s) + 1)
<1>1. /\ Len(q) \in Nat /\ Len(s) \in Nat
      /\ Len(r) = Len(q) + 1 /\ Len(t) = Len(s) + 1
      /\ DOMAIN q = 1..Len(q) /\ DOMAIN r = 1..(Len(q) + 1)
      /\ \A i \in 1..Len(q) : r[i] = q[i]
      /\ r[Len(q) + 1] = Len(s) + 1
  OBVIOUS
<1> HIDE DEF r, t
<1>2. Len(r) <= Len(t)
  BY <1>1 DEF EndOf
<1>3. ASSUME NEW i \in DOMAIN r PROVE r[i] = Len(t) - Len(r) + i
  <2>1. Len(t) - Len(r) + i = Len(s) - Len(q) + i /\ i \in Int
    BY <1>1, <1>3
  <2>2. CASE i \in DOMAIN q
    <3>1. q[i] = Len(s) - Len(q) + i
      BY <2>2 DEF EndOf
    <3>2. QED
      BY <1>1, <2>1, <2>2, <3>1
  <2>3. CASE i = Len(q) + 1
    BY <1>1, <2>1, <2>3
  <2>4. QED
    BY <1>1, <1>3, <2>2, <2>3
<1>4. QED
  BY <1>2, <1>3 DEF EndOf, r, t

LEMMA TailEnd ==
  ASSUME NEW q \in Seq(Nat), NEW s \in Seq(Nat), EndOf(q, s), q # <<>>
  PROVE  /\ EndOf(Tail(q), s)
         /\ Head(q) = Len(s) - Len(q) + 1
         /\ Len(Tail(q)) = Len(q) - 1
<1> DEFINE r == Tail(q)
<1>1. /\ Len(q) \in Nat /\ Len(s) \in Nat /\ Len(q) >= 1
      /\ Len(r) = Len(q) - 1
      /\ DOMAIN q = 1..Len(q) /\ DOMAIN r = 1..(Len(q) - 1)
      /\ \A i \in 1..(Len(q) - 1) : r[i] = q[i + 1]
      /\ Head(q) = q[1]
  OBVIOUS
<1> HIDE DEF r
<1>2. ASSUME NEW i \in DOMAIN r PROVE r[i] = Len(s) - Len(r) + i
  <2>1. i + 1 \in DOMAIN q /\ r[i] = q[i + 1] /\ i \in Int
    BY <1>1, <1>2
  <2>2. q[i + 1] = Len(s) - Len(q) + (i + 1)
    BY <2>1 DEF EndOf
  <2>3. QED
    BY <1>1, <2>1, <2>2
<1>3. Head(q) = Len(s) - Len(q) + 1
  <2>1. 1 \in DOMAIN q
    BY <1>1
  <2>2. q[1] = Len(s) - Len(q) + 1
    BY <2>1 DEF EndOf
  <2>3. QED
    BY <1>1, <2>2
<1>4. QED
  BY <1>1, <1>2, <1>3 DEF EndOf, r

-----------------------------------------------------------------------------
(* What the object's steps do to reads and writes.                         *)

\* Nothing that reads are ordered by has come.
LEMMA FewerReads ==
  ASSUME NEW g, NEW h, NEW C, NEW D, NEW s, NEW d, NEW q,
         ReadOrder(g, C, s, d, q),
         \A o \in h.ops : o.type = "read" /\ o.tag \in h.armed =>
                            o \in g.ops /\ o.tag \in g.armed,
         \A c \in D : c.type = "read" /\ c.tag \in h.armed /\ c.ok =>
                            c \in C /\ c.tag \in g.armed
  PROVE  ReadOrder(h, D, s, d, q)
BY DEF ReadOrder

\* The same writes and the same buffer.
LEMMA SameWrites ==
  ASSUME NEW g, NEW h, NEW w, NEW a, WriteOrder(g, w, a),
         h.buffered = g.buffered,
         \A o \in h.ops : o.type = "write" => o \in g.ops,
         \A o \in g.ops : o.type = "write" => o \in h.ops
  PROVE  WriteOrder(h, w, a)
BY DEF WriteOrder

LEMMA ShutdownFields ==
  ASSUME NEW g \in Stream, NEW about, Shutdown(g, about)
  PROVE  /\ stream'.phase = g.phase /\ stream'.ops = g.ops /\ stream'.buffered = g.buffered
         /\ stream'.armed \subseteq g.armed
         /\ cancelled => cancelled'
BY DEF Shutdown, FinishGrpcCall, CancelCompletions, TryCancel, Stream

\* The first buffered message is issued.
Issues(k, h) ==
  /\ k.buffered # <<>> /\ ~k.active
  /\ h.phase = k.phase /\ h.buffered = Tail(k.buffered)
  /\ h.armed = k.armed \cup {k.tags}
  /\ \E n \in Op : /\ n.type = "write" /\ n.message = Head(k.buffered)
                   /\ n.tag = k.tags /\ h.ops = k.ops \cup {n}

LEMMA StartFields ==
  ASSUME NEW k \in Stream, NEW callback \in BOOLEAN, NEW h, h = TryStartWrite(k, callback)
  PROVE  h = k \/ Issues(k, h)
<1>1. CASE k.buffered = <<>> \/ k.active
  BY <1>1 DEF TryStartWrite
<1>2. CASE ~(k.buffered = <<>> \/ k.active)
  <2> DEFINE j == [k EXCEPT !.active = TRUE, !.buffered = Tail(@)]
             n == [tag |-> k.tags, type |-> "write", callback |-> callback,
                   message |-> Head(k.buffered)]
  <2>1. k.buffered \in Seq(Nat) /\ k.buffered # <<>> /\ k.tags \in Nat
    BY <1>2 DEF Stream
  <2>2. Tail(k.buffered) \in Seq(Nat) /\ Head(k.buffered) \in Nat
    BY <2>1
  <2>3. /\ j \in Stream /\ j.ops = k.ops /\ j.armed = k.armed /\ j.tags = k.tags
        /\ j.phase = k.phase /\ j.buffered = Tail(k.buffered)
    BY <2>1, <2>2 DEF Stream
  <2> HIDE DEF j
  <2>4. h = NewCompletion(j, "write", callback, Head(k.buffered))
    BY <1>2 DEF TryStartWrite, j
  <2>5. /\ h.phase = k.phase /\ h.buffered = Tail(k.buffered)
        /\ h.armed = k.armed \cup {k.tags} /\ h.ops = k.ops \cup {n}
    <3>1. "write" \in Type
      BY DEF Type
    <3>2. QED
      BY <2>2, <2>3, <2>4, <3>1, NewFields
  <2>6. n \in Op /\ n.type = "write" /\ n.message = Head(k.buffered) /\ n.tag = k.tags
    BY <2>1, <2>2 DEF Op, Type
  <2> HIDE DEF n
  <2>7. QED
    BY <1>2, <2>5, <2>6 DEF Issues
<1>3. QED
  BY <1>1, <1>2

\* The order of both directions through TryStartWrite.
LEMMA StartOrder ==
  ASSUME NEW k, NEW C, Core(k, C), NEW callback \in BOOLEAN,
         NEW h, h = TryStartWrite(k, callback), NEW w \in Seq(Nat), NEW a \in Seq(Nat)
  PROVE  /\ h.phase = k.phase
         /\ WriteOrder(k, w, a) => WriteOrder(h, w, a)
         /\ \A s, d, q : ReadOrder(k, C, s, d, q) => ReadOrder(h, C, s, d, q)
<1>1. k \in Stream /\ k.tags \in Nat
  BY DEF Core, Stream
<1>2. CASE h = k
  BY <1>2
<1>3. CASE Issues(k, h)
  <2>1. PICK n \in Op : /\ n.type = "write" /\ n.message = Head(k.buffered)
                        /\ n.tag = k.tags /\ h.ops = k.ops \cup {n}
    BY <1>3 DEF Issues
  <2>2. \A o \in k.ops : o.type # "write" /\ o.tag # k.tags
    BY <1>1, <1>3 DEF Issues, Core, NoLive, Tagged, Stream, Op
  <2>3. \A c \in C : c.tag # k.tags
    BY <1>1 DEF Core, Tagged, Completion
  <2>4. ASSUME WriteOrder(k, w, a) PROVE WriteOrder(h, w, a)
    <3> DEFINE b == Len(k.buffered)
               l == Len(a)
               m == Len(w)
    <3>1. k.buffered \in Seq(Nat) /\ EndOf(k.buffered, w)
      BY <1>1, <2>4 DEF WriteOrder, Stream
    <3>2. l \in Nat /\ b \in Nat /\ m \in Nat
      BY <3>1
    <3>3. l + b = m
      BY <2>2, <2>4 DEF WriteOrder
    <3>4. EndOf(h.buffered, w) /\ n.message = m - b + 1 /\ Len(h.buffered) = b - 1
      BY <1>3, <2>1, <3>1, TailEnd DEF Issues
    <3> HIDE DEF b, l, m
    <3>5. m - b + 1 = l + 1 /\ l + 1 + (b - 1) = m
      BY <3>2, <3>3
    <3>6. QED
      BY <2>1, <2>2, <3>4, <3>5 DEF WriteOrder, b, l, m
  <2>5. ASSUME NEW s, NEW d, NEW q, ReadOrder(k, C, s, d, q) PROVE ReadOrder(h, C, s, d, q)
    BY <1>3, <2>1, <2>2, <2>3, <2>5 DEF Issues, ReadOrder
  <2>6. QED
    BY <1>3, <2>4, <2>5 DEF Issues
<1>4. QED
  BY <1>1, <1>2, <1>3, StartFields

LEMMA OneMore ==
  ASSUME NEW b \in Nat, NEW l \in Nat, NEW m \in Nat
  PROVE  l + 1 + b = m => l + 1 + (b + 1) = m + 1
OBVIOUS

\* The order of both directions through Write.
Grows(h, g, C, w, a) ==
  /\ h.phase = g.phase
  /\ WriteOrder(g, w, a) => WriteOrder(h, Append(w, Len(w) + 1), a)
  /\ \A s, d, q : ReadOrder(g, C, s, d, q) => ReadOrder(h, C, s, d, q)

LEMMA WriteOrdered ==
  ASSUME NEW g, NEW C, Core(g, C), NEW callback \in BOOLEAN,
         NEW w \in Seq(Nat), NEW a \in Seq(Nat), NEW h,
         h = TryStartWrite([g EXCEPT !.buffered = Append(@, Len(w) + 1)], callback)
  PROVE  Grows(h, g, C, w, a)
<1> DEFINE v == Append(w, Len(w) + 1)
           k == [g EXCEPT !.buffered = Append(@, Len(w) + 1)]
<1>1. Len(w) + 1 \in Nat /\ v \in Seq(Nat) /\ Len(v) = Len(w) + 1 /\ Len(w) \in Nat
  OBVIOUS
<1>2. Core(k, C)
  BY <1>1, BufferKeeps
<1>3. /\ k \in Stream /\ k.buffered = Append(g.buffered, Len(w) + 1)
      /\ k.phase = g.phase /\ k.armed = g.armed /\ k.ops = g.ops
  <2> DEFINE n == Len(w) + 1
  <2>1. g \in Stream /\ n \in Nat /\ k = [g EXCEPT !.buffered = Append(@, n)]
    BY <1>1 DEF Core
  <2>1a. Append(g.buffered, n) \in Seq(Nat)
    BY <2>1 DEF Stream
  <2> HIDE DEF n, k
  <2>2. /\ k \in Stream /\ k.buffered = Append(g.buffered, n)
        /\ k.phase = g.phase /\ k.armed = g.armed /\ k.ops = g.ops
    BY <2>1, <2>1a DEF Stream
  <2>3. QED
    BY <2>2 DEF n
<1>4. h = TryStartWrite(k, callback)
  OBVIOUS
<1> HIDE DEF k, v
<1>5. /\ h.phase = k.phase
      /\ WriteOrder(k, v, a) => WriteOrder(h, v, a)
      /\ \A s, d, q : ReadOrder(k, C, s, d, q) => ReadOrder(h, C, s, d, q)
  BY <1>1, <1>2, <1>4, StartOrder
<1>6. ASSUME WriteOrder(g, w, a) PROVE WriteOrder(k, v, a)
  <2>1. g.buffered \in Seq(Nat) /\ EndOf(g.buffered, w)
    BY <1>6 DEF WriteOrder, Core, Stream
  <2>2. EndOf(k.buffered, v) /\ Len(k.buffered) = Len(g.buffered) + 1
    BY <1>3, <2>1, AppendEnd DEF v
  <2>3. Len(g.buffered) \in Nat /\ Len(a) \in Nat
    BY <2>1
  <2> DEFINE b == Len(g.buffered)
             l == Len(a)
             m == Len(w)
  <2>3a. Len(k.buffered) = b + 1 /\ Len(v) = m + 1
    BY <1>1, <2>2
  <2>4. b \in Nat /\ l \in Nat /\ m \in Nat
    BY <1>1, <2>3
  <2>5. \A o \in g.ops : o.type = "write" => o.message = l + 1 /\ l + 1 + b = m
    BY <1>6 DEF WriteOrder
  <2>6. (\A o \in g.ops : o.type # "write") => l + b = m
    BY <1>6 DEF WriteOrder
  <2> HIDE DEF b, l, m
  <2>7. \A o \in g.ops : o.type = "write" => o.message = l + 1 /\ l + 1 + (b + 1) = m + 1
    <3>1. l + 1 + b = m => l + 1 + (b + 1) = m + 1
      BY <2>4, OneMore
    <3>2. QED
      BY <2>5, <3>1
  <2>8. (\A o \in g.ops : o.type # "write") => l + (b + 1) = m + 1
    BY <2>4, <2>6
  <2>9. QED
    BY <1>3, <2>2, <2>3a, <2>7, <2>8 DEF WriteOrder, l
<1>7. \A s, d, q : ReadOrder(g, C, s, d, q) => ReadOrder(k, C, s, d, q)
  BY <1>3 DEF ReadOrder
<1>8. QED
  BY <1>3, <1>5, <1>6, <1>7 DEF Grows, v

-----------------------------------------------------------------------------
(* Steps that move no message.                                             *)

Messages == <<inbox, sent, delivered, written, accepted>>

\* A read that will be heard of was one before.
ReadsStay ==
  /\ \A o \in stream'.ops : o.type = "read" /\ o.tag \in stream'.armed =>
       o \in stream.ops /\ o.tag \in stream.armed
  /\ \A c \in Coming' : c.type = "read" /\ c.tag \in stream'.armed /\ c.ok =>
       c \in Coming /\ c.tag \in stream.armed

WritesStay ==
  /\ stream'.buffered = stream.buffered
  /\ \A o \in stream'.ops : o.type = "write" => o \in stream.ops
  /\ \A o \in stream.ops : o.type = "write" => o \in stream'.ops

LEMMA OverStays ==
  ASSUME UNCHANGED ended, cancelled => cancelled'
  PROVE  ~Over' => ~Over
BY DEF Over

LEMMA StaysOrdered ==
  ASSUME OrderInv, UNCHANGED Messages, ReadsStay, ~Over' => ~Over /\ WritesStay,
         stream'.phase # "created"
  PROVE  OrderInv'
<1>1. /\ inbox' = inbox /\ sent' = sent /\ delivered' = delivered
      /\ written' = written /\ accepted' = accepted
  BY DEF Messages
<1>2. ReadOrder(stream', Coming', sent, delivered, inbox)
  BY FewerReads DEF ReadsStay, OrderInv
<1>3. ~Over' => WriteOrder(stream', written, accepted)
  BY SameWrites DEF WritesStay, OrderInv
<1>4. QED
  BY <1>1, <1>2, <1>3 DEF OrderInv

-----------------------------------------------------------------------------
(* Steps of the message stream.                                            *)

Gone == stream.phase = "destroyed"

LEMMA NoStep ==
  ASSUME UNCHANGED <<sent, delivered, written, accepted, notified>>, Gone' = Gone
  PROVE  UNCHANGED Channel!vars
BY DEF Channel!vars, Gone

LEMMA WriteStep ==
  ASSUME ~Gone, ~Gone', written' = Append(written, Len(written) + 1),
         UNCHANGED <<sent, delivered, accepted>>
  PROVE  Channel!Next
BY DEF Channel!Next, Channel!Write, Channel!Produced, Gone

LEMMA DeliverStep ==
  ASSUME ~Gone, ~Gone', Len(delivered) < Len(sent),
         delivered' = Append(delivered, sent[Len(delivered) + 1]),
         UNCHANGED <<sent, written, accepted>>
  PROVE  Channel!Next
BY DEF Channel!Next, Channel!Deliver, Channel!Passes, Gone

LEMMA AcceptStep ==
  ASSUME ~Gone, ~Gone', Len(accepted) < Len(written),
         accepted' = Append(accepted, written[Len(accepted) + 1]),
         UNCHANGED <<sent, delivered, written>>
  PROVE  Channel!Next
BY DEF Channel!Next, Channel!Accept, Channel!Passes, Gone

LEMMA SendStep ==
  ASSUME Gone' = Gone, sent' = Append(sent, Len(sent) + 1),
         UNCHANGED <<delivered, written, accepted, notified>>
  PROVE  Channel!Next
BY DEF Channel!Next, Channel!ServerSends, Channel!Produced, Gone

LEMMA FinishStep ==
  ASSUME ~Gone, Gone', UNCHANGED <<sent, delivered, written, accepted>>
  PROVE  Channel!Next
BY DEF Channel!Next, Channel!Finish, Gone

\* A step keeps the order and is one of the message stream, or none.
Simulates == OrderInv' /\ [Channel!Next]_(Channel!vars)

LEMMA QuietStep ==
  ASSUME OrderInv, UNCHANGED Messages, UNCHANGED notified, ReadsStay,
         ~Over' => ~Over /\ WritesStay, stream'.phase # "created", Gone' = Gone
  PROVE  Simulates
<1>1. OrderInv'
  BY StaysOrdered
<1>2. UNCHANGED <<sent, delivered, written, accepted, notified>>
  BY DEF Messages
<1>3. UNCHANGED Channel!vars
  BY <1>2, NoStep
<1>4. QED
  BY <1>1, <1>3 DEF Simulates

-----------------------------------------------------------------------------
(* The worker's steps.                                                     *)

\* What Shutdown leaves of reads and writes.
LEMMA StopSimulates ==
  ASSUME Inv, OrderInv, Started, NEW g \in Stream, NEW about, Shutdown(g, about),
         g.phase = stream.phase, g.ops = stream.ops, g.buffered = stream.buffered,
         g.armed \subseteq stream.armed, Coming' \subseteq Coming,
         UNCHANGED <<ended, inbox, sent, delivered, written, accepted, notified>>
  PROVE  Simulates
<1>1. /\ stream'.phase = g.phase /\ stream'.ops = g.ops /\ stream'.buffered = g.buffered
      /\ stream'.armed \subseteq g.armed /\ (cancelled => cancelled')
  BY ShutdownFields
<1>2. ReadsStay /\ WritesStay
  BY <1>1 DEF ReadsStay, WritesStay
<1>3. ~Over' => ~Over
  BY <1>1, OverStays
<1>4. stream'.phase # "created" /\ Gone' = Gone
  BY <1>1 DEF Started, Gone
<1>5. UNCHANGED Messages /\ UNCHANGED notified
  BY DEF Messages
<1>6. QED
  BY <1>2, <1>3, <1>4, <1>5, QuietStep

LEMMA StreamType ==
  ASSUME Inv
  PROVE  stream \in Stream /\ Core(stream, Coming)
BY DEF Inv, StreamInv, Core

LEMMA RunCancelledSimulates ==
  ASSUME Inv, OrderInv, NEW c, RunCancelled(c)
  PROVE  Simulates
<1>1. /\ Running(c) /\ queue' = Tail(queue) /\ poller' = poller /\ stream' = stream
      /\ cancelled' = cancelled /\ ended' = ended /\ UNCHANGED Messages
      /\ UNCHANGED notified
  BY DEF RunCancelled, Messages
<1>2. c \in Coming /\ Coming' \subseteq Coming
  BY <1>1, RunningFacts
<1>3. stream.phase # "created"
  BY <1>2 DEF Inv, StreamInv, PhaseInv
<1>4. ReadsStay /\ WritesStay
  BY <1>1, <1>2 DEF ReadsStay, WritesStay
<1>5. (~Over' => ~Over) /\ Gone' = Gone /\ stream'.phase # "created"
  BY <1>1, <1>3 DEF Over, Gone
<1>6. QED
  BY <1>1, <1>4, <1>5, QuietStep

LEMMA CallFinishedSimulates ==
  ASSUME Inv, OrderInv, CallFinished
  PROVE  Simulates
<1> DEFINE g == [stream EXCEPT !.completions = {}]
           notify == task.at = "failing"
           h == NewCompletion(g, "finish", notify, 0)
           n == [tag |-> g.tags, type |-> "finish", callback |-> notify, message |-> 0]
<1>1. /\ stream.ops = {} /\ stream.phase = "started"
      /\ stream \in Stream /\ stream.tags \in Nat
      /\ \A c \in Coming : c.tag # stream.tags
  <2>1. Finishing(task) /\ OffQueue(stream)
    BY DEF CallFinished, Finishing
  <2>2. stream.ops = {}
    BY <2>1 DEF OffQueue, Inv, StreamInv, Core, Tagged
  <2>3. stream \in Stream /\ stream.tags \in Nat /\ stream.phase = "started"
    BY <2>1 DEF Inv, StreamInv, Core, Stream, PhaseInv, Finishing
  <2>4. \A c \in Coming : c.tag \in Nat /\ c.tag < stream.tags
    BY DEF Inv, StreamInv, Core, Tagged, Completion
  <2>5. QED
    BY <2>2, <2>3, <2>4
<1>2. stream.armed = {}
  BY DEF CallFinished, Finishing, Inv, StreamInv, QuietInv
<1>3. /\ g \in Stream /\ g.ops = {} /\ g.armed = {} /\ g.phase = "started"
      /\ g.buffered = stream.buffered /\ g.tags = stream.tags
  BY <1>1, <1>2 DEF Stream
<1>4. "finish" \in Type /\ notify \in BOOLEAN /\ 0 \in Nat /\ n.type = "finish"
  BY DEF Type
<1>5. stream' = h \/ stream' = CancelCompletions(h)
  BY DEF CallFinished
<1> HIDE DEF g, notify
<1>6. /\ h \in Stream /\ h.phase = g.phase /\ h.buffered = g.buffered
      /\ h.armed = g.armed \cup {g.tags} /\ h.ops = g.ops \cup {n}
  BY <1>3, <1>4, NewFields
<1> HIDE DEF h, n
<1>7. /\ stream'.phase = "started" /\ stream'.buffered = stream.buffered
      /\ stream'.armed \subseteq {stream.tags} /\ stream'.ops = {n}
  BY <1>3, <1>5, <1>6 DEF CancelCompletions, Stream
<1>8. /\ Coming' = Coming /\ cancelled' = cancelled /\ ended' = ended
      /\ UNCHANGED Messages /\ UNCHANGED notified
  BY DEF CallFinished, Coming, Messages
<1>9. ReadsStay /\ WritesStay
  BY <1>1, <1>4, <1>7, <1>8 DEF ReadsStay, WritesStay
<1>10. (~Over' => ~Over) /\ Gone' = Gone /\ stream'.phase # "created"
  BY <1>1, <1>7, <1>8 DEF Over, Gone
<1>11. QED
  BY <1>8, <1>9, <1>10, QuietStep

LEMMA DrainedSimulates ==
  ASSUME Inv, OrderInv, Drained
  PROVE  Simulates
<1>1. stream \in Stream /\ stream.phase = "started"
  BY DEF Drained, Inv, StreamInv, Core, PhaseInv
<1>2. /\ stream'.phase = "destroyed" /\ stream'.buffered = stream.buffered
      /\ stream'.armed = stream.armed /\ stream'.ops = stream.ops
  BY <1>1 DEF Drained, Stream
<1>3. /\ Coming' = Coming /\ cancelled' = cancelled /\ ended' = ended
      /\ UNCHANGED Messages
  BY DEF Drained, Coming, Messages
<1>4. ReadsStay /\ WritesStay /\ stream'.phase # "created" /\ (~Over' => ~Over)
  BY <1>2, <1>3 DEF ReadsStay, WritesStay, Over
<1>5. OrderInv'
  BY <1>3, <1>4, StaysOrdered
<1>6. ~Gone /\ Gone' /\ UNCHANGED <<sent, delivered, written, accepted>>
  BY <1>1, <1>2, <1>3 DEF Gone, Messages
<1>7. QED
  BY <1>5, <1>6, FinishStep DEF Simulates

-----------------------------------------------------------------------------
(* Calls of the Stream and of the connectivity monitor.                    *)

\* Read issues a read.
Asks(h, g) ==
  /\ h \in Stream /\ h.phase = g.phase /\ h.buffered = g.buffered
  /\ h.armed = g.armed \cup {g.tags}
  /\ \E n \in Op : n.type = "read" /\ n.tag = g.tags /\ h.ops = g.ops \cup {n}

LEMMA ReadFields ==
  ASSUME NEW g \in Stream, g.observer, NEW h, h = Read(g)
  PROVE  Asks(h, g)
<1>1. PICK callback \in BOOLEAN : callback = TRUE
  OBVIOUS
<1> DEFINE n == [tag |-> g.tags, type |-> "read", callback |-> callback, message |-> 0]
<1>2. h = NewCompletion(g, "read", callback, 0)
  BY <1>1 DEF Read
<1>3. "read" \in Type /\ 0 \in Nat /\ g.tags \in Nat
  BY DEF Type, Stream
<1>4. n \in Op /\ n.type = "read" /\ n.tag = g.tags
  BY <1>3 DEF Op
<1>5. /\ h \in Stream /\ h.phase = g.phase /\ h.buffered = g.buffered
      /\ h.armed = g.armed \cup {g.tags} /\ h.ops = g.ops \cup {n}
  BY <1>2, <1>3, NewFields
<1> HIDE DEF n
<1>6. QED
  BY <1>4, <1>5 DEF Asks

LEMMA StartSimulates ==
  ASSUME Inv, OrderInv, Start
  PROVE  Simulates
<1> DEFINE g == [stream EXCEPT !.phase = "started"]
           r == Read(g)
<1>1. /\ stream \in Stream /\ stream.ops = {} /\ Coming = {} /\ stream.buffered = <<>>
      /\ stream.observer /\ stream.phase = "created"
  BY DEF Start, Inv, StreamInv, Core, PhaseInv
<1>2. /\ inbox = <<>> /\ sent = <<>> /\ delivered = <<>>
      /\ written = <<>> /\ accepted = <<>>
  BY <1>1 DEF OrderInv
<1>3. stream.completions = {} /\ stream.armed = {} /\ ~stream.active
  BY <1>1 DEF Inv, StreamInv, Core, Tagged, PhaseInv
<1>4. /\ g \in Stream /\ g.phase = "started" /\ g.observer /\ g.ops = {} /\ g.armed = {}
      /\ g.buffered = <<>> /\ g.completions = {} /\ ~g.active
  BY <1>1, <1>3 DEF Stream
<1> HIDE DEF g
<1>5. Core(g, Coming) /\ NoLive(g, Coming, "read")
  BY <1>1, <1>4 DEF Core, Tagged, Single, NoLive
<1>6. Core(r, Coming)
  BY <1>5, ReadKeeps
<1>7. Asks(r, g)
  BY <1>4, ReadFields
<1>8. stream' = Write(r, Fresh) /\ written' = <<Fresh>>
  BY DEF Start, g, r
<1> HIDE DEF r
<1>9. /\ Fresh = Len(written) + 1 /\ written \in Seq(Nat) /\ accepted \in Seq(Nat)
      /\ written' = Append(written, Len(written) + 1)
  BY <1>2, <1>8 DEF Fresh
<1>10. Grows(stream', r, Coming, written, accepted)
  <2>1. PICK callback \in BOOLEAN : callback = TRUE
    OBVIOUS
  <2>2. stream' = TryStartWrite([r EXCEPT !.buffered = Append(@, Len(written) + 1)], callback)
    BY <1>8, <2>1 DEF Write, Fresh
  <2>3. QED
    BY <1>6, <1>9, <2>2, WriteOrdered
<1>11. r.phase = "started" /\ r.buffered = <<>> /\ \A o \in r.ops : o.type = "read"
  BY <1>4, <1>7 DEF Asks
<1>12. WriteOrder(r, written, accepted)
  BY <1>2, <1>11 DEF WriteOrder, EndOf
<1>13. ReadOrder(r, Coming, sent, delivered, inbox)
  BY <1>1, <1>2, <1>11 DEF ReadOrder, EndOf
<1>14. /\ inbox' = inbox /\ sent' = sent /\ delivered' = delivered /\ accepted' = accepted
       /\ Coming' = Coming
  BY DEF Start, Coming
<1>15. stream'.phase = "started" /\ WriteOrder(stream', written', accepted')
  BY <1>9, <1>10, <1>11, <1>12, <1>14 DEF Grows
<1>16. ReadOrder(stream', Coming', sent', delivered', inbox')
  BY <1>10, <1>13, <1>14 DEF Grows
<1>17. Numbered(sent') /\ Numbered(written')
  BY <1>9, <1>14, AppendNumbered DEF OrderInv
<1>18. OrderInv'
  BY <1>15, <1>16, <1>17 DEF OrderInv
<1>19. Channel!Next
  BY <1>1, <1>9, <1>14, <1>15, WriteStep DEF Gone
<1>20. QED
  BY <1>18, <1>19 DEF Simulates

\* The observer's message is buffered, and perhaps issued, and perhaps the call is
\* stopped after that.
LEMMA BufferedSimulates ==
  ASSUME Inv, OrderInv, Started, NEW callback \in BOOLEAN, NEW g,
         g = TryStartWrite([stream EXCEPT !.buffered = Append(@, Fresh)], callback),
         written' = Append(written, Fresh),
         stream'.phase = g.phase, stream'.ops = g.ops, stream'.buffered = g.buffered,
         stream'.armed \subseteq g.armed, Coming' = Coming, ~Over' => ~Over,
         UNCHANGED <<inbox, sent, delivered, accepted>>
  PROVE  Simulates
<1>1. Core(stream, Coming) /\ written \in Seq(Nat) /\ accepted \in Seq(Nat)
  BY DEF Inv, StreamInv, DataTypes
<1>2. Grows(g, stream, Coming, written, accepted)
  BY <1>1, WriteOrdered DEF Fresh
<1>3. g.phase = "started"
  BY <1>2 DEF Grows, Started
<1>4. ReadOrder(stream', Coming', sent, delivered, inbox)
  <2>1. ReadOrder(g, Coming, sent, delivered, inbox)
    BY <1>2 DEF Grows, OrderInv
  <2>2. QED
    BY <2>1, FewerReads
<1>5. ~Over' => WriteOrder(stream', written', accepted)
  <2>1. ASSUME ~Over' PROVE WriteOrder(g, written', accepted)
    BY <1>2, <2>1 DEF Grows, OrderInv, Fresh
  <2>2. QED
    BY <2>1, SameWrites
<1>6. Numbered(sent') /\ Numbered(written')
  BY <1>1, AppendNumbered DEF OrderInv, Fresh
<1>7. OrderInv'
  BY <1>3, <1>4, <1>5, <1>6 DEF OrderInv
<1>8. Channel!Next
  BY <1>3, WriteStep DEF Gone, Fresh, Started
<1>9. QED
  BY <1>7, <1>8 DEF Simulates

LEMMA WriteMessageSimulates ==
  ASSUME Inv, OrderInv, WriteMessage
  PROVE  Simulates
<1>1. PICK callback \in BOOLEAN : callback = TRUE
  OBVIOUS
<1>2. stream' = TryStartWrite([stream EXCEPT !.buffered = Append(@, Fresh)], callback)
  BY <1>1 DEF WriteMessage, Write
<1>3. /\ Started /\ written' = Append(written, Fresh) /\ Coming' = Coming
      /\ (~Over' => ~Over) /\ UNCHANGED <<inbox, sent, delivered, accepted>>
  BY DEF WriteMessage, Coming, Over
<1> DEFINE g == TryStartWrite([stream EXCEPT !.buffered = Append(@, Fresh)], callback)
<1>4. stream' = g
  BY <1>2
<1> HIDE DEF g
<1>5. QED
  BY <1>3, <1>4, BufferedSimulates DEF g

LEMMA StopsSimulate ==
  ASSUME Inv, OrderInv, FinishImmediately \/ ConnectivityChanged \/ LastWriteEnds
  PROVE  Simulates
<1>1. PICK about \in {"stop", "connectivity"} : Shutdown(stream, about)
  BY DEF FinishImmediately, ConnectivityChanged, LastWriteEnds
<1>2. Started
  BY DEF FinishImmediately, ConnectivityChanged, LastWriteEnds, Inv, StreamInv, PhaseInv,
         Started
<1>3. /\ Coming' = Coming
      /\ UNCHANGED <<ended, inbox, sent, delivered, written, accepted, notified>>
  BY DEF FinishImmediately, ConnectivityChanged, LastWriteEnds, Coming
<1>4. QED
  BY <1>1, <1>2, <1>3, StreamType, StopSimulates

LEMMA WriteAndFinishSimulates ==
  ASSUME Inv, OrderInv, WriteAndFinish
  PROVE  Simulates
<1>1. /\ Started /\ Coming' = Coming
      /\ UNCHANGED <<ended, inbox, sent, delivered, accepted, notified>>
  BY DEF WriteAndFinish, Coming
<1>2. CASE stream.finished
  <2>1. Shutdown(stream, "stop") /\ written' = written
    BY <1>2 DEF WriteAndFinish
  <2>2. QED
    BY <1>1, <2>1, StreamType, StopSimulates
<1>3. CASE ~stream.finished
  <2>1. PICK callback \in BOOLEAN : callback = FALSE
    OBVIOUS
  <2> DEFINE g == TryStartWrite([stream EXCEPT !.buffered = Append(@, Fresh)], callback)
  <2>2. /\ written' = Append(written, Fresh)
        /\ \/ stream' = g /\ cancelled' = cancelled
           \/ Shutdown(g, "stop")
    BY <1>3, <2>1 DEF WriteAndFinish, LastWrite
  <2>3. g \in Stream
    <3>1. Fresh \in Nat
      BY FreshIsNat DEF Inv
    <3>2. Core(g, Coming)
      BY <1>1, <3>1, BufferedWriteKeeps
    <3>3. QED
      BY <3>2 DEF Core
  <2> HIDE DEF g
  <2>4. /\ stream'.phase = g.phase /\ stream'.ops = g.ops
        /\ stream'.buffered = g.buffered /\ stream'.armed \subseteq g.armed
        /\ (cancelled => cancelled')
    BY <2>2, <2>3, ShutdownFields
  <2>5. ~Over' => ~Over
    BY <1>1, <2>4, OverStays
  <2>6. QED
    BY <1>1, <2>2, <2>4, <2>5, BufferedSimulates DEF g
<1>4. QED
  BY <1>2, <1>3

-----------------------------------------------------------------------------
(* Completions on the worker queue.                                        *)

\* The object without the completion that runs.
LEMMA Ran ==
  ASSUME Inv, NEW c, Running(c), Armed(c), queue' = Tail(queue), poller' = poller,
         NEW w, w = Without(c)
  PROVE  /\ c \in Coming /\ Coming' \subseteq Coming
         /\ Started /\ stream.observer
         /\ w \in Stream /\ Core(w, Coming) /\ NoLive(w, Coming, c.type)
         /\ w.phase = stream.phase /\ w.observer = stream.observer
         /\ w.ops = stream.ops /\ w.buffered = stream.buffered
         /\ w.armed = stream.armed \ {c.tag} /\ w.tags = stream.tags
         /\ w.armed \subseteq stream.armed
<1>1. c \in Coming /\ Coming' \subseteq Coming /\ Started /\ stream.observer
  BY RunningFacts
<1>2. Dropped(w, Coming, c)
  BY <1>1, StreamType, WithoutKeeps
<1>3. QED
  BY <1>1, <1>2 DEF Dropped, Core

\* The message that runs is the next one, and the read that follows it the only one.
LEMMA OnReadOrder ==
  ASSUME Inv, OrderInv, NEW c, OnRead(c), NEW g, g = Read(Without(c))
  PROVE  /\ c.message = Len(delivered) + 1 /\ Len(delivered) < Len(sent)
         /\ ReadOrder(g, Coming', sent, Append(delivered, c.message), inbox)
         /\ g \in Stream /\ g.phase = "started" /\ g.buffered = stream.buffered
         /\ \A o \in g.ops : o.type = "write" => o \in stream.ops
         /\ \A o \in stream.ops : o.type = "write" => o \in g.ops
<1> DEFINE w == Without(c)
           l == Len(delivered)
           b == Len(inbox)
           m == Len(sent)
<1>1. /\ Running(c) /\ Armed(c) /\ c.ok /\ c.type = "read"
      /\ queue' = Tail(queue) /\ poller' = poller
  BY DEF OnRead
<1>2. /\ c \in Coming /\ Coming' \subseteq Coming
      /\ Started /\ stream.observer
      /\ w \in Stream /\ Core(w, Coming) /\ NoLive(w, Coming, "read")
      /\ w.phase = stream.phase /\ w.observer = stream.observer
      /\ w.ops = stream.ops /\ w.buffered = stream.buffered
      /\ w.armed = stream.armed \ {c.tag} /\ w.tags = stream.tags
  BY <1>1, Ran
<1> HIDE DEF w
<1>3. Asks(g, w)
  BY <1>2, ReadFields DEF w
<1>4. PICK n \in Op : n.type = "read" /\ n.tag = w.tags /\ g.ops = w.ops \cup {n}
  BY <1>3 DEF Asks
<1>5. g \in Stream /\ g.phase = "started" /\ g.buffered = stream.buffered
  BY <1>2, <1>3 DEF Asks, Started
<1>6. /\ \A o \in g.ops : o.type = "write" => o \in stream.ops
      /\ \A o \in stream.ops : o.type = "write" => o \in g.ops
  BY <1>2, <1>4
<1>7. c.message = l + 1 /\ l + 1 + b = m /\ EndOf(inbox, sent)
  BY <1>1, <1>2 DEF OrderInv, ReadOrder, Armed
<1>8. delivered \in Seq(Nat) /\ l \in Nat /\ b \in Nat /\ m \in Nat
  BY DEF Inv, DataTypes
<1>9. Len(Append(delivered, c.message)) = l + 1
  BY <1>8
<1>10. \A d \in Coming' : d.tag \in g.armed => d.type # "read"
  <2>1. \A d \in Coming : d.tag # w.tags
    BY <1>2 DEF Core, Tagged, Stream, Completion
  <2>2. QED
    BY <1>2, <1>3, <2>1 DEF NoLive, Asks
<1> HIDE DEF l, b, m
<1>11. l < m
  BY <1>7, <1>8
<1>12. ReadOrder(g, Coming', sent, Append(delivered, c.message), inbox)
  BY <1>7, <1>9, <1>10 DEF ReadOrder, b, m
<1>13. QED
  BY <1>5, <1>6, <1>7, <1>11, <1>12 DEF l, m

LEMMA OnReadSimulates ==
  ASSUME Inv, OrderInv, NEW c, OnRead(c)
  PROVE  Simulates
<1> DEFINE g == Read(Without(c))
<1>1. /\ Running(c) /\ Armed(c) /\ queue' = Tail(queue) /\ poller' = poller
      /\ UNCHANGED <<ended, inbox, sent, written, accepted>>
  BY DEF OnRead
<1>2. Started /\ stream.observer
  BY <1>1, RunningFacts
<1>3. /\ delivered' = Append(delivered, c.message)
      /\ \/ stream' = g /\ cancelled' = cancelled
         \/ Shutdown(g, "stop")
  BY <1>2 DEF OnRead
<1>4. /\ c.message = Len(delivered) + 1 /\ Len(delivered) < Len(sent)
      /\ ReadOrder(g, Coming', sent, Append(delivered, c.message), inbox)
      /\ g \in Stream /\ g.phase = "started" /\ g.buffered = stream.buffered
      /\ \A o \in g.ops : o.type = "write" => o \in stream.ops
      /\ \A o \in stream.ops : o.type = "write" => o \in g.ops
  BY OnReadOrder
<1> HIDE DEF g
<1>5. /\ stream'.phase = g.phase /\ stream'.ops = g.ops
      /\ stream'.buffered = g.buffered /\ stream'.armed \subseteq g.armed
      /\ (cancelled => cancelled')
  BY <1>3, <1>4, ShutdownFields
<1>6. ReadOrder(stream', Coming', sent, delivered', inbox)
  BY <1>3, <1>4, <1>5, FewerReads
<1>7. ~Over' => WriteOrder(stream', written, accepted)
  <2>1. ~Over' => ~Over
    BY <1>1, <1>5, OverStays
  <2>2. QED
    BY <1>4, <1>5, <2>1, SameWrites DEF OrderInv
<1>8. OrderInv'
  BY <1>1, <1>4, <1>5, <1>6, <1>7 DEF OrderInv
<1>9. delivered' = Append(delivered, sent[Len(delivered) + 1])
  <2>1. sent \in Seq(Nat) /\ delivered \in Seq(Nat)
    BY DEF Inv, DataTypes
  <2>2. Len(delivered) + 1 \in DOMAIN sent
    BY <1>4, <2>1
  <2>3. QED
    BY <1>3, <1>4, <2>2 DEF OrderInv, Numbered
<1>10. Channel!Next
  BY <1>1, <1>2, <1>4, <1>5, <1>9, DeliverStep DEF Gone, Started
<1>11. QED
  BY <1>8, <1>10 DEF Simulates

LEMMA OnWriteSimulates ==
  ASSUME Inv, OrderInv, NEW c, OnWrite(c)
  PROVE  Simulates
<1> DEFINE w == Without(c)
           k == [w EXCEPT !.active = FALSE]
<1>1. /\ Running(c) /\ Armed(c) /\ c.type = "write"
      /\ queue' = Tail(queue) /\ poller' = poller
      /\ UNCHANGED Messages /\ UNCHANGED <<cancelled, ended, notified>>
  BY DEF OnWrite, Messages
<1>2. /\ c \in Coming /\ Coming' \subseteq Coming
      /\ Started /\ stream.observer
      /\ w \in Stream /\ Core(w, Coming) /\ NoLive(w, Coming, "write")
      /\ w.phase = stream.phase /\ w.observer = stream.observer
      /\ w.ops = stream.ops /\ w.buffered = stream.buffered
      /\ w.armed \subseteq stream.armed
  BY <1>1, Ran
<1>3. stream' = w \/ stream' = NextWrite(w)
  BY DEF OnWrite
<1>4. (~Over' => ~Over) /\ UNCHANGED notified
  BY <1>1 DEF Over
<1> HIDE DEF w
<1>5. CASE stream' = w
  <2>1. ReadsStay /\ WritesStay /\ stream'.phase # "created" /\ Gone' = Gone
    BY <1>2, <1>5 DEF ReadsStay, WritesStay, Gone, Started
  <2>2. QED
    BY <1>1, <1>4, <2>1, QuietStep
<1>6. CASE stream' = NextWrite(w)
  <2>1. PICK callback \in BOOLEAN : callback = TRUE
    OBVIOUS
  <2>2. stream' = TryStartWrite(k, callback)
    BY <1>2, <1>6, <2>1 DEF NextWrite
  <2>3. /\ k \in Stream /\ ~k.active /\ k.phase = w.phase
        /\ k.completions = w.completions /\ k.armed = w.armed /\ k.tags = w.tags
        /\ k.ops = w.ops /\ k.buffered = w.buffered
    BY <1>2 DEF Stream
  <2> HIDE DEF k
  <2>4. Core(k, Coming)
    BY <1>2, <2>3 DEF Core, Tagged, Single, NoLive
  <2>5. written \in Seq(Nat) /\ accepted \in Seq(Nat)
    BY DEF Inv, DataTypes
  <2>6. /\ stream'.phase = k.phase
        /\ WriteOrder(k, written, accepted) => WriteOrder(stream', written, accepted)
        /\ \A s, d, q : ReadOrder(k, Coming, s, d, q) => ReadOrder(stream', Coming, s, d, q)
    BY <2>2, <2>4, <2>5, StartOrder
  <2>7. ReadOrder(k, Coming, sent, delivered, inbox)
    BY <1>2, <2>3, FewerReads DEF OrderInv
  <2>8. ReadOrder(stream', Coming', sent, delivered, inbox)
    BY <1>2, <2>6, <2>7, FewerReads
  <2>9. ~Over' => WriteOrder(k, written, accepted)
    BY <1>2, <1>4, <2>3, SameWrites DEF OrderInv
  <2>10. /\ inbox' = inbox /\ sent' = sent /\ delivered' = delivered
         /\ written' = written /\ accepted' = accepted
    BY <1>1 DEF Messages
  <2>11. stream'.phase = "started"
    BY <1>2, <2>3, <2>6 DEF Started
  <2>12. OrderInv'
    BY <2>6, <2>8, <2>9, <2>10, <2>11 DEF OrderInv
  <2>13. Gone' = Gone
    BY <1>2, <2>11 DEF Gone, Started
  <2>14. UNCHANGED Channel!vars
    BY <1>4, <2>10, <2>13, NoStep
  <2>15. QED
    BY <2>12, <2>14 DEF Simulates
<1>7. QED
  BY <1>3, <1>5, <1>6

\* A completion that ends the call, or comes after its end.
LEMMA EndsSimulate ==
  ASSUME Inv, OrderInv, NEW c, OnFinish(c) \/ OnOperationFailed(c)
  PROVE  Simulates
<1> DEFINE w == Without(c)
<1>1. /\ Running(c) /\ Armed(c) /\ queue' = Tail(queue) /\ poller' = poller
      /\ UNCHANGED <<ended, inbox, sent, delivered, written, accepted, notified>>
  BY DEF OnFinish, OnOperationFailed
<1>2. /\ Coming' \subseteq Coming /\ Started /\ w \in Stream
      /\ w.phase = stream.phase /\ w.ops = stream.ops /\ w.buffered = stream.buffered
      /\ w.armed \subseteq stream.armed
  BY <1>1, Ran
<1>3. \/ Shutdown(w, "call")
      \/ cancelled' = cancelled /\ stream' = w
      \/ cancelled' = cancelled /\ stream' = [CancelCompletions(w) EXCEPT !.finished = TRUE]
  BY DEF OnFinish, OnOperationFailed, FinishGrpcCall
<1> HIDE DEF w
<1>4. CASE Shutdown(w, "call")
  BY <1>1, <1>2, <1>4, StopSimulates
<1>5. CASE ~Shutdown(w, "call")
  <2>1. /\ stream'.phase = w.phase /\ stream'.ops = w.ops /\ stream'.buffered = w.buffered
        /\ stream'.armed \subseteq w.armed
    <3> DEFINE j == CancelCompletions(w)
    <3>1. /\ j \in Stream /\ j.phase = w.phase /\ j.ops = w.ops /\ j.buffered = w.buffered
          /\ j.armed \subseteq w.armed
      BY <1>2 DEF CancelCompletions, Stream
    <3>2. stream' = w \/ stream' = [j EXCEPT !.finished = TRUE]
      BY <1>3, <1>5
    <3> HIDE DEF j
    <3>3. QED
      BY <3>1, <3>2 DEF Stream
  <2>2. (~Over' => ~Over) /\ ReadsStay /\ WritesStay /\ stream'.phase # "created" /\ Gone' = Gone
    BY <1>1, <1>2, <1>3, <1>5, <2>1 DEF Over, ReadsStay, WritesStay, Gone, Started
  <2>3. UNCHANGED Messages /\ UNCHANGED notified
    BY <1>1 DEF Messages
  <2>4. QED
    BY <2>2, <2>3, QuietStep
<1>6. QED
  BY <1>4, <1>5

-----------------------------------------------------------------------------
(* The polling thread, gRPC and the server.                                *)

LEMMA EnqueueSimulates ==
  ASSUME Inv, OrderInv, Enqueue
  PROVE  Simulates
<1>1. Coming' = Coming
  BY EnqueueComing DEF Inv
<1>2. Coming # {}
  BY DEF Enqueue, Coming
<1>3. stream.phase # "created"
  BY <1>2 DEF Inv, StreamInv, PhaseInv
<1>4. /\ stream' = stream /\ cancelled' = cancelled /\ ended' = ended
      /\ UNCHANGED Messages /\ UNCHANGED notified
  BY DEF Enqueue, Messages
<1>5. ReadsStay /\ WritesStay /\ (~Over' => ~Over) /\ Gone' = Gone /\ stream'.phase # "created"
  BY <1>1, <1>3, <1>4 DEF ReadsStay, WritesStay, Over, Gone
<1>6. QED
  BY <1>4, <1>5, QuietStep

LEMMA CallEndsSimulates ==
  ASSUME Inv, OrderInv, CallEnds
  PROVE  Simulates
<1>1. /\ Coming' = Coming /\ stream' = stream /\ Started /\ Over'
      /\ UNCHANGED Messages /\ UNCHANGED notified
  BY DEF CallEnds, Coming, Messages, Over
<1>2. ReadsStay /\ Gone' = Gone /\ stream'.phase # "created"
  BY <1>1 DEF ReadsStay, Gone, Started
<1>3. QED
  BY <1>1, <1>2, QuietStep

LEMMA ServerSendsSimulates ==
  ASSUME Inv, OrderInv, ServerSends
  PROVE  Simulates
<1> DEFINE l == Len(delivered)
           b == Len(inbox)
           m == Len(sent)
<1>1. /\ sent' = Append(sent, Len(sent) + 1) /\ inbox' = Append(inbox, Len(sent) + 1)
      /\ stream' = stream /\ Coming' = Coming /\ Started /\ (~Over' => ~Over)
      /\ UNCHANGED <<delivered, written, accepted, notified>>
  BY DEF ServerSends, Coming, Over
<1>2. inbox \in Seq(Nat) /\ sent \in Seq(Nat) /\ delivered \in Seq(Nat)
  BY DEF Inv, DataTypes
<1>3. EndOf(inbox', sent') /\ Len(inbox') = b + 1 /\ Len(sent') = m + 1
  BY <1>1, <1>2, AppendEnd DEF OrderInv, ReadOrder
<1>4. l \in Nat /\ b \in Nat /\ m \in Nat
  BY <1>2
<1>5. \A o \in stream.ops : o.type = "read" /\ o.tag \in stream.armed => l + b = m
  BY DEF OrderInv, ReadOrder
<1>6. \A c \in Coming : c.type = "read" /\ c.tag \in stream.armed /\ c.ok =>
        c.message = l + 1 /\ l + 1 + b = m
  BY DEF OrderInv, ReadOrder
<1>7. Numbered(sent')
  BY <1>1, <1>2, AppendNumbered DEF OrderInv
<1> HIDE DEF l, b, m
<1>8. l + b = m => l + (b + 1) = m + 1
  BY <1>4
<1>9. l + 1 + b = m => l + 1 + (b + 1) = m + 1
  BY <1>4, OneMore
<1>10. ReadOrder(stream, Coming, sent', delivered, inbox')
  BY <1>3, <1>5, <1>6, <1>8, <1>9 DEF ReadOrder, l
<1>11. OrderInv'
  BY <1>1, <1>7, <1>10 DEF OrderInv, Started
<1>12. Channel!Next
  BY <1>1, SendStep DEF Gone
<1>13. QED
  BY <1>11, <1>12 DEF Simulates

\* gRPC hands an operation to the poller, and its order is that of the call.
HandsOver(o, message, ok) ==
  /\ stream'.phase = stream.phase /\ stream'.buffered = stream.buffered
  /\ stream'.armed = stream.armed /\ stream'.ops = stream.ops \ {o}
  /\ \E c \in Completion :
       /\ Coming' = Coming \cup {c}
       /\ c.tag = o.tag /\ c.type = o.type /\ c.message = message /\ c.ok = ok
  /\ stream.phase = "started"

LEMMA Returning ==
  ASSUME Inv, NEW o \in stream.ops, NEW message \in Nat, NEW ok \in BOOLEAN,
         Return(o, message, ok), queue' = queue
  PROVE  HandsOver(o, message, ok)
<1> DEFINE c == [tag |-> o.tag, type |-> o.type, callback |-> o.callback,
                 message |-> message, ok |-> ok]
<1>1. stream \in Stream /\ o \in Op
  BY StreamType DEF Stream
<1>2. /\ c \in Completion /\ c.tag = o.tag /\ c.type = o.type /\ c.message = message
      /\ c.ok = ok
  BY <1>1 DEF Op, Completion
<1>3. poller = {} /\ poller' = {c} /\ stream' = [stream EXCEPT !.ops = @ \ {o}]
  BY DEF Return
<1> HIDE DEF c
<1>4. Coming' = Coming \cup {c}
  BY <1>3 DEF Coming
<1>5. /\ stream'.phase = stream.phase /\ stream'.buffered = stream.buffered
      /\ stream'.armed = stream.armed /\ stream'.ops = stream.ops \ {o}
  BY <1>1, <1>3 DEF Stream
<1>6. stream.phase = "started"
  BY <1>1 DEF Inv, StreamInv, Core, Tagged, PhaseInv, Stream
<1>7. QED
  BY <1>2, <1>4, <1>5, <1>6 DEF HandsOver

LEMMA OverReturnsSimulates ==
  ASSUME Inv, OrderInv, NEW o \in stream.ops, OverReturns(o)
  PROVE  Simulates
<1> DEFINE ok == o.type = "finish"
<1>1. /\ Return(o, 0, ok) /\ 0 \in Nat /\ ok \in BOOLEAN /\ queue' = queue
      /\ Over' /\ UNCHANGED Messages /\ UNCHANGED notified
  BY DEF OverReturns, Messages, Over
<1>2. o.type = "read" => ~ok
  OBVIOUS
<1> HIDE DEF ok
<1>3. HandsOver(o, 0, ok)
  BY <1>1, Returning
<1>4. ReadsStay /\ Gone' = Gone /\ stream'.phase # "created"
  BY <1>2, <1>3 DEF HandsOver, ReadsStay, Gone
<1>5. QED
  BY <1>1, <1>4, QuietStep

LEMMA WriteReturnsSimulates ==
  ASSUME Inv, OrderInv, NEW o \in stream.ops, WriteReturns(o)
  PROVE  Simulates
<1> DEFINE l == Len(accepted)
           b == Len(stream.buffered)
           m == Len(written)
<1>1. PICK ok \in BOOLEAN : ok = TRUE
  OBVIOUS
<1>2. /\ Return(o, 0, ok) /\ 0 \in Nat /\ queue' = queue /\ o.type = "write"
      /\ ~Over /\ accepted' = Append(accepted, o.message)
      /\ UNCHANGED <<inbox, sent, delivered, written, notified>>
  BY <1>1 DEF WriteReturns
<1>3. HandsOver(o, 0, ok)
  BY <1>2, Returning
<1>4. /\ accepted \in Seq(Nat) /\ written \in Seq(Nat) /\ stream.buffered \in Seq(Nat)
      /\ o.message \in Nat
  BY DEF Inv, DataTypes, StreamInv, Core, Stream, Op
<1>5. /\ EndOf(stream.buffered, written)
      /\ o.message = l + 1 /\ l + 1 + b = m
  BY <1>2 DEF OrderInv, WriteOrder
<1>6. l \in Nat /\ b \in Nat /\ m \in Nat /\ Len(accepted') = l + 1
  BY <1>2, <1>4
<1>7. \A p \in stream.ops \ {o} : p.type # "write"
  BY <1>2 DEF Inv, StreamInv, Core, Single
<1> HIDE DEF l, b, m
<1>8. WriteOrder(stream', written, accepted')
  BY <1>3, <1>5, <1>6, <1>7 DEF HandsOver, WriteOrder, b, m
<1>9. ReadOrder(stream', Coming', sent, delivered, inbox)
  <2>1. ReadsStay
    BY <1>2, <1>3 DEF ReadsStay, HandsOver
  <2>2. QED
    BY <2>1, FewerReads DEF ReadsStay, OrderInv
<1>10. OrderInv'
  BY <1>2, <1>3, <1>8, <1>9 DEF OrderInv, HandsOver
<1>11. l < m /\ l + 1 \in 1..m
  BY <1>5, <1>6
<1>12. accepted' = Append(accepted, written[Len(accepted) + 1])
  <2>1. Len(accepted) + 1 \in DOMAIN written
    BY <1>4, <1>11 DEF l, m
  <2>2. QED
    BY <1>2, <1>5, <2>1 DEF OrderInv, Numbered, l
<1>13. ~Gone /\ ~Gone' /\ Len(accepted) < Len(written)
  BY <1>3, <1>11 DEF HandsOver, Gone, l, m
<1>14. Channel!Next
  BY <1>2, <1>12, <1>13, AcceptStep
<1>15. QED
  BY <1>10, <1>14 DEF Simulates

LEMMA ReadReturnsSimulates ==
  ASSUME Inv, OrderInv, NEW o \in stream.ops, ReadReturns(o)
  PROVE  Simulates
<1> DEFINE l == Len(delivered)
           b == Len(inbox)
           m == Len(sent)
<1>1. PICK ok \in BOOLEAN : ok = TRUE
  OBVIOUS
<1>2. inbox \in Seq(Nat) /\ sent \in Seq(Nat) /\ delivered \in Seq(Nat)
  BY DEF Inv, DataTypes
<1>3. /\ Return(o, Head(inbox), ok) /\ queue' = queue /\ o.type = "read"
      /\ inbox # <<>> /\ inbox' = Tail(inbox) /\ cancelled' = cancelled /\ ended' = ended
      /\ UNCHANGED <<sent, delivered, written, accepted, notified>>
  BY <1>1 DEF ReadReturns
<1>4. HandsOver(o, Head(inbox), ok)
  <2>1. Head(inbox) \in Nat
    BY <1>2, <1>3
  <2>2. QED
    BY <1>3, <2>1, Returning
<1>5. EndOf(inbox', sent) /\ Head(inbox) = m - b + 1 /\ Len(inbox') = b - 1
  BY <1>2, <1>3, TailEnd DEF OrderInv, ReadOrder
<1>6. o.tag \in stream.armed => l + b = m
  BY <1>3 DEF OrderInv, ReadOrder
<1>7. l \in Nat /\ b \in Nat /\ m \in Nat
  BY <1>2
<1>8. /\ \A p \in stream.ops \ {o} : p.type # "read"
      /\ \A c \in Coming : c.tag \in stream.armed => c.type # "read"
  BY <1>3 DEF Inv, StreamInv, Core, Single
<1> HIDE DEF l, b, m
<1>9. l + b = m => m - b + 1 = l + 1 /\ l + 1 + (b - 1) = m
  BY <1>7
<1>10. ReadOrder(stream', Coming', sent, delivered, inbox')
  <2>1. PICK c \in Completion :
          /\ Coming' = Coming \cup {c}
          /\ c.tag = o.tag /\ c.message = Head(inbox)
    BY <1>4 DEF HandsOver
  <2>2. stream'.armed = stream.armed /\ stream'.ops = stream.ops \ {o}
    BY <1>4 DEF HandsOver
  <2>3. c.tag \in stream.armed => c.message = l + 1 /\ l + 1 + Len(inbox') = m
    BY <1>5, <1>6, <1>9, <2>1
  <2>4. QED
    BY <1>5, <1>8, <2>1, <2>2, <2>3 DEF ReadOrder, l, m
<1>11. WritesStay /\ (~Over' => ~Over) /\ Gone' = Gone /\ stream'.phase = "started"
  BY <1>3, <1>4 DEF WritesStay, HandsOver, Over, Gone
<1>12. ~Over' => WriteOrder(stream', written, accepted)
  BY <1>11, SameWrites DEF WritesStay, OrderInv
<1>13. OrderInv'
  BY <1>3, <1>10, <1>11, <1>12 DEF OrderInv
<1>14. UNCHANGED Channel!vars
  BY <1>3, <1>11, NoStep
<1>15. QED
  BY <1>13, <1>14 DEF Simulates

-----------------------------------------------------------------------------
LEMMA InitOrder ==
  ASSUME Init
  PROVE  OrderInv /\ Channel!Init
<1>1. /\ stream.phase = "created" /\ stream.ops = {} /\ stream.buffered = <<>>
      /\ Coming = {} /\ inbox = <<>> /\ sent = <<>> /\ delivered = <<>>
      /\ written = <<>> /\ accepted = <<>>
  BY DEF Init, Coming
<1>2. OrderInv
  BY <1>1 DEF OrderInv, Numbered, ReadOrder, WriteOrder, EndOf
<1>3. QED
  BY <1>1, <1>2 DEF Channel!Init

LEMMA NextSimulates ==
  ASSUME Inv, OrderInv, [Next]_vars
  PROVE  Simulates
<1>1. ASSUME NEW c, RunCancelled(c) \/ OnRead(c) \/ OnWrite(c) \/ OnFinish(c)
                    \/ OnOperationFailed(c)
      PROVE  Simulates
  BY <1>1, RunCancelledSimulates, OnReadSimulates, OnWriteSimulates, EndsSimulate
<1>2. CASE CallFinished \/ Drained
  BY <1>2, CallFinishedSimulates, DrainedSimulates
<1>3. CASE LastWriteEnds \/ FinishImmediately \/ ConnectivityChanged
  BY <1>3, StopsSimulate
<1>4. CASE Start \/ WriteMessage \/ WriteAndFinish
  BY <1>4, StartSimulates, WriteMessageSimulates, WriteAndFinishSimulates
<1>5. CASE Enqueue \/ ServerSends \/ CallEnds
  BY <1>5, EnqueueSimulates, ServerSendsSimulates, CallEndsSimulates
<1>6. ASSUME NEW o \in stream.ops, ReadReturns(o) \/ WriteReturns(o) \/ OverReturns(o)
      PROVE  Simulates
  BY <1>6, ReadReturnsSimulates, WriteReturnsSimulates, OverReturnsSimulates
<1>7. CASE UNCHANGED vars
  <2>1. OrderInv'
    BY <1>7 DEF vars, OrderInv, Coming, Over
  <2>2. UNCHANGED Channel!vars
    BY <1>7 DEF vars, Channel!vars
  <2>3. QED
    BY <2>1, <2>2 DEF Simulates
<1>8. QED
  BY <1>1, <1>2, <1>3, <1>4, <1>5, <1>6, <1>7 DEF Next, Worker, Calls

\* GrpcStream implements MessageStream: messages of both directions pass in order and
\* without a gap, whatever the poller, the worker, gRPC and the server interleave,
\* and nothing passes after the one finish (grpc_stream.cc, grpc_completion.cc).
THEOREM Refinement == Spec => ChannelSpec
<1>1. Init => OrderInv /\ Channel!Init
  BY InitOrder
<1>2. Inv /\ OrderInv /\ [Next]_vars => OrderInv' /\ [Channel!Next]_(Channel!vars)
  BY NextSimulates DEF Simulates
<1>3. QED
  BY <1>1, <1>2, Invariance, PTL DEF Spec, ChannelSpec, Channel!Spec

=============================================================================
