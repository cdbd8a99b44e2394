------------------------- MODULE FirestoreWritesProofs -------------------------
(***************************************************************************)
(* Theorems about FirestoreWrites, for every set of writes, users and      *)
(* waiters, every capacity of the pipeline and every bound.                *)
(***************************************************************************)
EXTENDS FirestoreWrites, FiniteSetTheorems, TLAPS

-----------------------------------------------------------------------------
(* Queues: what the operators on the rows of one user return.              *)

\* Rows are in the order of their batch ids.
Sorted(q) == \A i, j \in DOMAIN q : i < j => q[i].id < q[j].id

\* The one sequence begins the other.
Begins(p, q) == Len(p) <= Len(q) /\ \A i \in 1..Len(p) : p[i] = q[i]

\* A set of naturals has a least member.
LEMMA Least ==
  ASSUME NEW T \in SUBSET Nat, T # {}
  PROVE  \E m \in T : \A n \in T : m <= n
<1> DEFINE Upto == {0..m : m \in T}
<1>1. Upto \subseteq FiniteSubsetsOf(Nat) /\ Upto # {}
  <2>1. \A m \in T : 0..m \subseteq Nat /\ IsFiniteSet(0..m)
    BY FS_Interval
  <2> QED
    BY <2>1 DEF FiniteSubsetsOf
<1>2. PICK x \in Upto : \A y \in Upto : <<y, x>> \notin StrictSubsetOrdering(Nat)
  BY <1>1, FS_StrictSubsetOrderingWellFounded, WFMin
<1>3. PICK m \in T : x = 0..m
  BY <1>2
<1>4. ASSUME NEW n \in T, n < m
      PROVE  FALSE
  <2>1. 0..n \in Upto /\ 0..n \in SUBSET Nat /\ 0..m \in SUBSET Nat
    BY <1>4
  <2>2. 0..n \subseteq 0..m /\ m \in 0..m /\ m \notin 0..n
    BY <1>3, <1>4
  <2>3. 0..n # 0..m
    BY <2>2
  <2>4. <<0..n, 0..m>> \in StrictSubsetOrdering(Nat)
    BY <2>1, <2>2, <2>3, Zenon DEF StrictSubsetOrdering
  <2> QED
    BY <1>2, <1>3, <2>1, <2>4
<1> QED
  BY <1>3, <1>4

\* A set of naturals that holds zero and is bounded has a greatest member.
LEMMA Greatest ==
  ASSUME NEW T \in SUBSET Nat, 0 \in T, NEW b \in Nat, \A n \in T : n < b
  PROVE  \E m \in T : \A n \in T : n <= m
<1> DEFINE D == {b - n : n \in T}
<1>1. D \in SUBSET Nat /\ D # {}
  OBVIOUS
<1>2. PICK d \in D : \A e \in D : d <= e
  BY <1>1, Least
<1>3. PICK m \in T : d = b - m
  BY <1>2
<1>4. ASSUME NEW n \in T PROVE n <= m
  <2>1. b - m <= b - n
    BY <1>2, <1>3
  <2> QED
    BY <2>1
<1> QED
  BY <1>4

\* A row is a batch, with an id and a write.
LEMMA RowType ==
  ASSUME NEW q \in Seq(Batch), NEW i \in 1..Len(q)
  PROVE  q[i] \in Batch /\ q[i].id \in Nat /\ q[i].write \in Writes
<1>1. q[i] \in Batch
  OBVIOUS
<1> QED
  BY <1>1 DEF Batch

\* The seek lands between 0 and the number of rows.
LEMMA RowsUpToType ==
  ASSUME NEW q \in Seq(Batch), NEW id \in Int
  PROVE  RowsUpTo(q, id) \in 0..Len(q)
<1> DEFINE S == {i \in DOMAIN q : q[i].id <= id}
<1>1. S \in SUBSET (1..Len(q)) /\ Len(q) \in Nat
  OBVIOUS
<1>2. IsFiniteSet(1..Len(q)) /\ Cardinality(1..Len(q)) = Len(q)
  <2>1. \A n \in Nat : IsFiniteSet(1..n) /\ Cardinality(1..n) = n
    BY FS_Interval
  <2> QED
    BY <1>1, <2>1
<1>3. IsFiniteSet(S) /\ Cardinality(S) <= Len(q)
  BY <1>1, <1>2, FS_Subset
<1>4. Cardinality(S) \in Nat
  BY <1>3, FS_CardinalityType
<1> QED
  BY <1>1, <1>3, <1>4 DEF RowsUpTo

\* ... and on the row it looks for.
LEMMA RowsUpToIs ==
  ASSUME NEW q \in Seq(Batch), NEW id \in Int, NEW n \in 0..Len(q),
         \A i \in 1..n : q[i].id <= id,
         \A i \in n+1..Len(q) : q[i].id > id
  PROVE  RowsUpTo(q, id) = n
<1>1. \A i \in 1..Len(q) : q[i].id \in Int
  BY RowType
<1>2. {i \in DOMAIN q : q[i].id <= id} = 1..n
  BY <1>1
<1>3. Cardinality(1..n) = n
  BY FS_Interval
<1> QED
  BY <1>2, <1>3 DEF RowsUpTo

\* Removing the first row leaves the others.
LEMMA RemoveFirst ==
  ASSUME NEW q \in Seq(Batch), Sorted(q), q # <<>>
  PROVE  RemoveMutationBatch(q, q[1].id) = Tail(q)
<1>1. RowsUpTo(q, q[1].id) = 1
  <2>1. q[1].id \in Int /\ 1 \in 0..Len(q)
    BY RowType
  <2>2. \A i \in 2..Len(q) : q[i].id > q[1].id
    BY RowType DEF Sorted
  <2> QED
    BY <2>1, <2>2, RowsUpToIs
<1>2. SubSeq(q, 1, 0) = <<>> /\ SubSeq(q, 2, Len(q)) = Tail(q)
  OBVIOUS
<1>3. Tail(q) \in Seq(Batch)
  OBVIOUS
<1>4. RemoveMutationBatch(q, q[1].id) = <<>> \o Tail(q)
  BY <1>1, <1>2 DEF RemoveMutationBatch
<1> QED
  BY <1>3, <1>4

\* FillWritePipeline takes batches.
LEMMA FilledType ==
  ASSUME NEW p \in Seq(Batch), NEW q \in Seq(Batch)
  PROVE  Filled(p, q) \in Seq(Batch)
<1> DEFINE last == IF p = <<>> THEN -1 ELSE p[Len(p)].id
           from == RowsUpTo(q, last)
           room == kMaxPendingWrites - Len(p)
           to   == IF from + room < Len(q) THEN from + room ELSE Len(q)
<1>1. last \in Int
  BY RowType
<1>2. from \in 0..Len(q)
  BY <1>1, RowsUpToType
<1>3. room \in Int
  BY PipelineAssumption
<1>4. to \in Int /\ to <= Len(q)
  BY <1>2, <1>3
<1> HIDE DEF last, from, room, to
<1>5. SubSeq(q, from + 1, to) \in Seq(Batch)
  BY <1>2, <1>4
<1>6. Filled(p, q) = p \o SubSeq(q, from + 1, to)
  BY DEF Filled, last, from, room, to
<1> QED
  BY <1>5, <1>6

\* Filling extends a pipeline that begins the queue to a longer beginning of it.
LEMMA FilledBegins ==
  ASSUME NEW p \in Seq(Batch), NEW q \in Seq(Batch), Sorted(q), Begins(p, q)
  PROVE  Begins(p, Filled(p, q)) /\ Begins(Filled(p, q), q)
<1> DEFINE last == IF p = <<>> THEN -1 ELSE p[Len(p)].id
           room == kMaxPendingWrites - Len(p)
           to   == IF Len(p) + room < Len(q) THEN Len(p) + room ELSE Len(q)
           more == SubSeq(q, Len(p) + 1, to)
<1>1. last \in Int
  BY RowType
<1>2. Len(p) \in 0..Len(q)
  BY DEF Begins
<1>3. \A i \in 1..Len(p) : q[i].id <= last
  <2> SUFFICES ASSUME NEW i \in 1..Len(p) PROVE q[i].id <= last
    OBVIOUS
  <2>1. last = q[Len(p)].id
    BY DEF Begins
  <2>2. i < Len(p) => q[i].id < q[Len(p)].id
    BY <1>2 DEF Sorted
  <2>3. Len(p) \in 1..Len(q) /\ i \in 1..Len(q)
    BY <1>2
  <2>4. q[i].id \in Nat /\ q[Len(p)].id \in Nat
    BY <2>3, RowType
  <2>5. i = Len(p) => q[i].id = q[Len(p)].id
    OBVIOUS
  <2> HIDE DEF last
  <2> QED
    BY <2>1, <2>2, <2>4, <2>5
<1>4. \A i \in Len(p)+1..Len(q) : q[i].id > last
  <2> SUFFICES ASSUME NEW i \in Len(p)+1..Len(q) PROVE q[i].id > last
    OBVIOUS
  <2>1. q[i].id \in Nat
    BY RowType
  <2>2. CASE p = <<>>
    BY <2>1, <2>2
  <2>3. CASE p # <<>>
    <3>1. last = q[Len(p)].id /\ Len(p) \in 1..Len(q) /\ last \in Nat
      BY <2>3, RowType DEF Begins
    <3> QED
      BY <3>1, <2>1 DEF Sorted
  <2> QED
    BY <2>2, <2>3
<1>5. RowsUpTo(q, last) = Len(p)
  BY <1>1, <1>2, <1>3, <1>4, RowsUpToIs
<1>6. room \in Int
  BY PipelineAssumption
<1>7. to \in Int /\ to <= Len(q)
  BY <1>2, <1>6
<1>8. Filled(p, q) = p \o more
  BY <1>5 DEF Filled
<1> HIDE DEF last, room, to
<1>9. /\ more \in Seq(Batch)
      /\ Len(more) = IF Len(p) + 1 <= to THEN to - Len(p) ELSE 0
      /\ \A i \in 1..Len(more) : more[i] = q[Len(p) + i]
  BY <1>2, <1>7
<1> HIDE DEF more
<1>10. /\ Len(p \o more) = Len(p) + Len(more)
       /\ \A i \in 1..Len(p) : (p \o more)[i] = p[i]
       /\ \A i \in 1..Len(more) : (p \o more)[Len(p) + i] = more[i]
  BY <1>9
<1>11. Len(p \o more) <= Len(q)
  BY <1>2, <1>7, <1>9, <1>10
<1>12. ASSUME NEW i \in 1..Len(p \o more) PROVE (p \o more)[i] = q[i]
  <2>1. CASE i <= Len(p)
    BY <2>1, <1>10 DEF Begins
  <2>2. CASE i > Len(p)
    <3>1. i - Len(p) \in 1..Len(more) /\ i = Len(p) + (i - Len(p))
      BY <2>2, <1>9, <1>10
    <3> QED
      BY <3>1, <1>9, <1>10
  <2> QED
    BY <2>1, <2>2, <1>9, <1>10
<1> QED
  BY <1>8, <1>9, <1>10, <1>11, <1>12 DEF Begins

\* Removing a row takes no other row and adds none.
LEMMA RemoveType ==
  ASSUME NEW q \in Seq(Batch), NEW id \in Int
  PROVE  RemoveMutationBatch(q, id) \in Seq(Batch)
<1> DEFINE n == RowsUpTo(q, id)
<1>1. n \in 0..Len(q)
  BY RowsUpToType
<1> HIDE DEF n
<1>2. SubSeq(q, 1, n-1) \in Seq(Batch) /\ SubSeq(q, n+1, Len(q)) \in Seq(Batch)
  BY <1>1
<1> QED
  BY <1>2 DEF RemoveMutationBatch, n

-----------------------------------------------------------------------------
(* The inductive invariant.                                                *)

\* GetToken calls are older than the stream or the one it waits for.
CallsCount(s) ==
  /\ \A c \in s.calls : c <= s.closes
  /\ s.state = "Starting" <=> s.closes \in s.calls

\* Past the handshake: what the call carries is about the pipeline, in order.
Correlated(p, responses, requests) ==
  /\ Len(p) = Len(responses) + Len(requests)
  /\ \A i \in 1..Len(responses) : responses[i] = p[i].write
  /\ \A i \in 1..Len(requests) : requests[i].write = p[Len(responses) + i].write

\* Before it: the handshake alone, on its way or on its way back.
Greeting(w) ==
  \/ w.responses = <<>> /\ w.requests = <<[write |-> Handshake, token |-> 0]>>
  \/ w.responses = <<Handshake>> /\ w.requests = <<>> /\ w.verdict = "none"

\* What a stream in each state carries.
Carried(s, p, w) ==
  /\ s.handshake => s.state = "Open" /\ Correlated(p, w.responses, w.requests)
  /\ s.state = "Open" /\ ~s.handshake => Greeting(w)
  /\ s.state # "Open" => w.responses = <<>> /\ w.requests = <<>> /\ w.verdict = "none"

\* When the stream is there and when it is idle: it was started for a write.
Needed(on, s, p) ==
  /\ on \/ p = <<>>
  /\ IsStarted(s) => on /\ (s.handshake \/ p # <<>>)
  /\ s.idle => s.state = "Open" /\ p = <<>>

\* A stream is there for what waits.
Served(on, s, p) == on /\ p # <<>> => IsStarted(s)

\* The stream, the pipeline and the call carry the same writes.
StreamInv ==
  /\ CallsCount(stream)
  /\ Carried(stream, pipeline, wire)
  /\ Needed(enabled, stream, pipeline)
  /\ Served(enabled, stream, pipeline)

\* Every write request carries one token.
Tokens(requests, t) ==
  \A i \in DOMAIN requests : requests[i].write # Handshake => requests[i].token = t

\* The token of the stream, also in the store, for EnableNetwork reads it back.
TokenInv ==
  /\ stream.handshake => stream.token = wire.no /\ savedToken[user] = wire.no
  /\ Tokens(wire.requests, wire.no)

\* Every queue is sorted and below the next id.
QueueInv ==
  \A u \in Users : /\ Sorted(queue[u])
                   /\ \A i \in DOMAIN queue[u] : queue[u][i].id < nextId

\* An abandoned call that carries nothing is forgotten.
StrayInv == <<>> \notin wire.stray

\* The batch being acknowledged and the pipeline begin the current user's queue.
PipelineInv ==
  IF acking = NoBatch THEN Begins(pipeline, queue[user])
  ELSE queue[user] # <<>> /\ queue[user][1] = acking /\ Begins(pipeline, Tail(queue[user]))

\* The half-done acknowledgement: its user has been told, its write is committed.
AckInv ==
  acking # NoBatch =>
    /\ stream.handshake /\ enabled
    /\ acking.write \in Committed
    /\ \A c \in callbacks[user] : c.id # acking.id

\* Every response is about a committed write.
Answered(responses) == \A i \in DOMAIN responses : responses[i] \in Committed

\* A refused request is the first that is not answered.
Condemned(verdict, requests) ==
  verdict = "permanent" => requests # <<>> /\ requests[1].write \in refused

\* What the backend said of the writes it has seen is so.
BackendInv ==
  stream.handshake => Answered(wire.responses) /\ Condemned(wire.verdict, wire.requests)

\* The inductive invariant of the write path.
Inv ==
  /\ TypeOK /\ StreamInv /\ TokenInv /\ StrayInv /\ QueueInv /\ PipelineInv
  /\ CallbacksAreQueued /\ AckInv /\ BackendInv
  /\ OkMeansCommitted /\ NothingLost

-----------------------------------------------------------------------------
(* Filling and closing keep the stream in order.                           *)

\* One request for each batch, with its write and the token.
LEMMA RequestsForIs ==
  ASSUME NEW b \in Seq(Batch), NEW t \in Nat
  PROVE  /\ RequestsFor(b, t) \in Seq(Request)
         /\ Len(RequestsFor(b, t)) = Len(b)
         /\ \A i \in 1..Len(b) : /\ RequestsFor(b, t)[i].write = b[i].write
                                 /\ RequestsFor(b, t)[i].token = t
<1>1. \A i \in 1..Len(b) : [write |-> b[i].write, token |-> t] \in Request
  BY RowType DEF Request
<1> QED
  BY <1>1 DEF RequestsFor

\* Where the elements of a concatenation are.
LEMMA ConcatIs ==
  ASSUME NEW S, NEW s \in Seq(S), NEW t \in Seq(S)
  PROVE  /\ s \o t \in Seq(S) /\ Len(s \o t) = Len(s) + Len(t)
         /\ \A i \in 1..Len(s) : (s \o t)[i] = s[i]
         /\ \A i \in 1..Len(t) : (s \o t)[Len(s) + i] = t[i]
OBVIOUS

\* The requests for what was added to a pipeline.
LEMMA SentIs ==
  ASSUME NEW p \in Seq(Batch), NEW p2 \in Seq(Batch), Begins(p, p2), NEW t \in Nat
  PROVE  LET sent == RequestsFor(SubSeq(p2, Len(p) + 1, Len(p2)), t) IN
         /\ sent \in Seq(Request) /\ Len(sent) = Len(p2) - Len(p)
         /\ \A i \in 1..Len(sent) :
              sent[i].write = p2[Len(p) + i].write /\ sent[i].token = t
<1> DEFINE new == SubSeq(p2, Len(p) + 1, Len(p2))
<1>1. Len(p) \in 0..Len(p2)
  BY DEF Begins
<1>2. /\ new \in Seq(Batch) /\ Len(new) = Len(p2) - Len(p)
      /\ \A i \in 1..Len(new) : new[i] = p2[Len(p) + i]
  BY <1>1
<1> HIDE DEF new
<1>3. /\ RequestsFor(new, t) \in Seq(Request)
      /\ Len(RequestsFor(new, t)) = Len(p2) - Len(p)
  BY <1>2, RequestsForIs
<1>4. \A i \in 1..Len(RequestsFor(new, t)) :
        /\ RequestsFor(new, t)[i].write = p2[Len(p) + i].write
        /\ RequestsFor(new, t)[i].token = t
  BY <1>2, RequestsForIs
<1> QED
  BY <1>3, <1>4 DEF new

\* The requests r2 are r and those for what p2 adds to p.
Extends(r2, r, p2, p, t) ==
  r2 = r \o RequestsFor(SubSeq(p2, Len(p) + 1, Len(p2)), t)

\* Sending what was added keeps requests and pipeline together.
LEMMA RequestsKeep ==
  ASSUME NEW p \in Seq(Batch), NEW p2 \in Seq(Batch), Begins(p, p2),
         NEW a \in Seq(Response), NEW r \in Seq(Request), Correlated(p, a, r),
         NEW t \in Nat, NEW r2 \in Seq(Request), Extends(r2, r, p2, p, t)
  PROVE  /\ Correlated(p2, a, r2)
         /\ r # <<>> => r2 # <<>> /\ r2[1] = r[1]
         /\ \A i \in DOMAIN r2 : (i \in DOMAIN r /\ r2[i] = r[i]) \/ r2[i].token = t
<1> DEFINE new == RequestsFor(SubSeq(p2, Len(p) + 1, Len(p2)), t)
<1>1. /\ new \in Seq(Request) /\ Len(new) = Len(p2) - Len(p)
      /\ \A i \in 1..Len(new) :
           new[i].write = p2[Len(p) + i].write /\ new[i].token = t
  BY SentIs
<1> HIDE DEF new
<1>2. PICK sent \in Seq(Request) : sent = new
  BY <1>1
<1>3. /\ Len(sent) = Len(p2) - Len(p)
      /\ \A i \in 1..Len(sent) :
           sent[i].write = p2[Len(p) + i].write /\ sent[i].token = t
  BY <1>1, <1>2
<1>4. r2 = r \o sent
  BY <1>2 DEF Extends, new
<1>5. /\ Len(r \o sent) = Len(r) + Len(sent)
      /\ \A i \in 1..Len(r) : (r \o sent)[i] = r[i]
      /\ \A i \in 1..Len(sent) : (r \o sent)[Len(r) + i] = sent[i]
  BY ConcatIs
<1>6. /\ Len(r2) = Len(r) + Len(sent)
      /\ \A i \in 1..Len(r) : r2[i] = r[i]
      /\ \A i \in 1..Len(sent) : r2[Len(r) + i] = sent[i]
  BY <1>5, <1>4
<1>7. /\ Len(p) \in Nat /\ Len(p2) \in Nat /\ Len(a) \in Nat
      /\ Len(r) \in Nat /\ Len(sent) \in Nat /\ Len(r2) \in Nat
      /\ Len(p) <= Len(p2)
  BY DEF Begins
<1>8. Len(p) = Len(a) + Len(r)
  BY DEF Correlated
<1>9. \A i \in 1..Len(p) : p[i] = p2[i]
  BY DEF Begins
<1>12. ASSUME NEW i \in 1..Len(r2), i \notin 1..Len(r)
      PROVE  i - Len(r) \in 1..Len(sent) /\ r2[i] = sent[i - Len(r)]
  <2>1. i - Len(r) \in 1..Len(sent) /\ i = Len(r) + (i - Len(r))
    BY <1>3, <1>6, <1>7, <1>12
  <2> QED
    BY <1>6, <2>1
<1>13. Correlated(p2, a, r2)
  <2>1. Len(p2) = Len(a) + Len(r2)
    BY <1>3, <1>6, <1>7, <1>8
  <2>2. \A i \in 1..Len(a) : a[i] = p2[i].write
    BY <1>8, <1>9 DEF Correlated
  <2>3. ASSUME NEW i \in 1..Len(r2)
        PROVE  r2[i].write = p2[Len(a) + i].write
    <3>1. CASE i \in 1..Len(r)
      <4>1. r2[i].write = p[Len(a) + i].write
        BY <1>6, <3>1 DEF Correlated
      <4>2. Len(a) + i \in 1..Len(p)
        BY <1>7, <3>1, <1>8
      <4> QED
        BY <4>1, <4>2, <1>9
    <3>2. CASE i \notin 1..Len(r)
      <4>1. Len(p) + (i - Len(r)) = Len(a) + i
        BY <1>7, <1>8
      <4> QED
        BY <1>3, <3>2, <4>1, <1>12
    <3> QED
      BY <3>1, <3>2
  <2> QED
    BY <2>1, <2>2, <2>3 DEF Correlated
<1>14. r # <<>> => r2 # <<>> /\ r2[1] = r[1]
  BY <1>3, <1>6, <1>7
<1>15. ASSUME NEW i \in DOMAIN r2
       PROVE  (i \in DOMAIN r /\ r2[i] = r[i]) \/ r2[i].token = t
  <2>1. i \in 1..Len(r2) /\ DOMAIN r = 1..Len(r)
    OBVIOUS
  <2>2. CASE i \in 1..Len(r)
    BY <1>6, <2>1, <2>2
  <2>3. CASE i \notin 1..Len(r)
    BY <1>3, <2>1, <2>3, <1>12
  <2> QED
    BY <2>2, <2>3
<1> QED
  BY <1>13, <1>14, <1>15

\* What FillWritePipeline makes of the pipeline.
LEMMA PipelineFilled ==
  ASSUME NEW on \in BOOLEAN, NEW p \in Seq(Batch), NEW q \in Seq(Batch),
         Sorted(q), Begins(p, q)
  PROVE  LET p2 == IF on THEN Filled(p, q) ELSE p IN
         p2 \in Seq(Batch) /\ Begins(p, p2) /\ Begins(p2, q)
<1>1. CASE on
  BY <1>1, FilledType, FilledBegins
<1>2. CASE ~on
  BY <1>2 DEF Begins
<1> QED
  BY <1>1, <1>2

\* Nothing added: the pipeline is the same.
LEMMA NothingAdded ==
  ASSUME NEW p \in Seq(Batch), NEW p2 \in Seq(Batch), Begins(p, p2)
  PROVE  SubSeq(p2, Len(p) + 1, Len(p2)) = <<>> <=> p2 = p
<1>1. Len(p) \in Nat /\ Len(p2) \in Nat /\ Len(p) <= Len(p2)
  BY DEF Begins
<1>2. Len(SubSeq(p2, Len(p) + 1, Len(p2))) = Len(p2) - Len(p)
  BY <1>1
<1>3. ASSUME SubSeq(p2, Len(p) + 1, Len(p2)) = <<>> PROVE p2 = p
  <2>1. Len(p2) = Len(p)
    <3> DEFINE new == SubSeq(p2, Len(p) + 1, Len(p2))
    <3>1. new = <<>> /\ Len(new) = Len(p2) - Len(p)
      BY <1>2, <1>3
    <3> HIDE DEF new
    <3>2. Len(new) = 0
      BY <3>1
    <3> QED
      BY <3>1, <3>2, <1>1
  <2>2. \A i \in 1..Len(p) : p2[i] = p[i]
    BY DEF Begins
  <2> QED
    BY <2>1, <2>2
<1>4. ASSUME p2 = p PROVE SubSeq(p2, Len(p) + 1, Len(p2)) = <<>>
  BY <1>1, <1>4
<1> QED
  BY <1>3, <1>4

\* The parts of a stream.
LEMMA StreamParts ==
  ASSUME NEW s \in Stream
  PROVE  /\ s.state \in State /\ s.closes \in Nat /\ s.calls \in SUBSET Nat
         /\ s.handshake \in BOOLEAN /\ s.idle \in BOOLEAN /\ s.token \in Nat
BY DEF Stream

\* The parts of a connection.
LEMMA WireParts ==
  ASSUME NEW w \in Wire
  PROVE  /\ w.no \in Nat /\ w.requests \in Seq(Request) /\ w.responses \in Seq(Response)
         /\ w.verdict \in Verdict /\ w.stray \in SUBSET Seq(Response)
BY DEF Wire

\* Starting a stream that is needed and not started.
LEMMA StartKeeps ==
  ASSUME NEW s \in Stream, CallsCount(s), ~IsStarted(s), s.state # "Open"
  PROVE  LET t == Start(s) IN
         /\ t \in Stream /\ CallsCount(t) /\ IsStarted(t) /\ t.state # "Open"
         /\ t.handshake = s.handshake /\ t.idle = s.idle /\ t.token = s.token
<1>1. CASE s.state = "Error"
  BY <1>1 DEF Start, Stream, State, CallsCount, IsStarted
<1>2. CASE s.state # "Error"
  <2> DEFINE t == [s EXCEPT !.state = "Starting", !.calls = @ \cup {s.closes}]
  <2>1. Start(s) = t
    BY <1>2 DEF Start, RequestCredentials, Stream
  <2>2. t \in Stream /\ t.state = "Starting" /\ t.calls = s.calls \cup {s.closes}
        /\ t.closes = s.closes /\ t.handshake = s.handshake /\ t.idle = s.idle
        /\ t.token = s.token
    BY DEF Stream, State
  <2> HIDE DEF t
  <2>3. CallsCount(t)
    BY <2>2, StreamParts DEF CallsCount
  <2> QED
    BY <2>1, <2>2, <2>3 DEF IsStarted
<1> QED
  BY <1>1, <1>2

\* What FillWritePipeline leaves: the queue's order, a stream that is started when
\* it is needed, and a connection with perhaps more requests and no other change.
Refilled(on, s, q, w) ==
  /\ pipeline' \in Seq(Batch) /\ stream' \in Stream /\ wire' \in Wire
  /\ Begins(pipeline', q)
  /\ CallsCount(stream') /\ Carried(stream', pipeline', wire')
  /\ Needed(on, stream', pipeline') /\ Served(on, stream', pipeline')
  /\ stream'.handshake = s.handshake /\ stream'.token = s.token
  /\ wire'.no = w.no /\ wire'.responses = w.responses
  /\ wire'.verdict = w.verdict /\ wire'.stray = w.stray
  /\ w.requests # <<>> => wire'.requests # <<>> /\ wire'.requests[1] = w.requests[1]
  /\ Tokens(w.requests, w.no) /\ (s.handshake => s.token = w.no)
       => Tokens(wire'.requests, w.no)

\* FillWritePipeline establishes the parts about stream, pipeline and connection.
LEMMA FillKeeps ==
  ASSUME NEW on \in BOOLEAN, NEW s \in Stream, NEW p \in Seq(Batch),
         NEW q \in Seq(Batch), NEW w \in Wire,
         Sorted(q), Begins(p, q), CallsCount(s), Carried(s, p, w), Needed(on, s, p),
         FillWritePipeline(on, s, p, q, w)
  PROVE  Refilled(on, s, q, w)
<1>2. PICK p2 \in Seq(Batch) : /\ p2 = IF on THEN Filled(p, q) ELSE p
                               /\ Begins(p, p2) /\ Begins(p2, q)
  BY PipelineFilled
<1> DEFINE new  == SubSeq(p2, Len(p) + 1, Len(p2))
           live == CanSend(s) /\ new # <<>>
           idle == (s.idle \/ (on /\ p2 = <<>> /\ s.state = "Open")) /\ ~live
           kept == [s EXCEPT !.idle = idle]
           w2   == IF live THEN Sent(w, new, s.token) ELSE w
           s2   == IF on /\ p2 # <<>> /\ ~IsStarted(s) THEN Start(kept) ELSE kept
<1>1. pipeline' = p2 /\ wire' = w2 /\ stream' = s2
  BY <1>2 DEF FillWritePipeline
<1>3. ~on => p2 = p
  BY <1>2
<1>4. new = <<>> <=> p2 = p
  BY <1>2, NothingAdded
<1>5. p2 = <<>> => p = <<>>
  BY <1>2 DEF Begins
<1> HIDE DEF new
<1>6. /\ s.state \in State /\ s.closes \in Nat /\ s.calls \in SUBSET Nat
      /\ s.handshake \in BOOLEAN /\ s.idle \in BOOLEAN /\ s.token \in Nat
  BY StreamParts
<1>7. /\ w.no \in Nat /\ w.requests \in Seq(Request) /\ w.responses \in Seq(Response)
      /\ w.verdict \in Verdict /\ w.stray \in SUBSET Seq(Response)
  BY WireParts
<1>8. live \in BOOLEAN /\ idle \in BOOLEAN
  BY <1>6 DEF CanSend
<1>9. idle => p2 = <<>> /\ s.state = "Open"
  <2>1. CASE s.idle /\ ~live
    <3>1. p = <<>> /\ s.state = "Open"
      BY <2>1 DEF Needed
    <3>2. s.handshake
      BY <3>1 DEF Needed, IsStarted
    <3>3. new = <<>>
      BY <2>1, <3>1, <3>2 DEF CanSend
    <3> QED
      BY <1>4, <3>1, <3>3
  <2>2. CASE ~s.idle \/ live
    BY <2>2
  <2> QED
    BY <2>1, <2>2
<1> HIDE DEF idle
<1>10. /\ kept \in Stream /\ kept.state = s.state /\ kept.closes = s.closes
       /\ kept.calls = s.calls /\ kept.handshake = s.handshake /\ kept.token = s.token
       /\ kept.idle = idle
  BY <1>8 DEF Stream
<1> HIDE DEF kept
<1>11. CallsCount(kept)
  BY <1>10 DEF CallsCount
<1>12. /\ s2 \in Stream /\ CallsCount(s2)
       /\ s2.handshake = s.handshake /\ s2.token = s.token /\ s2.idle = idle
       /\ s2.state # s.state => on /\ p2 # <<>> /\ s2.state # "Open" /\ ~IsStarted(s)
       /\ on /\ p2 # <<>> => IsStarted(s2)
  <2>1. CASE on /\ p2 # <<>> /\ ~IsStarted(s)
    <3>1. ~IsStarted(kept) /\ kept.state # "Open"
      BY <2>1, <1>10 DEF IsStarted
    <3>2. s2 = Start(kept)
      BY <2>1
    <3> QED
      BY <3>1, <3>2, <2>1, <1>10, <1>11, StartKeeps
  <2>2. CASE ~(on /\ p2 # <<>> /\ ~IsStarted(s))
    <3>1. s2 = kept
      BY <2>2
    <3> QED
      BY <3>1, <2>2, <1>10, <1>11 DEF IsStarted
  <2> QED
    BY <2>1, <2>2
<1> HIDE DEF s2
<1>13. /\ w2 \in Wire /\ w2.no = w.no /\ w2.responses = w.responses
       /\ w2.verdict = w.verdict /\ w2.stray = w.stray
       /\ w2.requests = IF live THEN w.requests \o RequestsFor(new, s.token) ELSE w.requests
  <2>1. new \in Seq(Batch)
    <3>1. Len(p) \in Nat /\ Len(p2) \in Nat
      BY <1>2
    <3> QED
      BY <3>1, <1>2 DEF new
  <2>2. RequestsFor(new, s.token) \in Seq(Request)
    BY <2>1, <1>6, RequestsForIs
  <2>3. w.requests \o RequestsFor(new, s.token) \in Seq(Request)
    BY <2>2, <1>7
  <2> QED
    BY <2>3, <1>7 DEF Wire, Sent
<1> HIDE DEF w2
<1>14. ASSUME live
       PROVE  /\ Correlated(p2, w.responses, w2.requests)
              /\ w.requests # <<>> => w2.requests # <<>> /\ w2.requests[1] = w.requests[1]
              /\ \A i \in DOMAIN w2.requests :
                   \/ i \in DOMAIN w.requests /\ w2.requests[i] = w.requests[i]
                   \/ w2.requests[i].token = s.token
  <2>1. Correlated(p, w.responses, w.requests)
    BY <1>14 DEF CanSend, Carried
  <2>2. w2.requests = w.requests \o RequestsFor(SubSeq(p2, Len(p) + 1, Len(p2)), s.token)
    BY <1>13, <1>14 DEF new
  <2>3. PICK a \in Seq(Response), r \in Seq(Request), r2 \in Seq(Request), t \in Nat :
               a = w.responses /\ r = w.requests /\ r2 = w2.requests /\ t = s.token
    BY <1>6, <1>7, WireParts, <1>13
  <2>4. Correlated(p, a, r) /\ p2 \in Seq(Batch) /\ Begins(p, p2)
    BY <2>1, <2>3, <1>2
  <2>5. Extends(r2, r, p2, p, t)
    BY <2>2, <2>3 DEF Extends
  <2>6. /\ Correlated(p2, a, r2)
        /\ r # <<>> => r2 # <<>> /\ r2[1] = r[1]
        /\ \A i \in DOMAIN r2 :
             (i \in DOMAIN r /\ r2[i] = r[i]) \/ r2[i].token = t
    BY <2>3, <2>4, <2>5, RequestsKeep
  <2> QED
    BY <2>3, <2>6
<1>15. Carried(s2, p2, w2)
  <2>1. CASE live
    <3>1. s.state = "Open" /\ s.handshake
      BY <2>1 DEF CanSend
    <3>2. s2.state = s.state
      BY <3>1, <1>12 DEF IsStarted
    <3> QED
      BY <3>1, <3>2, <2>1, <1>12, <1>13, <1>14 DEF Carried
  <2>2. CASE ~live /\ s.state = "Open"
    <3>1. s2.state = "Open"
      BY <2>2, <1>12 DEF IsStarted
    <3>2. s.handshake => p2 = p
      BY <2>2, <1>4 DEF CanSend
    <3>3. w2.requests = w.requests
      BY <2>2, <1>13
    <3> HIDE DEF live
    <3>4. s.handshake => Correlated(p2, w2.responses, w2.requests)
      BY <3>2, <3>3, <1>13 DEF Carried
    <3>5. ~s.handshake => Greeting(w2)
      BY <2>2, <3>3, <1>13 DEF Carried, Greeting
    <3> QED
      BY <3>1, <3>4, <3>5, <1>12 DEF Carried
  <2>3. CASE ~live /\ s.state # "Open"
    <3>1. s2.state # "Open"
      BY <2>3, <1>12
    <3>2. w2.requests = w.requests
      BY <2>3, <1>13
    <3> QED
      BY <3>1, <3>2, <2>3, <1>12, <1>13 DEF Carried
  <2> QED
    BY <2>1, <2>2, <2>3
<1>16. Needed(on, s2, p2)
  <2>1. on \/ p2 = <<>>
    BY <1>3 DEF Needed
  <2>2. IsStarted(s2) => on /\ (s2.handshake \/ p2 # <<>>)
    <3>1. CASE s2.state = s.state
      BY <3>1, <1>5, <1>12 DEF Needed, IsStarted
    <3>2. CASE s2.state # s.state
      BY <3>2, <1>12
    <3> QED
      BY <3>1, <3>2
  <2>3. s2.idle => s2.state = "Open" /\ p2 = <<>>
    BY <1>9, <1>12
  <2> QED
    BY <2>1, <2>2, <2>3 DEF Needed
<1>17. Served(on, s2, p2)
  BY <1>12 DEF Served
<1>18. \A i \in DOMAIN w2.requests :
         \/ i \in DOMAIN w.requests /\ w2.requests[i] = w.requests[i]
         \/ s.handshake /\ w2.requests[i].token = s.token
  <2>1. CASE live
    BY <2>1, <1>14 DEF CanSend
  <2>2. CASE ~live
    BY <2>2, <1>13
  <2> QED
    BY <2>1, <2>2
<1>19. ASSUME Tokens(w.requests, w.no), s.handshake => s.token = w.no
       PROVE  Tokens(w2.requests, w.no)
  BY <1>18, <1>19 DEF Tokens
<1>20. w.requests # <<>> => w2.requests # <<>> /\ w2.requests[1] = w.requests[1]
  BY <1>13, <1>14
<1> QED
  BY <1>1, <1>2, <1>12, <1>13, <1>15, <1>16, <1>17, <1>19, <1>20 DEF Refilled

-----------------------------------------------------------------------------
(* Appending to a queue and removing its first row.                        *)

\* A queue that gets the next batch stays ordered and keeps its beginnings.
LEMMA AppendKeeps ==
  ASSUME NEW q \in Seq(Batch), NEW b \in Batch, Sorted(q),
         \A i \in DOMAIN q : q[i].id < b.id
  PROVE  /\ Append(q, b) \in Seq(Batch) /\ Sorted(Append(q, b))
         /\ \A i \in DOMAIN Append(q, b) : Append(q, b)[i].id <= b.id
         /\ \A i \in DOMAIN q : i \in DOMAIN Append(q, b) /\ Append(q, b)[i] = q[i]
         /\ \E i \in DOMAIN Append(q, b) : Append(q, b)[i] = b
         /\ \A p \in Seq(Batch) : Begins(p, q) => Begins(p, Append(q, b))
<1> DEFINE r == Append(q, b)
<1>1. /\ r \in Seq(Batch) /\ Len(r) = Len(q) + 1
      /\ \A i \in 1..Len(q) : r[i] = q[i]
      /\ r[Len(q) + 1] = b
  OBVIOUS
<1> HIDE DEF r
<1>2. Len(q) \in Nat /\ DOMAIN q = 1..Len(q) /\ DOMAIN r = 1..Len(r) /\ Len(r) \in Nat
  BY <1>1
<1>3. \A i \in 1..Len(r) : i \in 1..Len(q) \/ (i = Len(q) + 1 /\ r[i] = b)
  BY <1>1, <1>2
<1>4. b.id \in Nat /\ \A i \in 1..Len(q) : q[i].id \in Nat
  BY RowType DEF Batch
<1>5. ASSUME NEW i \in 1..Len(r), NEW j \in 1..Len(r), i < j
      PROVE  r[i].id < r[j].id
  <2>1. i \in 1..Len(q) /\ r[i] = q[i]
    BY <1>1, <1>2, <1>5
  <2>2. CASE j \in 1..Len(q)
    BY <2>1, <2>2, <1>1, <1>2, <1>5 DEF Sorted
  <2>3. CASE j \notin 1..Len(q)
    BY <2>1, <2>3, <1>2, <1>3
  <2> QED
    BY <2>2, <2>3
<1>6. Sorted(r)
  BY <1>2, <1>5 DEF Sorted
<1>7. ASSUME NEW i \in 1..Len(r) PROVE r[i].id <= b.id
  <2>1. CASE i \in 1..Len(q)
    BY <2>1, <1>1, <1>2, <1>4
  <2>2. CASE i \notin 1..Len(q)
    BY <2>2, <1>3, <1>4
  <2> QED
    BY <2>1, <2>2
<1>8. \A i \in DOMAIN q : i \in DOMAIN r /\ r[i] = q[i]
  BY <1>1, <1>2
<1>9. \E i \in DOMAIN r : r[i] = b
  BY <1>1, <1>2
<1>10. ASSUME NEW p \in Seq(Batch), Begins(p, q) PROVE Begins(p, r)
  <2>1. Len(p) \in Nat /\ Len(p) <= Len(q)
    BY <1>10 DEF Begins
  <2> QED
    BY <2>1, <1>1, <1>2, <1>10 DEF Begins
<1> QED
  BY <1>1, <1>2, <1>6, <1>7, <1>8, <1>9, <1>10 DEF r

\* A queue without its first batch stays ordered.
LEMMA TailKeeps ==
  ASSUME NEW q \in Seq(Batch), q # <<>>, Sorted(q)
  PROVE  /\ Tail(q) \in Seq(Batch) /\ Sorted(Tail(q))
         /\ \A i \in DOMAIN Tail(q) : i+1 \in DOMAIN q /\ Tail(q)[i] = q[i+1]
         /\ \A i \in DOMAIN q : q[i] # q[1] =>
              \E j \in DOMAIN Tail(q) : Tail(q)[j] = q[i]
         /\ \A i \in DOMAIN q : q[i].id = q[1].id => i = 1
<1> DEFINE r == Tail(q)
<1>1. /\ r \in Seq(Batch) /\ Len(r) = Len(q) - 1
      /\ \A i \in 1..Len(r) : r[i] = q[i+1]
  OBVIOUS
<1> HIDE DEF r
<1>2. /\ Len(q) \in Nat /\ Len(q) >= 1 /\ DOMAIN q = 1..Len(q)
      /\ DOMAIN r = 1..Len(r) /\ Len(r) \in Nat
  BY <1>1
<1>3. \A i \in 1..Len(q) : q[i].id \in Nat
  BY RowType
<1>4. \A i, j \in DOMAIN q : i < j => q[i].id < q[j].id
  BY DEF Sorted
<1>5. \A i \in 1..Len(r) : i+1 \in 1..Len(q)
  BY <1>1, <1>2
<1>6. Sorted(r)
  <2>1. ASSUME NEW i \in 1..Len(r), NEW j \in 1..Len(r), i < j
        PROVE  r[i].id < r[j].id
    <3>1. r[i] = q[i+1] /\ r[j] = q[j+1] /\ i+1 \in DOMAIN q /\ j+1 \in DOMAIN q
      BY <1>1, <1>2, <1>5
    <3>2. i+1 < j+1
      BY <1>2, <2>1
    <3> QED
      BY <3>1, <3>2, <1>4
  <2> QED
    BY <2>1, <1>2 DEF Sorted
<1>7. \A i \in DOMAIN r : i+1 \in DOMAIN q /\ r[i] = q[i+1]
  BY <1>1, <1>2, <1>5
<1>8. ASSUME NEW i \in 1..Len(q), q[i] # q[1]
      PROVE  \E j \in DOMAIN r : r[j] = q[i]
  <2>1. i # 1
    BY <1>8
  <2>2. i-1 \in 1..Len(r) /\ (i-1)+1 = i
    BY <2>1, <1>1, <1>2
  <2> QED
    BY <2>2, <1>1, <1>2
<1>9. ASSUME NEW i \in 1..Len(q), q[i].id = q[1].id PROVE i = 1
  <2>1. 1 < i => q[1].id < q[i].id
    BY <1>2, <1>4
  <2> QED
    BY <2>1, <1>2, <1>3, <1>9
<1> QED
  BY <1>1, <1>2, <1>6, <1>7, <1>8, <1>9 DEF r

\* A pipeline that begins a queue without its first batch begins the rest of it.
LEMMA TailBegins ==
  ASSUME NEW p \in Seq(Batch), NEW q \in Seq(Batch), Begins(p, q), p # <<>>
  PROVE  /\ q # <<>> /\ p[1] = q[1] /\ Head(p) = p[1] /\ p[1] \in Batch
         /\ Tail(p) \in Seq(Batch) /\ Begins(Tail(p), Tail(q))
<1>1. /\ Len(p) \in Nat /\ Len(p) >= 1 /\ Len(q) \in Nat /\ Len(p) <= Len(q)
      /\ \A i \in 1..Len(p) : p[i] = q[i]
  BY DEF Begins
<1>2. q # <<>> /\ p[1] = q[1] /\ p[1] \in Batch /\ Head(p) = p[1]
  BY <1>1
<1>3. /\ Tail(p) \in Seq(Batch) /\ Tail(q) \in Seq(Batch)
      /\ Len(Tail(p)) = Len(p) - 1 /\ Len(Tail(q)) = Len(q) - 1
      /\ \A i \in 1..Len(Tail(p)) : Tail(p)[i] = p[i+1]
      /\ \A i \in 1..Len(Tail(q)) : Tail(q)[i] = q[i+1]
  BY <1>2
<1>4. \A i \in 1..Len(Tail(p)) : i+1 \in 1..Len(p) /\ i \in 1..Len(Tail(q))
  BY <1>1, <1>3
<1>5. Begins(Tail(p), Tail(q))
  BY <1>1, <1>3, <1>4 DEF Begins
<1> QED
  BY <1>2, <1>3, <1>5

-----------------------------------------------------------------------------
(* Closing a stream.                                                       *)

\* A connection that is dropped carries nothing.
LEMMA HungKeeps ==
  ASSUME wire \in Wire
  PROVE  /\ Hung \in Wire /\ Hung.no = wire.no /\ Hung.requests = <<>>
         /\ Hung.responses = <<>> /\ Hung.verdict = "none"
         /\ <<>> \notin wire.stray => <<>> \notin Hung.stray
<1>1. Abandoned \in SUBSET Seq(Response)
  <2>1. wire.requests \in Seq(Request)
    BY WireParts
  <2>2. ASSUME NEW r \in Seq(Request) PROVE Writing(r) \in Seq(Response)
    <3>1. ASSUME NEW i \in 1..Len(r) PROVE r[i].write \in Response
      <4>1. r[i] \in Request
        OBVIOUS
      <4> QED
        BY <4>1 DEF Request, Response
    <3> QED
      BY <3>1 DEF Writing
  <2>3. Writing(wire.requests) \in Seq(Response)
    BY <2>1, <2>2
  <2> QED
    BY <2>3 DEF Abandoned
<1>2. wire.stray \cup Abandoned \in SUBSET Seq(Response)
  BY <1>1, WireParts
<1>3. <<>> \in Seq(Request) /\ <<>> \in Seq(Response) /\ "none" \in Verdict
  BY DEF Verdict
<1>4. <<>> \notin Abandoned
  <2>1. ASSUME NEW r \in Seq(Request), r # <<>> PROVE Writing(r) # <<>>
    <3>1. 1 \in DOMAIN Writing(r)
      BY <2>1 DEF Writing
    <3> QED
      BY <3>1
  <2> QED
    BY <2>1, WireParts DEF Abandoned
<1> QED
  BY <1>2, <1>3, <1>4 DEF Hung, Wire

\* A stream that is closed is not started, and no GetToken call counts for it.
LEMMA CloseKeeps ==
  ASSUME NEW s \in Stream, \A n \in s.calls : n <= s.closes,
         NEW to \in {"Initial", "Error"}
  PROVE  LET c == Close(s, to) IN
         /\ c \in Stream /\ CallsCount(c) /\ ~IsStarted(c) /\ c.state = to
         /\ ~c.idle /\ ~c.handshake /\ c.token = s.token
<1> DEFINE c == Close(s, to)
<1>1. /\ c \in Stream /\ c.state = to /\ c.closes = s.closes + 1 /\ c.calls = s.calls
      /\ c.idle = FALSE /\ c.handshake = FALSE /\ c.token = s.token
  <2>1. s.closes + 1 \in Nat /\ to \in State
    BY StreamParts DEF State
  <2> QED
    BY <2>1 DEF Close, Stream
<1> HIDE DEF c
<1>2. s.closes \in Nat /\ s.calls \in SUBSET Nat
  BY StreamParts
<1>3. CallsCount(c)
  <2>1. \A n \in c.calls : n <= c.closes /\ n # c.closes
    BY <1>1, <1>2
  <2> QED
    BY <2>1, <1>1 DEF CallsCount
<1> QED
  BY <1>1, <1>3 DEF c, IsStarted

\* Whatever its state, a stream that was stopped waits for nothing and the
\* connection is empty.
LEMMA StopKeeps ==
  ASSUME stream \in Stream, wire \in Wire, StreamInv
  PROVE  LET s == Stop(stream)
             w == WireAfterStop
         IN  /\ s \in Stream /\ CallsCount(s) /\ ~IsStarted(s) /\ s.state # "Open"
             /\ ~s.idle /\ ~s.handshake /\ s.token = stream.token
             /\ w \in Wire /\ w.no = wire.no /\ w.requests = <<>>
             /\ w.responses = <<>> /\ w.verdict = "none"
             /\ <<>> \notin wire.stray => <<>> \notin w.stray
<1>1. CallsCount(stream) /\ Carried(stream, pipeline, wire) /\ Needed(enabled, stream, pipeline)
  BY DEF StreamInv
<1>2. CASE IsStarted(stream)
  <2>1. \A n \in stream.calls : n <= stream.closes
    BY <1>1 DEF CallsCount
  <2> QED
    BY <1>1, <1>2, <2>1, CloseKeeps, HungKeeps DEF Stop, WireAfterStop, IsStarted
<1>3. CASE ~IsStarted(stream)
  <2>1. stream.state # "Open" /\ stream.handshake \in BOOLEAN /\ stream.idle \in BOOLEAN
    BY <1>3, StreamParts DEF IsStarted
  <2>2. ~stream.idle /\ ~stream.handshake
    BY <2>1, <1>1 DEF Needed, Carried
  <2>3. wire.requests = <<>> /\ wire.responses = <<>> /\ wire.verdict = "none"
    BY <2>1, <1>1 DEF Carried
  <2> QED
    BY <1>1, <1>3, <2>1, <2>2, <2>3 DEF Stop, WireAfterStop
<1> QED
  BY <1>2, <1>3

-----------------------------------------------------------------------------
(* Each action keeps the invariant.                                        *)

\* The members of the invariant that a proof of a step starts from.
LEMMA Parts ==
  ASSUME Inv
  PROVE  /\ queue \in [Users -> Seq(Batch)] /\ savedToken \in [Users -> Nat]
         /\ user \in Users /\ nextId \in Nat /\ enabled \in BOOLEAN
         /\ pipeline \in Seq(Batch) /\ stream \in Stream /\ wire \in Wire
         /\ queue[user] \in Seq(Batch) /\ Sorted(queue[user])
         /\ savedToken[user] \in Nat
         /\ CallsCount(stream) /\ Carried(stream, pipeline, wire)
         /\ Needed(enabled, stream, pipeline) /\ Served(enabled, stream, pipeline)
BY DEF Inv, TypeOK, StreamInv, QueueInv

\* What only the rows, the callbacks and the history decide.
LEMMA SameRows ==
  ASSUME Inv, UNCHANGED <<queue, callbacks, issued, answered>>,
         Committed \subseteq Committed', refused \subseteq refused'
  PROVE  CallbacksAreQueued' /\ OkMeansCommitted' /\ NothingLost'
<1>1. CallbacksAreQueued'
  BY DEF Inv, CallbacksAreQueued
<1>2. OkMeansCommitted'
  BY DEF Inv, OkMeansCommitted
<1>3. NothingLost'
  <2>1. \A u \in Users : QueuedWrites(u)' = QueuedWrites(u)
    BY DEF QueuedWrites
  <2> QED
    BY <2>1 DEF Inv, NothingLost
<1> QED
  BY <1>1, <1>2, <1>3

\* What the pipeline decides besides.
LEMMA SameQueues ==
  ASSUME Inv, UNCHANGED <<queue, user, nextId, pipeline, acking>>
  PROVE  QueueInv' /\ PipelineInv'
BY DEF Inv, QueueInv, PipelineInv

\* A stream and a connection that stay as they are.
LEMMA SameStream ==
  ASSUME Inv, UNCHANGED <<stream, wire, pipeline, enabled, user, savedToken>>
  PROVE  StreamInv' /\ TokenInv' /\ StrayInv'
BY DEF Inv, StreamInv, TokenInv, StrayInv

\* A stopped stream has no token to keep, and a refilled one sends nothing.
LEMMA NoHandshake ==
  ASSUME ~stream'.handshake
  PROVE  BackendInv' /\ (Tokens(wire'.requests, wire'.no) => TokenInv')
BY DEF BackendInv, TokenInv

\* The bounds that are left.
LEMMA LeftKeeps ==
  ASSUME NEW b \in [faults : Nat, changes : Nat, toggles : Nat]
  PROVE  /\ b.faults > 0 => [b EXCEPT !.faults = @ - 1]
                               \in [faults : Nat, changes : Nat, toggles : Nat]
         /\ b.changes > 0 => [b EXCEPT !.changes = @ - 1]
                               \in [faults : Nat, changes : Nat, toggles : Nat]
         /\ b.toggles > 0 => [b EXCEPT !.toggles = @ - 1]
                               \in [faults : Nat, changes : Nat, toggles : Nat]
<1>1. /\ b.faults > 0 => b.faults - 1 \in Nat
      /\ b.changes > 0 => b.changes - 1 \in Nat
      /\ b.toggles > 0 => b.toggles - 1 \in Nat
  OBVIOUS
<1> QED
  BY <1>1

\* A write is filed last, under the current user, before it is sent.
LEMMA WriteMutationsKeeps ==
  ASSUME Inv, NEW w \in Writes, WriteMutations(w)
  PROVE  Inv'
<1> DEFINE batch == [id |-> nextId, write |-> w]
           q     == Append(queue[user], batch)
<1>1. /\ acking = NoBatch
      /\ queue' = [queue EXCEPT ![user] = q]
      /\ callbacks' = [callbacks EXCEPT ![user] =
           IF \E c \in @ : c.id = nextId THEN @ ELSE @ \cup {batch}]
      /\ FillWritePipeline(enabled, stream, pipeline, q, wire)
      /\ nextId' = nextId + 1
      /\ issued' = [issued EXCEPT ![user] = Append(@, w)]
      /\ UNCHANGED <<savedToken, user, waits, enabled, acking, log, answered,
                     refused, left>>
  BY DEF WriteMutations, Free
<1>2. batch \in Batch /\ batch.id = nextId /\ batch.write = w
  BY Parts DEF Batch
<1>3. \A i \in DOMAIN queue[user] : queue[user][i].id < nextId
  BY Parts DEF Inv, QueueInv
<1> HIDE DEF batch
<1>4. /\ q \in Seq(Batch) /\ Sorted(q)
      /\ \A i \in DOMAIN q : q[i].id <= nextId
      /\ \A i \in DOMAIN queue[user] : i \in DOMAIN q /\ q[i] = queue[user][i]
      /\ \E i \in DOMAIN q : q[i] = batch
      /\ Begins(pipeline, q)
  <2>1. Begins(pipeline, queue[user])
    BY <1>1 DEF Inv, PipelineInv
  <2> QED
    BY <2>1, <1>2, <1>3, Parts, AppendKeeps
<1> HIDE DEF q
<1>5. Refilled(enabled, stream, q, wire)
  BY <1>1, <1>4, Parts, FillKeeps
<1>6. queue'[user] = q /\ \A u \in Users \ {user} : queue'[u] = queue[u]
  BY <1>1, Parts
<1>7. TypeOK'
  <2>1. queue' \in [Users -> Seq(Batch)] /\ callbacks' \in [Users -> SUBSET Batch]
    BY <1>1, <1>2, <1>4 DEF Inv, TypeOK
  <2>2. issued' \in [Users -> Seq(Writes)] /\ nextId' \in Nat
    BY <1>1 DEF Inv, TypeOK
  <2> QED
    BY <2>1, <2>2, <1>1, <1>5 DEF Inv, TypeOK, Refilled
<1>8. StreamInv'
  BY <1>1, <1>5 DEF StreamInv, Refilled
<1>9. TokenInv'
  BY <1>1, <1>5 DEF Inv, TokenInv, Refilled
<1>17. StrayInv'
  BY <1>5 DEF Inv, StrayInv, Refilled
<1>10. QueueInv'
  <2> SUFFICES ASSUME NEW u \in Users
               PROVE  /\ Sorted(queue'[u])
                      /\ \A i \in DOMAIN queue'[u] : queue'[u][i].id < nextId'
    BY DEF QueueInv
  <2>1. CASE u = user
    <3>1. \A i \in DOMAIN q : q[i].id \in Nat
      BY <1>4, RowType
    <3> QED
      BY <2>1, <3>1, <1>1, <1>4, <1>6, Parts
  <2>2. CASE u # user
    <3>1. /\ Sorted(queue[u]) /\ queue[u] \in Seq(Batch)
          /\ \A i \in DOMAIN queue[u] : queue[u][i].id < nextId
      BY Parts DEF Inv, QueueInv
    <3>2. \A i \in DOMAIN queue[u] : queue[u][i].id \in Nat
      BY <3>1, RowType
    <3> QED
      BY <2>2, <3>1, <3>2, <1>1, <1>6, Parts
  <2> QED
    BY <2>1, <2>2
<1>11. PipelineInv'
  BY <1>1, <1>5, <1>6 DEF PipelineInv, Refilled
<1>12. CallbacksAreQueued'
  <2> SUFFICES ASSUME NEW u \in Users, NEW c \in callbacks'[u]
               PROVE  \E i \in DOMAIN queue'[u] : queue'[u][i] = c
    BY DEF CallbacksAreQueued
  <2>1. CASE u = user
    <3>1. c \in callbacks[u] \/ c = batch
      BY <2>1, <1>1 DEF Inv, TypeOK
    <3>2. CASE c \in callbacks[u]
      <4>1. \E i \in DOMAIN queue[u] : queue[u][i] = c
        BY <3>2 DEF Inv, CallbacksAreQueued
      <4> QED
        BY <4>1, <2>1, <1>4, <1>6
    <3> QED
      BY <3>1, <3>2, <2>1, <1>4, <1>6
  <2>2. CASE u # user
    <3>1. c \in callbacks[u]
      BY <2>2, <1>1 DEF Inv, TypeOK
    <3> QED
      BY <3>1, <2>2, <1>6 DEF Inv, CallbacksAreQueued
  <2> QED
    BY <2>1, <2>2
<1>13. AckInv'
  BY <1>1 DEF AckInv
<1>14. BackendInv'
  <2>1. Committed' = Committed
    BY <1>1 DEF Committed
  <2>2. stream.handshake =>
          Answered(wire.responses) /\ Condemned(wire.verdict, wire.requests)
    BY DEF Inv, BackendInv
  <2> QED
    BY <2>1, <2>2, <1>1, <1>5 DEF BackendInv, Answered, Condemned, Refilled
<1>15. OkMeansCommitted'
  BY <1>1 DEF Inv, OkMeansCommitted, Committed
<1>16. NothingLost'
  <2> SUFFICES ASSUME NEW u \in Users, NEW i \in DOMAIN issued'[u]
               PROVE  issued'[u][i] \in QueuedWrites(u)' \cup Committed' \cup refused'
    BY DEF NothingLost
  <2>1. Committed' = Committed
    BY <1>1 DEF Committed
  <2>2. QueuedWrites(u) \subseteq QueuedWrites(u)'
    BY <1>4, <1>6 DEF QueuedWrites
  <2>3. CASE i \in DOMAIN issued[u] /\ issued'[u][i] = issued[u][i]
    BY <2>1, <2>2, <2>3, <1>1 DEF Inv, NothingLost
  <2>4. CASE u = user /\ issued'[u][i] = w
    <3>1. w \in QueuedWrites(u)'
      BY <2>4, <1>2, <1>4, <1>6 DEF QueuedWrites
    <3> QED
      BY <3>1, <2>4
  <2>5. (i \in DOMAIN issued[u] /\ issued'[u][i] = issued[u][i])
        \/ (u = user /\ issued'[u][i] = w)
    <3>1. issued[u] \in Seq(Writes)
      BY DEF Inv, TypeOK
    <3> QED
      BY <3>1, <1>1 DEF Inv, TypeOK
  <2> QED
    BY <2>3, <2>4, <2>5
<1> QED
  BY <1>7, <1>8, <1>9, <1>10, <1>11, <1>12, <1>13, <1>14, <1>15, <1>16, <1>17 DEF Inv

\* Registering a waiter touches nothing else.
LEMMA WaitForPendingWritesKeeps ==
  ASSUME Inv, NEW x \in Waiters, WaitForPendingWrites(x)
  PROVE  Inv'
<1>1. /\ acking = NoBatch
      /\ UNCHANGED <<queue, savedToken, user, nextId, callbacks, enabled, pipeline,
                     acking, stream, wire, log, issued, answered, refused, left>>
  BY DEF WaitForPendingWrites, Free
<1>2. waits' \in [Waiters -> Wait]
  <2> DEFINE q == queue[user]
             asked == IF q = <<>> THEN [waits[x] EXCEPT !.result = "ok"]
                      ELSE [result |-> "waiting", id |-> GetHighestUnacknowledgedBatchId,
                            writes |-> QueuedWrites(user)]
  <2>1. waits' = [waits EXCEPT ![x] = asked]
    BY DEF WaitForPendingWrites
  <2>2. waits \in [Waiters -> Wait]
    BY DEF Inv, TypeOK
  <2>3. CASE q = <<>>
    <3>1. [waits[x] EXCEPT !.result = "ok"] \in Wait
      BY <2>2 DEF Wait
    <3> QED
      BY <2>1, <2>2, <2>3, <3>1
  <2>4. CASE q # <<>>
    <3>1. q \in Seq(Batch) /\ Len(q) \in 1..Len(q)
      BY <2>4, Parts
    <3>2. GetHighestUnacknowledgedBatchId \in Nat
      BY <3>1, RowType DEF GetHighestUnacknowledgedBatchId
    <3>3. QueuedWrites(user) \in SUBSET Writes
      BY <3>1, RowType DEF QueuedWrites
    <3>4. [result |-> "waiting", id |-> GetHighestUnacknowledgedBatchId,
           writes |-> QueuedWrites(user)] \in Wait
      BY <3>2, <3>3 DEF Wait
    <3> QED
      BY <2>1, <2>2, <2>4, <3>4
  <2> QED
    BY <2>3, <2>4
<1>3. TypeOK'
  BY <1>1, <1>2 DEF Inv, TypeOK
<1>4. Committed' = Committed
  BY <1>1 DEF Committed
<1>5. AckInv' /\ BackendInv'
  BY <1>1, <1>4 DEF Inv, AckInv, BackendInv, Answered, Condemned
<1> QED
  BY <1>1, <1>3, <1>4, <1>5, SameRows, SameQueues, SameStream DEF Inv

\* Enabling reads the token back and refills the pipeline.
LEMMA EnableNetworkKeeps ==
  ASSUME Inv, EnableNetwork
  PROVE  Inv'
<1> DEFINE s == [stream EXCEPT !.token = savedToken[user]]
<1>1. /\ acking = NoBatch /\ enabled' = TRUE
      /\ FillWritePipeline(TRUE, s, pipeline, queue[user], wire)
      /\ UNCHANGED <<queue, savedToken, user, nextId, callbacks, waits, acking, log,
                     issued, answered, refused, left>>
  BY DEF EnableNetwork, Free
<1>2. /\ s \in Stream /\ s.state = stream.state /\ s.closes = stream.closes
      /\ s.calls = stream.calls /\ s.handshake = stream.handshake /\ s.idle = stream.idle
      /\ s.token = savedToken[user]
  BY Parts DEF Stream
<1> HIDE DEF s
<1>3. /\ CallsCount(s) /\ Carried(s, pipeline, wire) /\ Needed(TRUE, s, pipeline)
  BY <1>2, Parts DEF CallsCount, Carried, Needed, IsStarted
<1>4. Begins(pipeline, queue[user])
  BY <1>1 DEF Inv, PipelineInv
<1>5. Refilled(TRUE, s, queue[user], wire)
  BY <1>1, <1>2, <1>3, <1>4, Parts, FillKeeps
<1>6. Committed' = Committed
  BY <1>1 DEF Committed
<1>7. TypeOK'
  BY <1>1, <1>5 DEF Inv, TypeOK, Refilled
<1>8. StreamInv' /\ StrayInv'
  BY <1>1, <1>5 DEF Inv, StreamInv, StrayInv, Refilled
<1>9. TokenInv'
  <2>1. stream.handshake => savedToken[user] = wire.no
    BY DEF Inv, TokenInv
  <2>2. Tokens(wire.requests, wire.no)
    BY DEF Inv, TokenInv
  <2> QED
    BY <2>1, <2>2, <1>1, <1>2, <1>5 DEF TokenInv, Refilled
<1>10. QueueInv' /\ PipelineInv'
  BY <1>1, <1>5 DEF Inv, QueueInv, PipelineInv, Refilled
<1>11. AckInv'
  BY <1>1 DEF AckInv
<1>12. BackendInv'
  <2>1. stream.handshake =>
          Answered(wire.responses) /\ Condemned(wire.verdict, wire.requests)
    BY DEF Inv, BackendInv
  <2> QED
    BY <2>1, <1>1, <1>2, <1>5, <1>6 DEF BackendInv, Answered, Condemned, Refilled
<1> QED
  BY <1>1, <1>6, <1>7, <1>8, <1>9, <1>10, <1>11, <1>12, SameRows DEF Inv

\* Disabling empties the pipeline and leaves no stream that runs.
LEMMA DisableNetworkKeeps ==
  ASSUME Inv, DisableNetwork
  PROVE  Inv'
<1>1. /\ acking = NoBatch /\ enabled' = FALSE /\ pipeline' = <<>>
      /\ stream' = Stop(stream) /\ wire' = WireAfterStop /\ left.toggles > 0
      /\ left' = [left EXCEPT !.toggles = @ - 1]
      /\ UNCHANGED <<queue, savedToken, user, nextId, callbacks, waits, acking, log,
                     issued, answered, refused>>
  BY DEF DisableNetwork, Free
<1>2. /\ stream' \in Stream /\ CallsCount(stream') /\ ~IsStarted(stream')
      /\ stream'.state # "Open" /\ ~stream'.idle /\ ~stream'.handshake
      /\ wire' \in Wire /\ wire'.no = wire.no /\ wire'.requests = <<>>
      /\ wire'.responses = <<>> /\ wire'.verdict = "none"
      /\ <<>> \notin wire.stray => <<>> \notin wire'.stray
  BY <1>1, Parts, StopKeeps DEF Inv
<1>3. TypeOK'
  <2>1. left' \in [faults : Nat, changes : Nat, toggles : Nat]
    BY <1>1, LeftKeeps DEF Inv, TypeOK
  <2>2. pipeline' \in Seq(Batch) /\ enabled' \in BOOLEAN
    <3>1. <<>> \in Seq(Batch) /\ FALSE \in BOOLEAN
      OBVIOUS
    <3>2. pipeline' = <<>> /\ enabled' = FALSE
      BY <1>1
    <3> QED
      BY <3>1, <3>2
  <2>3. stream' \in Stream /\ wire' \in Wire
    BY <1>2
  <2> QED
    BY <2>1, <2>2, <2>3, <1>1 DEF Inv, TypeOK
<1>4. StreamInv' /\ StrayInv'
  BY <1>1, <1>2 DEF Inv, StreamInv, StrayInv, Carried, Needed, Served
<1>5. TokenInv' /\ BackendInv'
  BY <1>2, NoHandshake DEF Tokens
<1>6. QueueInv' /\ PipelineInv'
  <2>1. Begins(<<>>, queue[user])
    BY Parts DEF Begins
  <2> QED
    BY <2>1, <1>1 DEF Inv, QueueInv, PipelineInv
<1>7. AckInv'
  BY <1>1 DEF AckInv
<1>8. Committed' = Committed
  BY <1>1 DEF Committed
<1> QED
  BY <1>1, <1>3, <1>4, <1>5, <1>6, <1>7, <1>8, SameRows DEF Inv

\* The idle timer finds nothing to send.
LEMMA IdleTimeoutKeeps ==
  ASSUME Inv, IdleTimeout
  PROVE  Inv'
<1>1. pipeline = <<>> /\ acking = NoBatch
  BY Parts DEF IdleTimeout, Free, Needed
<1>2. /\ stream' = Stop(stream) /\ wire' = WireAfterStop
      /\ UNCHANGED <<queue, savedToken, user, nextId, callbacks, waits, enabled,
                     pipeline, acking, log, issued, answered, refused, left>>
  BY <1>1 DEF IdleTimeout
<1>3. /\ stream' \in Stream /\ CallsCount(stream') /\ ~IsStarted(stream')
      /\ stream'.state # "Open" /\ ~stream'.idle /\ ~stream'.handshake
      /\ wire' \in Wire /\ wire'.no = wire.no /\ wire'.requests = <<>>
      /\ wire'.responses = <<>> /\ wire'.verdict = "none"
      /\ <<>> \notin wire.stray => <<>> \notin wire'.stray
  BY <1>2, Parts, StopKeeps DEF Inv
<1>4. TypeOK'
  BY <1>2, <1>3 DEF Inv, TypeOK
<1>5. StreamInv' /\ StrayInv'
  BY <1>1, <1>2, <1>3 DEF Inv, StreamInv, StrayInv, Carried, Needed, Served
<1>6. TokenInv' /\ BackendInv'
  BY <1>3, NoHandshake DEF Tokens
<1>7. AckInv'
  BY <1>1, <1>2 DEF AckInv
<1>8. Committed' = Committed
  BY <1>2 DEF Committed
<1> QED
  BY <1>2, <1>4, <1>5, <1>6, <1>7, <1>8, SameRows, SameQueues DEF Inv

\* A stream that backed off asks for a token again.
LEMMA BackoffElapsedKeeps ==
  ASSUME Inv, BackoffElapsed
  PROVE  Inv'
<1> DEFINE s == [stream EXCEPT !.state = "Initial"]
<1>1. /\ stream.state = "Backoff" /\ acking = NoBatch /\ stream' = Start(s)
      /\ UNCHANGED <<queue, savedToken, user, nextId, callbacks, waits, enabled,
                     pipeline, acking, wire, log, issued, answered, refused, left>>
  BY DEF BackoffElapsed, Free
<1>2. /\ s \in Stream /\ s.state = "Initial" /\ s.closes = stream.closes
      /\ s.calls = stream.calls /\ s.handshake = stream.handshake
      /\ s.idle = stream.idle /\ s.token = stream.token
  BY Parts DEF Stream, State
<1> HIDE DEF s
<1>3. CallsCount(s)
  BY <1>1, <1>2, Parts DEF CallsCount
<1>4. /\ stream' \in Stream /\ CallsCount(stream') /\ IsStarted(stream')
      /\ stream'.state # "Open" /\ stream'.handshake = stream.handshake
      /\ stream'.idle = stream.idle
  BY <1>1, <1>2, <1>3, StartKeeps DEF IsStarted
<1>5. TypeOK'
  BY <1>1, <1>4 DEF Inv, TypeOK
<1>6. ~stream.handshake
  BY <1>1, Parts DEF Carried
<1>7. StreamInv' /\ StrayInv'
  BY <1>1, <1>4, Parts DEF Inv, StreamInv, StrayInv, Carried, Needed, Served, IsStarted
<1>8. TokenInv' /\ BackendInv'
  BY <1>1, <1>4, <1>6, NoHandshake DEF Inv, TokenInv
<1>9. AckInv'
  BY <1>1 DEF AckInv
<1>10. Committed' = Committed
  BY <1>1 DEF Committed
<1> QED
  BY <1>1, <1>5, <1>7, <1>8, <1>9, <1>10, SameRows, SameQueues DEF Inv

\* The next batch id is above every id of every user's queue.
LEMMA NextIdAbove ==
  ASSUME Inv
  PROVE  /\ LoadNextBatchIdFromDb \in Nat
         /\ \A u \in Users : \A i \in DOMAIN queue[u] : queue[u][i].id < LoadNextBatchIdFromDb
<1> DEFINE ids == {0} \cup UNION {Ids(queue[u]) : u \in Users}
<1>1. /\ queue \in [Users -> Seq(Batch)] /\ nextId \in Nat
      /\ \A u \in Users : \A i \in DOMAIN queue[u] : queue[u][i].id < nextId
  BY DEF Inv, TypeOK, QueueInv
<1>2. ASSUME NEW u \in Users
      PROVE  /\ Ids(queue[u]) \in SUBSET Nat /\ \A n \in Ids(queue[u]) : n < nextId
             /\ \A i \in DOMAIN queue[u] : queue[u][i].id \in Ids(queue[u])
  <2>1. queue[u] \in Seq(Batch) /\ \A i \in DOMAIN queue[u] : queue[u][i].id < nextId
    BY <1>1
  <2>2. \A i \in DOMAIN queue[u] : queue[u][i].id \in Nat
    BY <2>1, RowType
  <2> QED
    BY <2>1, <2>2 DEF Ids
<1>3. ids \in SUBSET Nat /\ 0 \in ids /\ \A n \in ids : n < nextId + 1
  BY <1>1, <1>2
<1>4. nextId + 1 \in Nat
  BY <1>1
<1>5. \E m \in ids : \A n \in ids : n <= m
  <2> HIDE DEF ids
  <2> QED
    BY <1>3, <1>4, Greatest
<1>6. \A u \in Users : \A i \in DOMAIN queue[u] : queue[u][i].id \in ids
  BY <1>2
<1> DEFINE m == CHOOSE n \in ids : \A id \in ids : id <= n
<1>7. LoadNextBatchIdFromDb = 1 + m
  BY DEF LoadNextBatchIdFromDb
<1> HIDE DEF ids
<1>8. m \in ids /\ \A n \in ids : n <= m
  BY <1>5
<1> HIDE DEF m
<1>9. m \in Nat /\ \A n \in ids : n \in Nat /\ n < 1 + m
  BY <1>3, <1>8
<1> QED
  BY <1>6, <1>7, <1>9

\* A queue that nobody has touched, with the ids after it.
LEMMA QueuesAbove ==
  ASSUME Inv, queue' = queue, nextId' = nextId \/ nextId' = LoadNextBatchIdFromDb
  PROVE  QueueInv' /\ nextId' \in Nat
<1>1. CASE nextId' = nextId
  BY <1>1 DEF Inv, TypeOK, QueueInv
<1>2. CASE nextId' = LoadNextBatchIdFromDb
  BY <1>2, NextIdAbove DEF Inv, QueueInv
<1> QED
  BY <1>1, <1>2

\* A user change empties the pipeline before another queue is read.
LEMMA HandleCredentialChangeKeeps ==
  ASSUME Inv, NEW u \in Users, HandleCredentialChange(u)
  PROVE  Inv'
<1> DEFINE s == [Stop(stream) EXCEPT !.token = savedToken[u]]
<1>1. /\ acking = NoBatch /\ user' = u /\ left.changes > 0
      /\ left' = [left EXCEPT !.changes = @ - 1]
      /\ UNCHANGED <<queue, savedToken, callbacks, enabled, acking, log, issued,
                     answered, refused>>
  BY DEF HandleCredentialChange, Free
<1>2. nextId' = nextId \/ nextId' = LoadNextBatchIdFromDb
  BY DEF HandleCredentialChange
<1>3. QueueInv' /\ nextId' \in Nat
  BY <1>1, <1>2, QueuesAbove
<1>4. waits' \in [Waiters -> Wait]
  <2>1. waits \in [Waiters -> Wait]
    BY DEF Inv, TypeOK
  <2>2. \A x \in Waiters : [waits[x] EXCEPT !.result = "cancelled"] \in Wait
    BY <2>1 DEF Wait
  <2> QED
    BY <2>1, <2>2 DEF HandleCredentialChange, FailOutstandingPendingWriteCallbacks
<1>5. left' \in [faults : Nat, changes : Nat, toggles : Nat]
  BY <1>1, LeftKeeps DEF Inv, TypeOK
<1>6. Committed' = Committed
  BY <1>1 DEF Committed
<1>7. AckInv'
  BY <1>1 DEF AckInv
<1>8. queue[u] \in Seq(Batch) /\ Sorted(queue[u]) /\ savedToken[u] \in Nat
  BY DEF Inv, TypeOK, QueueInv
<1>9. CASE enabled
  <2>1. FillWritePipeline(TRUE, s, <<>>, queue[u], WireAfterStop)
    BY <1>9 DEF HandleCredentialChange
  <2>2. /\ Stop(stream) \in Stream /\ CallsCount(Stop(stream)) /\ ~IsStarted(Stop(stream))
        /\ Stop(stream).state # "Open" /\ ~Stop(stream).idle /\ ~Stop(stream).handshake
        /\ WireAfterStop \in Wire /\ WireAfterStop.no = wire.no
        /\ WireAfterStop.requests = <<>> /\ WireAfterStop.responses = <<>>
        /\ WireAfterStop.verdict = "none"
        /\ <<>> \notin wire.stray => <<>> \notin WireAfterStop.stray
    BY Parts, StopKeeps DEF Inv
  <2>3. /\ s \in Stream /\ s.state = Stop(stream).state /\ s.closes = Stop(stream).closes
        /\ s.calls = Stop(stream).calls /\ s.handshake = Stop(stream).handshake
        /\ s.idle = Stop(stream).idle
    BY <1>8, <2>2 DEF Stream
  <2> HIDE DEF s
  <2>4. CallsCount(s) /\ Carried(s, <<>>, WireAfterStop) /\ Needed(TRUE, s, <<>>)
    BY <2>2, <2>3 DEF CallsCount, Carried, Needed, IsStarted
  <2>5. <<>> \in Seq(Batch) /\ Begins(<<>>, queue[u])
    BY <1>8 DEF Begins
  <2>6. Refilled(TRUE, s, queue[u], WireAfterStop)
    BY <1>8, <2>1, <2>2, <2>3, <2>4, <2>5, FillKeeps
  <2>7. ~stream'.handshake
    BY <2>2, <2>3, <2>6 DEF Refilled
  <2>8. Tokens(wire'.requests, wire'.no)
    BY <2>2, <2>3, <2>6 DEF Refilled, Tokens
  <2>9. TypeOK'
    BY <1>1, <1>3, <1>4, <1>5, <2>6 DEF Inv, TypeOK, Refilled
  <2>10. StreamInv' /\ StrayInv' /\ PipelineInv'
    BY <1>1, <1>9, <2>2, <2>6 DEF Inv, StreamInv, StrayInv, PipelineInv, Refilled
  <2> QED
    BY <1>1, <1>3, <1>6, <1>7, <2>7, <2>8, <2>9, <2>10, NoHandshake, SameRows DEF Inv
<1>10. CASE ~enabled
  <2>1. UNCHANGED <<pipeline, stream, wire>>
    BY <1>10 DEF HandleCredentialChange
  <2>2. pipeline = <<>> /\ ~stream.handshake
    BY <1>10, Parts DEF Needed, Carried, IsStarted
  <2>3. Begins(<<>>, queue[u])
    BY <1>8 DEF Begins
  <2>4. TypeOK'
    BY <1>1, <1>3, <1>4, <1>5, <2>1 DEF Inv, TypeOK
  <2>5. StreamInv' /\ StrayInv' /\ PipelineInv'
    BY <1>1, <2>1, <2>2, <2>3 DEF Inv, StreamInv, StrayInv, PipelineInv
  <2>6. TokenInv' /\ BackendInv'
    BY <2>1, <2>2, NoHandshake DEF Inv, TokenInv
  <2> QED
    BY <1>1, <1>3, <1>6, <1>7, <2>4, <2>5, <2>6, SameRows DEF Inv
<1> QED
  BY <1>9, <1>10

\* A launch starts from what LevelDB holds.
LEMMA KillAndLaunchKeeps ==
  ASSUME Inv, NEW u \in Users, KillAndLaunch(u)
  PROVE  Inv'
<1> DEFINE s == [state |-> "Initial", closes |-> 0, calls |-> {}, handshake |-> FALSE,
                 idle |-> FALSE, token |-> savedToken[u]]
<1>1. /\ user' = u /\ nextId' = LoadNextBatchIdFromDb
      /\ callbacks' = [v \in Users |-> {}] /\ enabled' = TRUE /\ acking' = NoBatch
      /\ FillWritePipeline(TRUE, s, <<>>, queue[u], Hung)
      /\ left.changes > 0 /\ left' = [left EXCEPT !.changes = @ - 1]
      /\ UNCHANGED <<queue, savedToken, log, issued, answered, refused>>
  BY DEF KillAndLaunch, Launch
<1>2. QueueInv' /\ nextId' \in Nat
  BY <1>1, QueuesAbove
<1>3. waits' \in [Waiters -> Wait]
  <2>1. waits \in [Waiters -> Wait]
    BY DEF Inv, TypeOK
  <2>2. \A x \in Waiters : [waits[x] EXCEPT !.result = "cancelled"] \in Wait
    BY <2>1 DEF Wait
  <2> QED
    BY <2>1, <2>2 DEF KillAndLaunch
<1>4. left' \in [faults : Nat, changes : Nat, toggles : Nat]
  BY <1>1, LeftKeeps DEF Inv, TypeOK
<1>5. queue[u] \in Seq(Batch) /\ Sorted(queue[u]) /\ savedToken[u] \in Nat
  BY DEF Inv, TypeOK, QueueInv
<1>6. /\ s \in Stream /\ s.state = "Initial" /\ s.closes = 0 /\ s.calls = {}
      /\ s.handshake = FALSE /\ s.idle = FALSE
  BY <1>5 DEF Stream, State
<1> HIDE DEF s
<1>7. /\ Hung \in Wire /\ Hung.no = wire.no /\ Hung.requests = <<>>
      /\ Hung.responses = <<>> /\ Hung.verdict = "none"
      /\ <<>> \notin wire.stray => <<>> \notin Hung.stray
  BY Parts, HungKeeps
<1>8. CallsCount(s) /\ Carried(s, <<>>, Hung) /\ Needed(TRUE, s, <<>>)
  BY <1>6, <1>7 DEF CallsCount, Carried, Needed, IsStarted
<1>9. <<>> \in Seq(Batch) /\ Begins(<<>>, queue[u])
  BY <1>5 DEF Begins
<1>10. Refilled(TRUE, s, queue[u], Hung)
  BY <1>1, <1>5, <1>6, <1>7, <1>8, <1>9, FillKeeps
<1>11. ~stream'.handshake
  BY <1>6, <1>10 DEF Refilled
<1>12. Tokens(wire'.requests, wire'.no)
  BY <1>6, <1>7, <1>10 DEF Refilled, Tokens
<1>13. TypeOK'
  <2>1. callbacks' \in [Users -> SUBSET Batch]
    BY <1>1
  <2> QED
    BY <2>1, <1>1, <1>2, <1>3, <1>4, <1>10 DEF Inv, TypeOK, Refilled
<1>14. StreamInv' /\ StrayInv' /\ PipelineInv'
  BY <1>1, <1>7, <1>10 DEF Inv, StreamInv, StrayInv, PipelineInv, Refilled
<1>15. AckInv' /\ CallbacksAreQueued'
  BY <1>1 DEF AckInv, CallbacksAreQueued
<1>16. Committed' = Committed /\ \A v \in Users : QueuedWrites(v)' = QueuedWrites(v)
  BY <1>1 DEF Committed, QueuedWrites
<1>17. OkMeansCommitted' /\ NothingLost'
  BY <1>1, <1>16 DEF Inv, OkMeansCommitted, NothingLost
<1> QED
  BY <1>2, <1>11, <1>12, <1>13, <1>14, <1>15, <1>17, NoHandshake DEF Inv

\* A call of GetToken opens a stream only when no close came between.
LEMMA TokenReceivedKeeps ==
  ASSUME Inv, NEW c \in stream.calls, TokenReceived(c)
  PROVE  Inv'
<1> DEFINE s == [stream EXCEPT !.calls = @ \ {c}]
<1>1. /\ acking = NoBatch
      /\ UNCHANGED <<queue, savedToken, user, nextId, callbacks, waits, enabled,
                     pipeline, acking, log, issued, answered, refused, left>>
  BY DEF TokenReceived, Free
<1>2. Committed' = Committed /\ AckInv'
  BY <1>1 DEF Committed, AckInv
<1>3. CASE c = stream.closes
  <2>1. /\ stream' = [s EXCEPT !.state = "Open", !.idle = FALSE]
        /\ wire' = [wire EXCEPT !.no = @ + 1, !.verdict = "none", !.responses = <<>>,
                                 !.requests = <<[write |-> Handshake, token |-> 0]>>]
    BY <1>3 DEF TokenReceived, CountsFor
  <2>2. stream.state = "Starting"
    BY <1>3, Parts DEF CallsCount
  <2>3. /\ stream' \in Stream /\ stream'.state = "Open" /\ stream'.closes = stream.closes
        /\ stream'.calls = stream.calls \ {c} /\ stream'.idle = FALSE
        /\ stream'.handshake = stream.handshake
    BY <2>1, Parts DEF Stream, State
  <2>4. <<[write |-> Handshake, token |-> 0]>> \in Seq(Request)
    <3>1. [write |-> Handshake, token |-> 0] \in Request
      BY DEF Request
    <3> QED
      BY <3>1
  <2>5. <<>> \in Seq(Response) /\ "none" \in Verdict /\ wire.no + 1 \in Nat
    BY WireParts, Parts DEF Verdict
  <2>6. /\ wire' \in Wire /\ wire'.responses = <<>> /\ wire'.stray = wire.stray
        /\ wire'.requests = <<[write |-> Handshake, token |-> 0]>>
    BY <2>1, <2>4, <2>5, Parts DEF Wire
  <2>7. ~stream'.handshake /\ ~stream.handshake
    BY <2>2, <2>3, Parts DEF Carried
  <2>8. CallsCount(stream')
    BY <2>3, <1>3, Parts DEF CallsCount
  <2>9. Carried(stream', pipeline', wire')
    BY <2>3, <2>6, <2>7 DEF Carried, Greeting
  <2>10. Needed(enabled', stream', pipeline') /\ Served(enabled', stream', pipeline')
    BY <1>1, <2>2, <2>3, <2>7, Parts DEF Needed, Served, IsStarted
  <2>11. StreamInv' /\ StrayInv'
    BY <2>6, <2>8, <2>9, <2>10 DEF Inv, StreamInv, StrayInv
  <2>12. Tokens(wire'.requests, wire'.no)
    <3>1. ASSUME NEW r, r = <<[write |-> Handshake, token |-> 0]>>, NEW n PROVE Tokens(r, n)
      BY <3>1 DEF Tokens
    <3> QED
      BY <3>1, <2>6
  <2>13. TypeOK'
    BY <1>1, <2>3, <2>6 DEF Inv, TypeOK
  <2> QED
    BY <1>1, <1>2, <2>7, <2>11, <2>12, <2>13, NoHandshake, SameRows, SameQueues DEF Inv
<1>4. CASE c # stream.closes
  <2>1. stream' = s /\ wire' = wire
    BY <1>4 DEF TokenReceived, CountsFor
  <2>2. /\ stream' \in Stream /\ stream'.state = stream.state
        /\ stream'.closes = stream.closes /\ stream'.calls = stream.calls \ {c}
        /\ stream'.idle = stream.idle /\ stream'.handshake = stream.handshake
        /\ stream'.token = stream.token
    BY <2>1, Parts DEF Stream
  <2>3. CallsCount(stream')
    BY <1>4, <2>2, Parts DEF CallsCount
  <2>4. StreamInv' /\ StrayInv'
    BY <1>1, <2>1, <2>2, <2>3, Parts
       DEF Inv, StreamInv, StrayInv, Carried, Needed, Served, IsStarted
  <2>5. TokenInv' /\ BackendInv'
    BY <1>1, <1>2, <2>1, <2>2 DEF Inv, TokenInv, BackendInv, Answered, Condemned
  <2>6. TypeOK'
    BY <1>1, <2>1, <2>2 DEF Inv, TypeOK
  <2> QED
    BY <1>1, <1>2, <2>4, <2>5, <2>6, SameRows, SameQueues DEF Inv
<1> QED
  BY <1>3, <1>4

\* The whole pipeline is sent once, after the handshake.
LEMMA WholeIsSent ==
  ASSUME NEW p \in Seq(Batch), NEW t \in Nat, NEW r \in Seq(Request),
         r = RequestsFor(p, t)
  PROVE  Correlated(p, <<>>, r) /\ Tokens(r, t)
<1>1. /\ Len(r) = Len(p) /\ Len(p) \in Nat
      /\ \A i \in 1..Len(p) : r[i].write = p[i].write /\ r[i].token = t
  BY RequestsForIs
<1>2. Correlated(p, <<>>, r)
  BY <1>1 DEF Correlated
<1>3. Tokens(r, t)
  BY <1>1 DEF Tokens
<1> QED
  BY <1>2, <1>3

\* The handshake's response is followed by the whole pipeline.
LEMMA HandshakeCompleteKeeps ==
  ASSUME Inv, HandshakeComplete
  PROVE  Inv'
<1>1. /\ acking = NoBatch /\ wire.responses # <<>> /\ ~stream.handshake
      /\ stream' = [stream EXCEPT !.token = wire.no, !.handshake = TRUE,
                                  !.idle = @ /\ pipeline = <<>>]
      /\ savedToken' = [savedToken EXCEPT ![user] = wire.no]
      /\ wire' = [[wire EXCEPT !.responses = Tail(@)]
                    EXCEPT !.requests = @ \o RequestsFor(pipeline, wire.no)]
      /\ UNCHANGED <<queue, user, nextId, callbacks, waits, enabled, pipeline, acking,
                     log, issued, answered, refused, left>>
  BY DEF HandshakeComplete, Free, SetLastStreamToken, Sent
<1>2. /\ wire.no \in Nat /\ wire.requests \in Seq(Request)
      /\ wire.responses \in Seq(Response) /\ wire.verdict \in Verdict
      /\ wire.stray \in SUBSET Seq(Response)
  BY WireParts, Parts
<1>3. stream.state = "Open"
  BY <1>1, Parts DEF Carried
<1>4. wire.responses = <<Handshake>> /\ wire.requests = <<>> /\ wire.verdict = "none"
  BY <1>1, <1>3, Parts DEF Carried, Greeting
<1>5. RequestsFor(pipeline, wire.no) \in Seq(Request)
  BY <1>2, Parts, RequestsForIs
<1>6. Tail(wire.responses) = <<>> /\ <<>> \in Seq(Response)
  BY <1>4
<1>7. wire.requests \o RequestsFor(pipeline, wire.no) = RequestsFor(pipeline, wire.no)
  BY <1>4, <1>5
<1>8. /\ wire' \in Wire /\ wire'.no = wire.no /\ wire'.responses = <<>>
      /\ wire'.requests = RequestsFor(pipeline, wire.no)
      /\ wire'.verdict = "none" /\ wire'.stray = wire.stray
  BY <1>1, <1>2, <1>4, <1>5, <1>6, <1>7, Parts DEF Wire
<1>9. /\ stream' \in Stream /\ stream'.state = "Open" /\ stream'.closes = stream.closes
      /\ stream'.calls = stream.calls /\ stream'.handshake = TRUE
      /\ stream'.token = wire.no /\ (stream'.idle => pipeline = <<>>)
  BY <1>1, <1>2, <1>3, Parts DEF Stream
<1>10. Correlated(pipeline, wire'.responses, wire'.requests) /\ Tokens(wire'.requests, wire.no)
  BY <1>2, <1>5, <1>8, Parts, WholeIsSent
<1>11. CallsCount(stream')
  BY <1>3, <1>9, Parts DEF CallsCount
<1>12. StreamInv' /\ StrayInv'
  <2>1. Carried(stream', pipeline', wire')
    BY <1>1, <1>9, <1>10 DEF Carried
  <2>2. Needed(enabled', stream', pipeline') /\ Served(enabled', stream', pipeline')
    BY <1>1, <1>3, <1>9, Parts DEF Needed, Served, IsStarted
  <2> QED
    BY <2>1, <2>2, <1>8, <1>11 DEF Inv, StreamInv, StrayInv
<1>13. TokenInv'
  BY <1>1, <1>8, <1>9, <1>10, Parts DEF TokenInv
<1>14. BackendInv'
  BY <1>8 DEF BackendInv, Answered, Condemned
<1>15. Committed' = Committed /\ AckInv'
  BY <1>1 DEF Committed, AckInv
<1>16. TypeOK'
  <2>1. savedToken' \in [Users -> Nat]
    BY <1>1, <1>2 DEF Inv, TypeOK
  <2> QED
    BY <2>1, <1>1, <1>8, <1>9 DEF Inv, TypeOK
<1> QED
  BY <1>1, <1>12, <1>13, <1>14, <1>15, <1>16, SameRows, SameQueues DEF Inv

\* The batch at the head of the pipeline is the first row of the queue, and a
\* callback with its id is its own.
LEMMA FirstRow ==
  ASSUME Inv, acking = NoBatch, pipeline # <<>>
  PROVE  /\ queue[user] # <<>> /\ Head(pipeline) = queue[user][1]
         /\ Head(pipeline) = pipeline[1] /\ Head(pipeline) \in Batch
         /\ Tail(pipeline) \in Seq(Batch) /\ Begins(Tail(pipeline), Tail(queue[user]))
         /\ \A c \in callbacks[user] : c.id = Head(pipeline).id => c = Head(pipeline)
<1>1. Begins(pipeline, queue[user])
  BY DEF Inv, PipelineInv
<1>2. /\ queue[user] # <<>> /\ Head(pipeline) = queue[user][1]
      /\ Head(pipeline) = pipeline[1] /\ Head(pipeline) \in Batch
      /\ Tail(pipeline) \in Seq(Batch) /\ Begins(Tail(pipeline), Tail(queue[user]))
  BY <1>1, Parts, TailBegins
<1>3. ASSUME NEW c \in callbacks[user], c.id = Head(pipeline).id
      PROVE  c = Head(pipeline)
  <2>1. PICK i \in DOMAIN queue[user] : queue[user][i] = c
    BY Parts DEF Inv, CallbacksAreQueued
  <2>2. queue[user][i].id = queue[user][1].id
    BY <1>2, <1>3, <2>1
  <2>3. i = 1
    BY <1>2, <2>2, Parts, TailKeeps
  <2> QED
    BY <1>2, <2>1, <2>3
<1> QED
  BY <1>2, <1>3

\* Who is notified: the callback of the batch, which is taken out of the map.
LEMMA NotifyKeeps ==
  ASSUME Inv, NEW id \in Nat, NEW result \in Result, NotifyUser(id, result)
  PROVE  /\ answered' \in [Writes -> Result] /\ callbacks' \in [Users -> SUBSET Batch]
         /\ \A u \in Users : callbacks'[u] \subseteq callbacks[u]
         /\ \A c \in callbacks'[user] : c.id # id
         /\ \A w \in Writes :
              \/ answered'[w] = answered[w]
              \/ answered'[w] = result /\ \E c \in callbacks[user] : c.id = id /\ c.write = w
<1> DEFINE found == {c \in callbacks[user] : c.id = id}
<1>1. /\ answered' = [w \in Writes |-> IF \E c \in found : c.write = w
                                       THEN result ELSE answered[w]]
      /\ callbacks' = [callbacks EXCEPT ![user] = @ \ found]
  BY DEF NotifyUser
<1>2. /\ answered \in [Writes -> Result] /\ callbacks \in [Users -> SUBSET Batch]
      /\ user \in Users
  BY DEF Inv, TypeOK
<1>3. answered' \in [Writes -> Result] /\ callbacks' \in [Users -> SUBSET Batch]
  BY <1>1, <1>2
<1>4. \A u \in Users : callbacks'[u] = IF u = user THEN callbacks[u] \ found ELSE callbacks[u]
  BY <1>1, <1>2
<1>5. \A w \in Writes :
        \/ answered'[w] = answered[w]
        \/ answered'[w] = result /\ \E c \in callbacks[user] : c.id = id /\ c.write = w
  BY <1>1
<1> QED
  BY <1>2, <1>3, <1>4, <1>5

\* Telling waiters keeps the types.
LEMMA TriggerKeeps ==
  ASSUME Inv, NEW id, TriggerPendingWriteCallbacks(id)
  PROVE  waits' \in [Waiters -> Wait]
<1>1. waits \in [Waiters -> Wait]
  BY DEF Inv, TypeOK
<1>2. \A x \in Waiters : [waits[x] EXCEPT !.result = "ok"] \in Wait
  BY <1>1 DEF Wait
<1> QED
  BY <1>1, <1>2 DEF TriggerPendingWriteCallbacks

\* The first response is about the first write.
LEMMA ResponseTaken ==
  ASSUME NEW p \in Seq(Batch), NEW a \in Seq(Response), NEW r \in Seq(Request),
         Correlated(p, a, r), a # <<>>
  PROVE  /\ p # <<>> /\ a[1] = p[1].write
         /\ Tail(a) \in Seq(Response) /\ Correlated(Tail(p), Tail(a), r)
         /\ \A S : (\A i \in DOMAIN a : a[i] \in S) =>
              a[1] \in S /\ \A i \in DOMAIN Tail(a) : Tail(a)[i] \in S
<1>1. /\ Len(p) \in Nat /\ Len(a) \in Nat /\ Len(a) >= 1 /\ Len(r) \in Nat
      /\ Len(p) = Len(a) + Len(r)
      /\ \A i \in 1..Len(a) : a[i] = p[i].write
      /\ \A i \in 1..Len(r) : r[i].write = p[Len(a) + i].write
  BY DEF Correlated
<1>2. p # <<>> /\ a[1] = p[1].write
  BY <1>1
<1>3. /\ Tail(a) \in Seq(Response) /\ Len(Tail(a)) = Len(a) - 1
      /\ \A i \in 1..Len(Tail(a)) : Tail(a)[i] = a[i+1]
  BY <1>1
<1>4. /\ Tail(p) \in Seq(Batch) /\ Len(Tail(p)) = Len(p) - 1
      /\ \A i \in 1..Len(Tail(p)) : Tail(p)[i] = p[i+1]
  BY <1>1, <1>2
<1>5. ASSUME NEW i \in 1..Len(Tail(a)) PROVE Tail(a)[i] = Tail(p)[i].write
  <2>1. i \in 1..Len(Tail(p)) /\ i+1 \in 1..Len(a)
    BY <1>1, <1>3, <1>4
  <2> QED
    BY <2>1, <1>1, <1>3, <1>4
<1>6. ASSUME NEW i \in 1..Len(r) PROVE r[i].write = Tail(p)[Len(Tail(a)) + i].write
  <2>1. Len(Tail(a)) + i \in 1..Len(Tail(p)) /\ (Len(Tail(a)) + i) + 1 = Len(a) + i
    BY <1>1, <1>3, <1>4
  <2> QED
    BY <2>1, <1>1, <1>4
<1>7. Correlated(Tail(p), Tail(a), r)
  <2>1. Len(Tail(p)) = Len(Tail(a)) + Len(r)
    BY <1>1, <1>3, <1>4
  <2> QED
    BY <2>1, <1>5, <1>6 DEF Correlated
<1>8. ASSUME NEW S, \A i \in DOMAIN a : a[i] \in S
      PROVE  a[1] \in S /\ \A i \in DOMAIN Tail(a) : Tail(a)[i] \in S
  <2>1. \A i \in 1..Len(Tail(a)) : i+1 \in 1..Len(a)
    BY <1>1, <1>3
  <2> QED
    BY <2>1, <1>1, <1>3, <1>8
<1> QED
  BY <1>2, <1>3, <1>7, <1>8

\* The first response is about the first batch of the pipeline, so its success is true.
LEMMA MutationResultKeeps ==
  ASSUME Inv, MutationResult
  PROVE  Inv'
<1> DEFINE batch == Head(pipeline)
<1>1. /\ acking = NoBatch /\ wire.responses # <<>> /\ stream.handshake
      /\ acking' = batch
      /\ NotifyUser(batch.id, "ok") /\ TriggerPendingWriteCallbacks(batch.id)
      /\ pipeline' = Tail(pipeline)
      /\ stream' = [stream EXCEPT !.token = wire.no]
      /\ wire' = [wire EXCEPT !.responses = Tail(@)]
      /\ UNCHANGED <<queue, savedToken, user, nextId, enabled, log, issued, refused, left>>
  BY DEF MutationResult, Free
<1>2. /\ wire.no \in Nat /\ wire.requests \in Seq(Request)
      /\ wire.responses \in Seq(Response) /\ wire.verdict \in Verdict
      /\ wire.stray \in SUBSET Seq(Response)
  BY WireParts, Parts
<1>3. stream.state = "Open" /\ Correlated(pipeline, wire.responses, wire.requests)
  BY <1>1, Parts DEF Carried
<1>4. PICK a \in Seq(Response), r \in Seq(Request) : a = wire.responses /\ r = wire.requests
  BY <1>2
<1>5. /\ pipeline # <<>> /\ a[1] = pipeline[1].write
      /\ Tail(a) \in Seq(Response) /\ Correlated(Tail(pipeline), Tail(a), r)
      /\ \A S : (\A i \in DOMAIN a : a[i] \in S) =>
           a[1] \in S /\ \A i \in DOMAIN Tail(a) : Tail(a)[i] \in S
  BY <1>1, <1>3, <1>4, Parts, ResponseTaken
<1>6. /\ queue[user] # <<>> /\ batch = queue[user][1]
      /\ batch = pipeline[1] /\ batch \in Batch
      /\ Tail(pipeline) \in Seq(Batch) /\ Begins(Tail(pipeline), Tail(queue[user]))
      /\ \A c \in callbacks[user] : c.id = batch.id => c = batch
  BY <1>1, <1>5, FirstRow
<1> HIDE DEF batch
<1>7. batch.id \in Nat /\ batch.write \in Writes /\ batch # NoBatch
  BY <1>6, BatchAssumption DEF Batch
<1>8. /\ answered' \in [Writes -> Result] /\ callbacks' \in [Users -> SUBSET Batch]
      /\ \A u \in Users : callbacks'[u] \subseteq callbacks[u]
      /\ \A c \in callbacks'[user] : c.id # batch.id
      /\ \A w \in Writes :
           \/ answered'[w] = answered[w]
           \/ answered'[w] = "ok" /\ \E c \in callbacks[user] : c.id = batch.id /\ c.write = w
  <2>1. "ok" \in Result
    BY DEF Result
  <2> QED
    BY <2>1, <1>1, <1>7, NotifyKeeps
<1>9. Answered(a)
  BY <1>1, <1>4 DEF Inv, BackendInv
<1>10. a[1] \in Committed /\ Answered(Tail(a))
  BY <1>5, <1>9 DEF Answered
<1>11. batch.write \in Committed
  BY <1>5, <1>6, <1>10
<1>12. Committed' = Committed
  BY <1>1 DEF Committed
<1>13. /\ stream' \in Stream /\ stream'.state = "Open" /\ stream'.closes = stream.closes
       /\ stream'.calls = stream.calls /\ stream'.handshake = TRUE
       /\ stream'.idle = stream.idle /\ stream'.token = wire.no
  BY <1>1, <1>2, <1>3, Parts DEF Stream
<1>14. /\ wire' \in Wire /\ wire'.no = wire.no /\ wire'.responses = Tail(a)
       /\ wire'.requests = r /\ wire'.verdict = wire.verdict /\ wire'.stray = wire.stray
  BY <1>1, <1>2, <1>4, <1>5, Parts DEF Wire
<1>15. TypeOK'
  <2>1. waits' \in [Waiters -> Wait]
    BY <1>1, TriggerKeeps
  <2> QED
    BY <2>1, <1>1, <1>6, <1>8, <1>13, <1>14 DEF Inv, TypeOK
<1>16. StreamInv' /\ StrayInv'
  <2>1. CallsCount(stream')
    BY <1>3, <1>13, Parts DEF CallsCount
  <2>2. Carried(stream', pipeline', wire')
    BY <1>1, <1>5, <1>13, <1>14 DEF Carried
  <2>3. Needed(enabled', stream', pipeline') /\ Served(enabled', stream', pipeline')
    <3>1. ~stream.idle
      BY <1>5, Parts DEF Needed
    <3> QED
      BY <3>1, <1>1, <1>3, <1>13, Parts DEF Needed, Served, IsStarted
  <2> QED
    BY <2>1, <2>2, <2>3, <1>14 DEF Inv, StreamInv, StrayInv
<1>17. TokenInv'
  BY <1>1, <1>4, <1>13, <1>14 DEF Inv, TokenInv
<1>18. QueueInv'
  BY <1>1 DEF Inv, QueueInv
<1>19. PipelineInv'
  BY <1>1, <1>6, <1>7 DEF PipelineInv
<1>20. CallbacksAreQueued'
  <2> SUFFICES ASSUME NEW u \in Users, NEW c \in callbacks'[u]
               PROVE  \E i \in DOMAIN queue'[u] : queue'[u][i] = c
    BY DEF CallbacksAreQueued
  <2>1. c \in callbacks[u]
    BY <1>8
  <2>2. \E i \in DOMAIN queue[u] : queue[u][i] = c
    BY <2>1 DEF Inv, CallbacksAreQueued
  <2> QED
    BY <2>2, <1>1
<1>21. AckInv'
  <2>1. enabled
    BY <1>3, Parts DEF Needed, IsStarted
  <2> QED
    BY <2>1, <1>1, <1>8, <1>11, <1>12, <1>13 DEF AckInv
<1>22. BackendInv'
  <2>1. Condemned(wire.verdict, r)
    BY <1>1, <1>4 DEF Inv, BackendInv
  <2>2. Condemned(wire.verdict, wire.requests)'
    BY <2>1, <1>1, <1>14 DEF Condemned
  <2>3. Answered(wire.responses)'
    BY <1>10, <1>12, <1>14 DEF Answered
  <2> QED
    BY <2>2, <2>3 DEF BackendInv
<1>23. OkMeansCommitted'
  <2> SUFFICES ASSUME NEW w \in Writes, answered'[w] = "ok" PROVE w \in Committed
    BY <1>12 DEF OkMeansCommitted
  <2>1. CASE answered'[w] = answered[w]
    BY <2>1 DEF Inv, OkMeansCommitted
  <2>2. CASE \E c \in callbacks[user] : c.id = batch.id /\ c.write = w
    BY <2>2, <1>6, <1>11
  <2> QED
    BY <2>1, <2>2, <1>8
<1>24. NothingLost'
  <2>1. \A u \in Users : QueuedWrites(u)' = QueuedWrites(u)
    BY <1>1 DEF QueuedWrites
  <2> QED
    BY <2>1, <1>1, <1>12 DEF Inv, NothingLost
<1> QED
  BY <1>15, <1>16, <1>17, <1>18, <1>19, <1>20, <1>21, <1>22, <1>23, <1>24 DEF Inv

\* What is removed is the first row, and no callback is left for it.
LEMMA FirstRowRemoved ==
  ASSUME Inv, NEW b \in Batch, queue[user] # <<>>, b = queue[user][1],
         queue' = [queue EXCEPT ![user] = RemoveMutationBatch(@, b.id)],
         user' = user, nextId' = nextId, issued' = issued,
         \A u \in Users : callbacks'[u] \subseteq callbacks[u],
         \A c \in callbacks'[user] : c.id # b.id,
         b.write \in Committed' \cup refused',
         Committed \subseteq Committed', refused \subseteq refused'
  PROVE  /\ queue' \in [Users -> Seq(Batch)]
         /\ queue'[user] = Tail(queue[user]) /\ RemoveMutationBatch(queue[user], b.id) = Tail(queue[user])
         /\ Tail(queue[user]) \in Seq(Batch) /\ Sorted(Tail(queue[user]))
         /\ QueueInv' /\ CallbacksAreQueued' /\ NothingLost'
<1> DEFINE q == queue[user]
           t == Tail(q)
<1>1. q \in Seq(Batch) /\ Sorted(q)
  BY Parts
<1>2. RemoveMutationBatch(q, b.id) = t
  BY <1>1, RemoveFirst
<1>3. /\ t \in Seq(Batch) /\ Sorted(t)
      /\ \A i \in DOMAIN t : i+1 \in DOMAIN q /\ t[i] = q[i+1]
      /\ \A i \in DOMAIN q : q[i] # q[1] => \E j \in DOMAIN t : t[j] = q[i]
  BY <1>1, TailKeeps
<1> HIDE DEF t
<1>4. queue' = [queue EXCEPT ![user] = t]
  BY <1>2
<1>5. queue'[user] = t /\ \A u \in Users : u # user => queue'[u] = queue[u]
  BY <1>4, Parts
<1>6. queue' \in [Users -> Seq(Batch)]
  BY <1>3, <1>4, Parts
<1>7. QueueInv'
  <2> SUFFICES ASSUME NEW u \in Users
               PROVE  /\ Sorted(queue'[u])
                      /\ \A i \in DOMAIN queue'[u] : queue'[u][i].id < nextId
    BY DEF QueueInv
  <2>1. \A i \in DOMAIN queue[u] : queue[u][i].id < nextId
    BY DEF Inv, QueueInv
  <2>2. CASE u = user
    BY <2>1, <2>2, <1>3, <1>5
  <2>3. CASE u # user
    BY <2>1, <2>3, <1>5 DEF Inv, QueueInv
  <2> QED
    BY <2>2, <2>3
<1>8. ASSUME NEW u \in Users, NEW i \in DOMAIN queue[u]
      PROVE  \/ \E j \in DOMAIN queue'[u] : queue'[u][j] = queue[u][i]
             \/ u = user /\ queue[u][i] = b
  BY <1>3, <1>5
<1>9. CallbacksAreQueued'
  <2> SUFFICES ASSUME NEW u \in Users, NEW c \in callbacks'[u]
               PROVE  \E j \in DOMAIN queue'[u] : queue'[u][j] = c
    BY DEF CallbacksAreQueued
  <2>1. PICK i \in DOMAIN queue[u] : queue[u][i] = c
    BY DEF Inv, CallbacksAreQueued
  <2>2. ~(u = user /\ c = b)
    OBVIOUS
  <2> QED
    BY <2>1, <2>2, <1>8
<1>10. NothingLost'
  <2> SUFFICES ASSUME NEW u \in Users, NEW i \in DOMAIN issued[u]
               PROVE  issued[u][i] \in QueuedWrites(u)' \cup Committed' \cup refused'
    BY DEF NothingLost
  <2>1. CASE issued[u][i] \in QueuedWrites(u)
    <3>1. PICK k \in DOMAIN queue[u] : queue[u][k].write = issued[u][i]
      BY <2>1 DEF QueuedWrites
    <3>2. CASE \E j \in DOMAIN queue'[u] : queue'[u][j] = queue[u][k]
      BY <3>1, <3>2 DEF QueuedWrites
    <3>3. CASE queue[u][k] = b
      BY <3>1, <3>3
    <3> QED
      BY <3>2, <3>3, <1>8
  <2>2. CASE issued[u][i] \notin QueuedWrites(u)
    BY <2>2 DEF Inv, NothingLost
  <2> QED
    BY <2>1, <2>2
<1> QED
  BY <1>2, <1>3, <1>5, <1>6, <1>7, <1>9, <1>10 DEF t

\* The batch that leaves the queue has no completion block any more.
LEMMA AcknowledgeBatchKeeps ==
  ASSUME Inv, AcknowledgeBatch
  PROVE  Inv'
<1> DEFINE q == RemoveMutationBatch(queue[user], acking.id)
<1>1. /\ acking # NoBatch
      /\ queue' = [queue EXCEPT ![user] = q]
      /\ FillWritePipeline(enabled, stream, pipeline, q, wire)
      /\ savedToken' = [savedToken EXCEPT ![user] = stream.token]
      /\ acking' = NoBatch
      /\ UNCHANGED <<user, nextId, callbacks, waits, enabled, log, issued, answered,
                     refused, left>>
  BY DEF AcknowledgeBatch
<1>2. /\ queue[user] # <<>> /\ queue[user][1] = acking
      /\ Begins(pipeline, Tail(queue[user]))
  BY <1>1 DEF Inv, PipelineInv
<1>3. /\ stream.handshake /\ enabled /\ acking.write \in Committed
      /\ \A c \in callbacks[user] : c.id # acking.id
  BY <1>1 DEF Inv, AckInv
<1>4. acking \in Batch
  BY <1>1 DEF Inv, TypeOK
<1>5. Committed' = Committed
  BY <1>1 DEF Committed
<1>6. /\ queue' \in [Users -> Seq(Batch)]
      /\ queue'[user] = Tail(queue[user]) /\ q = Tail(queue[user])
      /\ Tail(queue[user]) \in Seq(Batch) /\ Sorted(Tail(queue[user]))
      /\ QueueInv' /\ CallbacksAreQueued' /\ NothingLost'
  <2>1. /\ queue' = [queue EXCEPT ![user] = RemoveMutationBatch(@, acking.id)]
        /\ user' = user /\ nextId' = nextId /\ issued' = issued
        /\ \A u \in Users : callbacks'[u] \subseteq callbacks[u]
        /\ \A c \in callbacks'[user] : c.id # acking.id
        /\ acking.write \in Committed' \cup refused'
        /\ Committed \subseteq Committed' /\ refused \subseteq refused'
    BY <1>1, <1>3, <1>5
  <2> QED
    BY <2>1, <1>2, <1>4, FirstRowRemoved
<1> HIDE DEF q
<1>7. Refilled(enabled, stream, q, wire)
  BY <1>1, <1>2, <1>6, Parts, FillKeeps
<1>8. stream.token = wire.no /\ Tokens(wire.requests, wire.no) /\ stream.token \in Nat
  BY <1>3, Parts, StreamParts DEF Inv, TokenInv
<1>9. TypeOK'
  <2>1. savedToken' \in [Users -> Nat] /\ acking' \in Batch \cup {NoBatch}
    BY <1>1, <1>8, Parts
  <2> QED
    BY <2>1, <1>1, <1>6, <1>7 DEF Inv, TypeOK, Refilled
<1>10. StreamInv' /\ StrayInv'
  BY <1>1, <1>7 DEF Inv, StreamInv, StrayInv, Refilled
<1>11. TokenInv'
  BY <1>1, <1>7, <1>8, Parts DEF TokenInv, Refilled
<1>12. PipelineInv'
  BY <1>1, <1>6, <1>7 DEF PipelineInv, Refilled
<1>13. AckInv'
  BY <1>1 DEF AckInv
<1>14. BackendInv'
  <2>1. Answered(wire.responses) /\ Condemned(wire.verdict, wire.requests)
    BY <1>3 DEF Inv, BackendInv
  <2>2. Condemned(wire.verdict, wire.requests)'
    BY <2>1, <1>1, <1>7 DEF Condemned, Refilled
  <2>3. Answered(wire.responses)'
    BY <2>1, <1>5, <1>7 DEF Answered, Refilled
  <2> QED
    BY <2>2, <2>3 DEF BackendInv
<1>15. OkMeansCommitted'
  BY <1>1, <1>5 DEF Inv, OkMeansCommitted
<1> QED
  BY <1>6, <1>9, <1>10, <1>11, <1>12, <1>13, <1>14, <1>15 DEF Inv

\* The first write of the pipeline is answered, or it is the one that was refused.
LEMMA FrontIsSettled ==
  ASSUME Inv, stream.handshake, pipeline # <<>>, wire.verdict = "permanent"
  PROVE  pipeline[1].write \in Committed \cup refused
<1>1. /\ Correlated(pipeline, wire.responses, wire.requests)
      /\ Answered(wire.responses) /\ Condemned(wire.verdict, wire.requests)
  BY Parts DEF Inv, BackendInv, Carried
<1>2. PICK a \in Seq(Response), r \in Seq(Request) : a = wire.responses /\ r = wire.requests
  BY WireParts, Parts
<1>3. Correlated(pipeline, a, r) /\ r # <<>> /\ r[1].write \in refused
  BY <1>1, <1>2 DEF Condemned
<1>4. CASE a # <<>>
  <2>1. a[1] = pipeline[1].write
    BY <1>3, <1>4, Parts, ResponseTaken
  <2>2. 1 \in DOMAIN a
    BY <1>4
  <2> QED
    BY <1>1, <1>2, <2>1, <2>2 DEF Answered
<1>5. CASE a = <<>>
  <2>1. Len(a) = 0 /\ 1 \in 1..Len(r)
    BY <1>3, <1>5
  <2>2. r[1].write = pipeline[Len(a) + 1].write
    BY <1>3, <2>1 DEF Correlated
  <2> QED
    BY <1>3, <2>1, <2>2
<1> QED
  BY <1>4, <1>5

\* A stream that ends gives up at most the first batch, with its block.
LEMMA CloseWithErrorKeeps ==
  ASSUME Inv, acking = NoBatch, NEW s \in Stream, \A n \in s.calls : n <= s.closes,
         s.handshake = stream.handshake, IsStarted(stream),
         NEW status, CloseWithError(status, s),
         stream.handshake /\ status = "permanent" => wire.verdict = "permanent",
         UNCHANGED <<user, nextId, enabled, acking, log, issued, refused>>,
         left' \in [faults : Nat, changes : Nat, toggles : Nat]
  PROVE  Inv'
<1> DEFINE batch  == Head(pipeline)
           q      == RemoveMutationBatch(queue[user], batch.id)
           closed == Close(s, "Error")
           reset  == ~s.handshake /\ IsPermanentError(status) /\ pipeline # <<>>
           ended  == IF reset THEN [closed EXCEPT !.token = 0] ELSE closed
<1>1. /\ closed \in Stream /\ CallsCount(closed) /\ closed.state = "Error"
      /\ ~closed.idle /\ ~closed.handshake
  BY CloseKeeps
<1>2. /\ Hung \in Wire /\ Hung.no = wire.no /\ Hung.requests = <<>>
      /\ Hung.responses = <<>> /\ Hung.verdict = "none" /\ <<>> \notin Hung.stray
  BY Parts, HungKeeps DEF Inv, StrayInv
<1>3. Committed' = Committed
  BY DEF Committed
<1>4. AckInv'
  BY DEF AckInv
<1>5. enabled
  BY Parts DEF Needed
<1>6. CASE s.handshake /\ IsPermanentWriteError(status) /\ pipeline # <<>>
  <2>1. /\ queue' = [queue EXCEPT ![user] = q]
        /\ NotifyUser(batch.id, "error") /\ TriggerPendingWriteCallbacks(batch.id)
        /\ FillWritePipeline(enabled, InhibitBackoff(closed), Tail(pipeline), q, Hung)
        /\ savedToken' = savedToken
    BY <1>6 DEF CloseWithError
  <2>2. /\ queue[user] # <<>> /\ batch = queue[user][1]
        /\ batch = pipeline[1] /\ batch \in Batch
        /\ Tail(pipeline) \in Seq(Batch) /\ Begins(Tail(pipeline), Tail(queue[user]))
        /\ \A c \in callbacks[user] : c.id = batch.id => c = batch
    BY <1>6, FirstRow
  <2>3. batch.write \in Committed \cup refused
    BY <1>6, <2>2, FrontIsSettled DEF IsPermanentWriteError
  <2> HIDE DEF batch
  <2>4. batch.id \in Nat /\ "error" \in Result
    BY <2>2 DEF Batch, Result
  <2>5. /\ answered' \in [Writes -> Result] /\ callbacks' \in [Users -> SUBSET Batch]
        /\ \A u \in Users : callbacks'[u] \subseteq callbacks[u]
        /\ \A c \in callbacks'[user] : c.id # batch.id
        /\ \A w \in Writes : answered'[w] = answered[w] \/ answered'[w] = "error"
    BY <2>1, <2>4, NotifyKeeps
  <2>6. /\ queue' \in [Users -> Seq(Batch)]
        /\ queue'[user] = Tail(queue[user]) /\ q = Tail(queue[user])
        /\ Tail(queue[user]) \in Seq(Batch) /\ Sorted(Tail(queue[user]))
        /\ QueueInv' /\ CallbacksAreQueued' /\ NothingLost'
    <3>1. /\ queue' = [queue EXCEPT ![user] = RemoveMutationBatch(@, batch.id)]
          /\ user' = user /\ nextId' = nextId /\ issued' = issued
          /\ batch.write \in Committed' \cup refused'
          /\ Committed \subseteq Committed' /\ refused \subseteq refused'
      BY <1>3, <2>1, <2>3
    <3> QED
      BY <3>1, <2>2, <2>5, FirstRowRemoved
  <2> HIDE DEF q
  <2> DEFINE i == InhibitBackoff(closed)
  <2>7. /\ i \in Stream /\ i.state = "Initial" /\ i.calls = closed.calls
        /\ i.closes = closed.closes /\ i.idle = closed.idle
        /\ i.handshake = closed.handshake
    <3> HIDE DEF closed
    <3> QED
      BY <1>1 DEF InhibitBackoff, Stream, State
  <2>8. FillWritePipeline(enabled, i, Tail(pipeline), q, Hung)
    BY <2>1
  <2> HIDE DEF i, closed
  <2>9. CallsCount(i) /\ Carried(i, Tail(pipeline), Hung) /\ Needed(enabled, i, Tail(pipeline))
    BY <1>1, <1>2, <1>5, <2>7 DEF CallsCount, Carried, Needed, IsStarted
  <2>10. Refilled(enabled, i, q, Hung)
    BY <1>2, <2>2, <2>6, <2>7, <2>8, <2>9, Parts, FillKeeps
  <2>11. ~stream'.handshake
    BY <1>1, <2>7, <2>10 DEF Refilled
  <2>12. Tokens(wire'.requests, wire'.no)
    BY <1>1, <1>2, <2>7, <2>10 DEF Refilled, Tokens
  <2>13. TypeOK'
    <3>1. waits' \in [Waiters -> Wait]
      BY <2>1, TriggerKeeps
    <3> QED
      BY <3>1, <2>1, <2>5, <2>6, <2>10 DEF Inv, TypeOK, Refilled
  <2>14. StreamInv' /\ StrayInv' /\ PipelineInv'
    BY <1>2, <2>6, <2>10 DEF StreamInv, StrayInv, PipelineInv, Refilled
  <2>15. OkMeansCommitted'
    <3> SUFFICES ASSUME NEW w \in Writes, answered'[w] = "ok" PROVE w \in Committed
      BY <1>3 DEF OkMeansCommitted
    <3>1. answered[w] = "ok"
      BY <2>5
    <3> QED
      BY <3>1 DEF Inv, OkMeansCommitted
  <2> QED
    BY <1>4, <2>6, <2>11, <2>12, <2>13, <2>14, <2>15, NoHandshake DEF Inv
<1>7. CASE ~(s.handshake /\ IsPermanentWriteError(status) /\ pipeline # <<>>)
  <2>1. /\ savedToken' = IF reset THEN [savedToken EXCEPT ![user] = 0] ELSE savedToken
        /\ stream' = IF enabled /\ pipeline # <<>> THEN Start(ended) ELSE ended
        /\ wire' = Hung
        /\ UNCHANGED <<queue, callbacks, waits, pipeline, answered>>
    BY <1>7 DEF CloseWithError
  <2>2. savedToken' \in [Users -> Nat]
    <3>1. savedToken \in [Users -> Nat] /\ [savedToken EXCEPT ![user] = 0] \in [Users -> Nat]
      BY Parts
    <3> QED
      BY <2>1, <3>1
  <2>3. /\ ended \in Stream /\ ended.state = "Error" /\ ended.calls = closed.calls
        /\ ended.closes = closed.closes /\ ended.idle = closed.idle
        /\ ended.handshake = closed.handshake
    <3> HIDE DEF closed
    <3> QED
      BY <1>1 DEF Stream
  <2> HIDE DEF ended, closed
  <2>4. CallsCount(ended) /\ ~IsStarted(ended)
    BY <1>1, <2>3 DEF CallsCount, IsStarted
  <2>5. /\ stream' \in Stream /\ CallsCount(stream') /\ stream'.state # "Open"
        /\ ~stream'.handshake /\ ~stream'.idle
        /\ IsStarted(stream') <=> pipeline # <<>>
    BY <1>1, <1>5, <2>1, <2>3, <2>4, StartKeeps DEF IsStarted
  <2>6. TypeOK'
    BY <1>2, <2>1, <2>2, <2>5 DEF Inv, TypeOK
  <2>7. StreamInv' /\ StrayInv'
    BY <1>2, <1>5, <2>1, <2>5 DEF StreamInv, StrayInv, Carried, Needed, Served
  <2>8. TokenInv' /\ BackendInv'
    <3>1. Tokens(wire'.requests, wire'.no)
      BY <1>2, <2>1 DEF Tokens
    <3> QED
      BY <3>1, <2>5, NoHandshake
  <2> QED
    BY <1>3, <1>4, <2>1, <2>6, <2>7, <2>8, SameRows, SameQueues DEF Inv
<1> QED
  BY <1>6, <1>7

\* An error of GetToken closes the stream.
LEMMA TokenRefusedKeeps ==
  ASSUME Inv, NEW c \in stream.calls, NEW status \in {"aborted", "transient"},
         TokenRefused(c, status)
  PROVE  Inv'
<1> DEFINE s == [stream EXCEPT !.calls = @ \ {c}]
<1>1. /\ acking = NoBatch /\ left.faults > 0 /\ c = stream.closes
      /\ CloseWithError(status, s) /\ left' = [left EXCEPT !.faults = @ - 1]
      /\ UNCHANGED <<user, nextId, enabled, acking, log, issued, refused>>
  BY DEF TokenRefused, Free, CountsFor
<1>2. stream.state = "Starting" /\ ~stream.handshake
  BY <1>1, Parts DEF CallsCount, Carried
<1>3. /\ s \in Stream /\ s.calls \subseteq stream.calls /\ s.closes = stream.closes
      /\ s.handshake = stream.handshake
  BY Parts DEF Stream
<1> HIDE DEF s
<1>4. \A n \in s.calls : n <= s.closes
  BY <1>3, Parts DEF CallsCount
<1>5. left' \in [faults : Nat, changes : Nat, toggles : Nat]
  BY <1>1, LeftKeeps DEF Inv, TypeOK
<1> QED
  BY <1>1, <1>2, <1>3, <1>4, <1>5, CloseWithErrorKeeps DEF IsStarted

\* A verdict, or a lost connection, closes the stream.
LEMMA StreamFinishedKeeps ==
  ASSUME Inv, NEW status \in Verdict \ {"none"}, StreamFinished(status)
  PROVE  Inv'
<1>1. /\ acking = NoBatch /\ stream.state = "Open" /\ CloseWithError(status, stream)
      /\ IF wire.verdict = "none" THEN status = "transient" /\ left.faults > 0
         ELSE status = wire.verdict
      /\ left' = IF wire.verdict = "none" THEN [left EXCEPT !.faults = @ - 1] ELSE left
      /\ UNCHANGED <<user, nextId, enabled, acking, log, issued, refused>>
  BY DEF StreamFinished, Free
<1>2. left' \in [faults : Nat, changes : Nat, toggles : Nat]
  BY <1>1, LeftKeeps DEF Inv, TypeOK
<1>3. \A n \in stream.calls : n <= stream.closes
  BY Parts DEF CallsCount
<1>4. status = "permanent" => wire.verdict = "permanent"
  BY <1>1
<1> QED
  BY <1>1, <1>2, <1>3, <1>4, Parts, CloseWithErrorKeeps DEF IsStarted

\* A commit adds the write, and never the handshake.
LEMMA CommitKeeps ==
  ASSUME Inv, NEW w \in Response, Commit(w)
  PROVE  /\ log' \in Seq(Writes) /\ Committed \subseteq Committed'
         /\ w \in Writes => w \in Committed'
<1>1. log \in Seq(Writes)
  BY DEF Inv, TypeOK
<1>2. CASE w \in Committed \cup {Handshake}
  <2>1. log' = log
    BY <1>2 DEF Commit
  <2> QED
    BY <1>1, <1>2, <2>1, HandshakeAssumption DEF Committed
<1>3. CASE w \notin Committed \cup {Handshake}
  <2>1. log' = Append(log, w) /\ w \in Writes
    BY <1>3 DEF Commit, Response
  <2>2. /\ log' \in Seq(Writes) /\ Len(log') = Len(log) + 1 /\ log'[Len(log) + 1] = w
        /\ \A i \in 1..Len(log) : log'[i] = log[i]
    BY <1>1, <2>1
  <2>3. \A i \in 1..Len(log) : i \in 1..Len(log')
    BY <1>1, <2>2
  <2>4. Len(log) + 1 \in 1..Len(log')
    BY <1>1, <2>2
  <2> QED
    BY <1>1, <2>2, <2>3, <2>4 DEF Committed
<1> QED
  BY <1>2, <1>3

\* The first request becomes the last response.
LEMMA RequestTaken ==
  ASSUME NEW p \in Seq(Batch), NEW a \in Seq(Response), NEW r \in Seq(Request),
         Correlated(p, a, r), r # <<>>
  PROVE  /\ r[1].write \in Writes
         /\ Correlated(p, Append(a, r[1].write), Tail(r))
<1>1. /\ Len(p) \in Nat /\ Len(a) \in Nat /\ Len(r) \in Nat /\ Len(r) >= 1
      /\ Len(p) = Len(a) + Len(r)
      /\ \A i \in 1..Len(a) : a[i] = p[i].write
      /\ \A i \in 1..Len(r) : r[i].write = p[Len(a) + i].write
  BY DEF Correlated
<1>2. Len(a) + 1 \in 1..Len(p) /\ r[1].write = p[Len(a) + 1].write
  BY <1>1
<1>3. r[1].write \in Writes
  BY <1>2, RowType
<1>4. PICK w \in Writes : w = r[1].write
  BY <1>3
<1>5. /\ Len(Append(a, w)) = Len(a) + 1 /\ Append(a, w)[Len(a) + 1] = w
      /\ \A i \in 1..Len(a) : Append(a, w)[i] = a[i]
  <2>1. w \in Response
    BY DEF Response
  <2> QED
    BY <2>1
<1>6. /\ Len(Tail(r)) = Len(r) - 1 /\ \A i \in 1..Len(Tail(r)) : Tail(r)[i] = r[i+1]
  BY <1>1
<1>7. ASSUME NEW i \in 1..Len(Append(a, w)) PROVE Append(a, w)[i] = p[i].write
  <2>1. CASE i \in 1..Len(a)
    BY <2>1, <1>1, <1>5
  <2>2. CASE i \notin 1..Len(a)
    <3>1. i = Len(a) + 1
      BY <2>2, <1>1, <1>5
    <3> QED
      BY <3>1, <1>2, <1>4, <1>5
  <2> QED
    BY <2>1, <2>2
<1>8. ASSUME NEW i \in 1..Len(Tail(r))
      PROVE  Tail(r)[i].write = p[Len(Append(a, w)) + i].write
  <2>1. i+1 \in 1..Len(r) /\ Len(a) + (i+1) = Len(Append(a, w)) + i
    BY <1>1, <1>5, <1>6
  <2>2. Tail(r)[i] = r[i+1]
    BY <1>6
  <2>3. r[i+1].write = p[Len(a) + (i+1)].write
    BY <1>1, <2>1
  <2> QED
    BY <2>1, <2>2, <2>3
<1>9. Len(p) = Len(Append(a, w)) + Len(Tail(r))
  BY <1>1, <1>5, <1>6
<1>10. Correlated(p, Append(a, w), Tail(r))
  BY <1>7, <1>8, <1>9 DEF Correlated
<1> QED
  BY <1>3, <1>4, <1>10

\* The requests behind the first keep their tokens.
LEMMA TokensTail ==
  ASSUME NEW r \in Seq(Request), r # <<>>, NEW n, Tokens(r, n)
  PROVE  Tail(r) \in Seq(Request) /\ Tokens(Tail(r), n)
<1>1. /\ Tail(r) \in Seq(Request) /\ Len(Tail(r)) = Len(r) - 1 /\ Len(r) \in Nat
      /\ \A i \in 1..Len(Tail(r)) : Tail(r)[i] = r[i+1]
  OBVIOUS
<1>2. \A i \in 1..Len(Tail(r)) : i+1 \in 1..Len(r)
  BY <1>1
<1>3. \A i \in 1..Len(r) : r[i].write # Handshake => r[i].token = n
  BY DEF Tokens
<1>4. ASSUME NEW i \in 1..Len(Tail(r)), Tail(r)[i].write # Handshake
      PROVE  Tail(r)[i].token = n
  BY <1>1, <1>2, <1>3, <1>4
<1> QED
  BY <1>1, <1>4 DEF Tokens

\* A response committed by the backend may be added.
LEMMA AnsweredAppend ==
  ASSUME NEW a \in Seq(Response), NEW w \in Response, Answered(a),
         Committed \subseteq Committed', w \in Committed'
  PROVE  \A i \in DOMAIN Append(a, w) : Append(a, w)[i] \in Committed'
<1>1. /\ Len(Append(a, w)) = Len(a) + 1 /\ Append(a, w)[Len(a) + 1] = w
      /\ Len(a) \in Nat
      /\ \A i \in 1..Len(a) : Append(a, w)[i] = a[i]
  OBVIOUS
<1>2. ASSUME NEW i \in 1..Len(Append(a, w)) PROVE Append(a, w)[i] \in Committed'
  <2>1. CASE i \in 1..Len(a)
    BY <2>1, <1>1 DEF Answered
  <2>2. CASE i \notin 1..Len(a)
    <3>1. i = Len(a) + 1
      BY <2>2, <1>1
    <3> QED
      BY <3>1, <1>1
  <2> QED
    BY <2>1, <2>2
<1> QED
  BY <1>2

\* The backend moves one request to the responses, committed.
LEMMA BackendAnswersKeeps ==
  ASSUME Inv, BackendAnswers
  PROVE  Inv'
<1>1. /\ wire.requests # <<>> /\ wire.verdict = "none"
      /\ Commit(wire.requests[1].write)
      /\ wire' = [wire EXCEPT !.requests = Tail(@),
                              !.responses = Append(@, wire.requests[1].write)]
      /\ UNCHANGED <<queue, savedToken, user, nextId, callbacks, waits, enabled,
                     pipeline, acking, stream, issued, answered, refused, left>>
  BY DEF BackendAnswers, Serving
<1>2. /\ wire.no \in Nat /\ wire.requests \in Seq(Request)
      /\ wire.responses \in Seq(Response) /\ wire.verdict \in Verdict
      /\ wire.stray \in SUBSET Seq(Response)
  BY WireParts, Parts
<1>3. PICK a \in Seq(Response), r \in Seq(Request), w \in Response :
        a = wire.responses /\ r = wire.requests /\ w = r[1].write
  <2>1. wire.requests[1] \in Request
    BY <1>1, <1>2
  <2>2. wire.requests[1].write \in Response
    BY <2>1 DEF Request, Response
  <2> QED
    BY <1>2, <2>2
<1>4. r # <<>> /\ Tail(r) \in Seq(Request) /\ Append(a, w) \in Seq(Response)
  BY <1>1, <1>3
<1>5. /\ wire' \in Wire /\ wire'.no = wire.no /\ wire'.responses = Append(a, w)
      /\ wire'.requests = Tail(r) /\ wire'.verdict = "none" /\ wire'.stray = wire.stray
  BY <1>1, <1>2, <1>3, <1>4, Parts DEF Wire
<1>6. log' \in Seq(Writes) /\ Committed \subseteq Committed' /\ (w \in Writes => w \in Committed')
  BY <1>1, <1>3, CommitKeeps
<1>7. stream.state = "Open"
  BY <1>1, Parts DEF Carried
<1>8. TypeOK'
  BY <1>1, <1>5, <1>6 DEF Inv, TypeOK
<1>9. stream.handshake =>
        /\ Correlated(pipeline, Append(a, w), Tail(r))
        /\ w \in Writes
  <2>1. stream.handshake => Correlated(pipeline, a, r)
    BY <1>3, Parts DEF Carried
  <2> QED
    BY <2>1, <1>3, <1>4, Parts, RequestTaken
<1>10. ~stream.handshake => Append(a, w) = <<Handshake>> /\ Tail(r) = <<>>
  <2> SUFFICES ASSUME ~stream.handshake
               PROVE  Append(a, w) = <<Handshake>> /\ Tail(r) = <<>>
    OBVIOUS
  <2>1. a = <<>> /\ r = <<[write |-> Handshake, token |-> 0]>>
    BY <1>1, <1>3, <1>7, Parts DEF Carried, Greeting
  <2>2. w = Handshake
    BY <1>3, <2>1
  <2> QED
    BY <2>1, <2>2
<1>11. StreamInv' /\ StrayInv'
  <2>1. Carried(stream', pipeline', wire')
    BY <1>1, <1>5, <1>7, <1>9, <1>10, Parts DEF Carried, Greeting
  <2> QED
    BY <2>1, <1>1, <1>5 DEF Inv, StreamInv, StrayInv
<1>12. TokenInv'
  <2>1. Tokens(Tail(r), wire.no)
    BY <1>3, <1>4, TokensTail DEF Inv, TokenInv
  <2> QED
    BY <2>1, <1>1, <1>5 DEF Inv, TokenInv
<1>13. BackendInv'
  <2> SUFFICES ASSUME stream.handshake
               PROVE  \A i \in DOMAIN Append(a, w) : Append(a, w)[i] \in Committed'
    BY <1>1, <1>5 DEF BackendInv, Answered, Condemned
  <2>1. Answered(a)
    BY <1>3 DEF Inv, BackendInv
  <2> QED
    BY <2>1, <1>6, <1>9, AnsweredAppend
<1>14. AckInv'
  BY <1>1, <1>6 DEF Inv, AckInv
<1> QED
  BY <1>1, <1>6, <1>8, <1>11, <1>12, <1>13, <1>14, SameRows, SameQueues DEF Inv

\* A verdict changes neither requests nor responses.
LEMMA BackendRefusesKeeps ==
  ASSUME Inv, NEW status \in {"permanent", "aborted"}, BackendRefuses(status)
  PROVE  Inv'
<1>1. /\ wire.requests # <<>> /\ wire.verdict = "none" /\ left.faults > 0
      /\ wire' = [wire EXCEPT !.verdict = status]
      /\ refused' = IF status = "permanent"
                    THEN refused \cup ({wire.requests[1].write} \ {Handshake}) ELSE refused
      /\ left' = [left EXCEPT !.faults = @ - 1]
      /\ UNCHANGED <<queue, savedToken, user, nextId, callbacks, waits, enabled,
                     pipeline, acking, stream, log, issued, answered>>
  BY DEF BackendRefuses, Serving
<1>2. PICK r \in Seq(Request), a \in Seq(Response) : r = wire.requests /\ a = wire.responses
  BY WireParts, Parts
<1>3. r # <<>> /\ r[1] \in Request /\ r[1].write \in Writes \cup {Handshake}
  <2>1. r # <<>> /\ r[1] \in Request
    BY <1>1, <1>2
  <2> QED
    BY <2>1 DEF Request
<1>4. refused \subseteq refused' /\ refused' \subseteq Writes
  BY <1>1, <1>2, <1>3 DEF Inv, TypeOK
<1>5. /\ wire' \in Wire /\ wire'.no = wire.no /\ wire'.responses = wire.responses
      /\ wire'.requests = wire.requests /\ wire'.verdict = status
      /\ wire'.stray = wire.stray
  BY <1>1, Parts DEF Wire, Verdict
<1>6. left' \in [faults : Nat, changes : Nat, toggles : Nat]
  BY <1>1, LeftKeeps DEF Inv, TypeOK
<1>7. TypeOK'
  BY <1>1, <1>4, <1>5, <1>6 DEF Inv, TypeOK
<1>8. stream.state = "Open"
  BY <1>1, Parts DEF Carried
<1>9. StreamInv' /\ StrayInv'
  <2>1. ~stream.handshake => wire.responses = <<>>
    BY <1>1, <1>8, Parts DEF Carried, Greeting
  <2>2. Carried(stream', pipeline', wire')
    BY <2>1, <1>1, <1>5, <1>8, Parts DEF Carried, Greeting
  <2> QED
    BY <2>2, <1>1, <1>5 DEF Inv, StreamInv, StrayInv
<1>10. TokenInv'
  BY <1>1, <1>5 DEF Inv, TokenInv
<1>11. Committed' = Committed /\ AckInv'
  BY <1>1 DEF Inv, AckInv, Committed
<1>12. BackendInv'
  <2> SUFFICES ASSUME stream.handshake
               PROVE  Answered(wire.responses)' /\ Condemned(wire.verdict, wire.requests)'
    BY <1>1 DEF BackendInv
  <2>1. Correlated(pipeline, a, r)
    BY <1>2, Parts DEF Carried
  <2>2. r[1].write \in Writes
    BY <1>3, <2>1, Parts, RequestTaken
  <2>3. status = "permanent" => r[1].write \in refused'
    BY <1>1, <1>2, <2>2, HandshakeAssumption
  <2>4. Condemned(wire.verdict, wire.requests)'
    BY <2>3, <1>1, <1>2, <1>3, <1>5 DEF Condemned
  <2>5. Answered(wire.responses)'
    BY <1>5, <1>11 DEF Inv, BackendInv, Answered
  <2> QED
    BY <2>4, <2>5
<1> QED
  BY <1>1, <1>4, <1>7, <1>9, <1>10, <1>11, <1>12, SameRows, SameQueues DEF Inv

\* A request of an abandoned call only adds to what is committed.
LEMMA BackendCommitsStrayKeeps ==
  ASSUME Inv, NEW s \in wire.stray, BackendCommitsStray(s)
  PROVE  Inv'
<1>1. /\ Commit(Head(s))
      /\ wire' = [wire EXCEPT !.stray = (@ \ {s}) \cup ({Tail(s)} \ {<<>>})]
      /\ UNCHANGED <<queue, savedToken, user, nextId, callbacks, waits, enabled,
                     pipeline, acking, stream, issued, answered, refused, left>>
  BY DEF BackendCommitsStray
<1>2. s \in Seq(Response) /\ s # <<>> /\ Head(s) \in Response /\ Tail(s) \in Seq(Response)
  <2>1. s \in Seq(Response) /\ s # <<>>
    BY Parts, WireParts DEF Inv, StrayInv
  <2> QED
    BY <2>1
<1>3. log' \in Seq(Writes) /\ Committed \subseteq Committed'
  BY <1>1, <1>2, CommitKeeps
<1>4. /\ wire' \in Wire /\ wire'.no = wire.no /\ wire'.responses = wire.responses
      /\ wire'.requests = wire.requests /\ wire'.verdict = wire.verdict
      /\ <<>> \notin wire'.stray
  <2>1. (wire.stray \ {s}) \cup ({Tail(s)} \ {<<>>}) \in SUBSET Seq(Response)
    BY <1>2, Parts, WireParts
  <2> QED
    BY <2>1, <1>1, Parts DEF Wire, Inv, StrayInv
<1>5. TypeOK'
  BY <1>1, <1>3, <1>4 DEF Inv, TypeOK
<1>6. StreamInv' /\ StrayInv'
  BY <1>1, <1>4 DEF Inv, StreamInv, StrayInv, Carried, Greeting
<1>7. TokenInv' /\ AckInv'
  BY <1>1, <1>3, <1>4 DEF Inv, TokenInv, AckInv
<1>8. BackendInv'
  BY <1>1, <1>3, <1>4 DEF Inv, BackendInv, Answered, Condemned
<1> QED
  BY <1>1, <1>3, <1>5, <1>6, <1>7, <1>8, SameRows, SameQueues DEF Inv

\* The first launch satisfies the invariant.
LEMMA InitInv ==
  ASSUME Init
  PROVE  Inv
<1>1. /\ <<>> \in Seq(Batch) /\ <<>> \in Seq(Request) /\ <<>> \in Seq(Response)
      /\ <<>> \in Seq(Writes)
  OBVIOUS
<1>2. stream \in Stream /\ wire \in Wire
  BY <1>1 DEF Init, Stream, State, Wire, Verdict
<1>3. /\ queue = [u \in Users |-> <<>>] /\ callbacks = [u \in Users |-> {}]
      /\ issued = [u \in Users |-> <<>>] /\ answered = [w \in Writes |-> "none"]
      /\ pipeline = <<>> /\ acking = NoBatch /\ user \in Users
  BY DEF Init
<1>4. TypeOK
  <2>1. waits \in [Waiters -> Wait]
    BY DEF Init, Wait
  <2>2. queue \in [Users -> Seq(Batch)] /\ issued \in [Users -> Seq(Writes)]
    BY <1>1, <1>3
  <2>3. answered \in [Writes -> Result]
    BY <1>3 DEF Result
  <2>4. left \in [faults : Nat, changes : Nat, toggles : Nat]
    BY BoundsAssumption DEF Init
  <2> QED
    BY <1>1, <1>2, <2>1, <2>2, <2>3, <2>4 DEF Init, TypeOK
<1>5. StreamInv
  BY DEF Init, StreamInv, CallsCount, Carried, Needed, Served, IsStarted
<1>6. TokenInv /\ StrayInv /\ AckInv /\ BackendInv
  BY DEF Init, TokenInv, Tokens, StrayInv, AckInv, BackendInv
<1>7. QueueInv /\ CallbacksAreQueued
  BY <1>3 DEF QueueInv, Sorted, CallbacksAreQueued
<1>8. PipelineInv
  <2>1. queue[user] = <<>>
    BY <1>3
  <2> QED
    BY <1>3, <2>1 DEF PipelineInv, Begins
<1>9. OkMeansCommitted /\ NothingLost
  BY <1>3 DEF OkMeansCommitted, NothingLost
<1> QED
  BY <1>4, <1>5, <1>6, <1>7, <1>8, <1>9 DEF Inv

\* Every step preserves the invariant.
LEMMA StepInv ==
  ASSUME Inv, [Next]_vars
  PROVE  Inv'
<1>1. ASSUME NEW w \in Writes, WriteMutations(w) PROVE Inv'
  BY <1>1, WriteMutationsKeeps
<1>2. ASSUME NEW x \in Waiters, WaitForPendingWrites(x) PROVE Inv'
  BY <1>2, WaitForPendingWritesKeeps
<1>3. ASSUME NEW u \in Users, HandleCredentialChange(u) PROVE Inv'
  BY <1>3, HandleCredentialChangeKeeps
<1>4. ASSUME NEW u \in Users, KillAndLaunch(u) PROVE Inv'
  BY <1>4, KillAndLaunchKeeps
<1>5. CASE DisableNetwork
  BY <1>5, DisableNetworkKeeps
<1>6. CASE EnableNetwork
  BY <1>6, EnableNetworkKeeps
<1>7. CASE IdleTimeout
  BY <1>7, IdleTimeoutKeeps
<1>8. CASE BackoffElapsed
  BY <1>8, BackoffElapsedKeeps
<1>9. ASSUME NEW c \in stream.calls, TokenReceived(c) PROVE Inv'
  BY <1>9, TokenReceivedKeeps
<1>10. ASSUME NEW c \in stream.calls, NEW status \in {"aborted", "transient"},
              TokenRefused(c, status)
       PROVE  Inv'
  BY <1>10, TokenRefusedKeeps
<1>11. CASE HandshakeComplete
  BY <1>11, HandshakeCompleteKeeps
<1>12. CASE MutationResult
  BY <1>12, MutationResultKeeps
<1>13. CASE AcknowledgeBatch
  BY <1>13, AcknowledgeBatchKeeps
<1>14. ASSUME NEW status \in Verdict \ {"none"}, StreamFinished(status) PROVE Inv'
  BY <1>14, StreamFinishedKeeps
<1>15. CASE BackendAnswers
  BY <1>15, BackendAnswersKeeps
<1>16. ASSUME NEW status \in {"permanent", "aborted"}, BackendRefuses(status) PROVE Inv'
  BY <1>16, BackendRefusesKeeps
<1>17. ASSUME NEW s \in wire.stray, BackendCommitsStray(s) PROVE Inv'
  BY <1>17, BackendCommitsStrayKeeps
<1>18. CASE UNCHANGED vars
  <2>1. UNCHANGED <<queue, savedToken, user, nextId, callbacks, waits, enabled, pipeline,
                    acking, stream, wire, log, issued, answered, refused, left>>
    BY <1>18 DEF vars
  <2>2. Committed' = Committed
    BY <2>1 DEF Committed
  <2>3. TypeOK'
    BY <2>1 DEF Inv, TypeOK
  <2>4. AckInv' /\ BackendInv'
    BY <2>1, <2>2 DEF Inv, AckInv, BackendInv, Answered, Condemned
  <2> QED
    BY <2>1, <2>2, <2>3, <2>4, SameRows, SameQueues, SameStream DEF Inv
<1> QED
  BY <1>1, <1>2, <1>3, <1>4, <1>5, <1>6, <1>7, <1>8, <1>9, <1>10, <1>11, <1>12, <1>13,
     <1>14, <1>15, <1>16, <1>17, <1>18 DEF Next

-----------------------------------------------------------------------------
(* The theorems.                                                           *)

\* The invariant holds in every state.
THEOREM Invariance == Spec => []Inv
<1>1. Init => Inv
  BY InitInv
<1>2. Inv /\ [Next]_vars => Inv'
  BY StepInv
<1> QED
  BY <1>1, <1>2, PTL DEF Spec

\* The state stays in its type.
THEOREM TypeCorrect == Spec => []TypeOK
<1>1. Inv => TypeOK
  BY DEF Inv
<1> QED
  BY <1>1, Invariance, PTL

\* A write whose completion block was called without an error is committed, whatever
\* errors, user changes, kills and toggles of the network came before.
THEOREM SuccessIsTrue == Spec => []OkMeansCommitted
<1>1. Inv => OkMeansCommitted
  BY DEF Inv
<1> QED
  BY <1>1, Invariance, PTL

\* Every completion block belongs to a batch that is still in its user's queue.
THEOREM BlocksAreQueued == Spec => []CallbacksAreQueued
<1>1. Inv => CallbacksAreQueued
  BY DEF Inv
<1> QED
  BY <1>1, Invariance, PTL

\* A write that was issued is queued until it is committed or refused for good.
THEOREM NoWriteIsLost == Spec => []NothingLost
<1>1. Inv => NothingLost
  BY DEF Inv
<1> QED
  BY <1>1, Invariance, PTL

\* The sequences of two equal beginnings are equal.
LEMMA BeginsIsPrefix ==
  ASSUME NEW p \in Seq(Batch), NEW q \in Seq(Batch), Begins(p, q)
  PROVE  Len(p) <= Len(q) /\ p = SubSeq(q, 1, Len(p))
<1>1. /\ Len(p) \in Nat /\ Len(q) \in Nat /\ Len(p) <= Len(q)
      /\ \A i \in 1..Len(p) : p[i] = q[i]
  BY DEF Begins
<1>2. /\ SubSeq(q, 1, Len(p)) \in Seq(Batch) /\ Len(SubSeq(q, 1, Len(p))) = Len(p)
      /\ \A i \in 1..Len(p) : SubSeq(q, 1, Len(p))[i] = q[i]
  BY <1>1
<1> HIDE DEF Begins
<1>3. \A i \in 1..Len(p) : p[i] = SubSeq(q, 1, Len(p))[i]
  BY <1>1, <1>2
<1> QED
  BY <1>1, <1>2, <1>3

\* A batch before the pipeline begins the queue as well.
LEMMA OutstandingBegins ==
  ASSUME Inv
  PROVE  Outstanding \in Seq(Batch) /\ Begins(Outstanding, queue[user])
<1>1. CASE acking = NoBatch
  BY <1>1, Parts DEF Inv, PipelineInv, Outstanding
<1>2. CASE acking # NoBatch
  <2> DEFINE q == queue[user]
  <2>1. q \in Seq(Batch) /\ q # <<>> /\ q[1] = acking /\ Begins(pipeline, Tail(q))
    BY <1>2, Parts DEF Inv, PipelineInv
  <2>2. acking \in Batch
    BY <1>2 DEF Inv, TypeOK
  <2> HIDE DEF q
  <2>3. PICK p \in Seq(Batch), r \in Seq(Batch) : p = pipeline /\ r = <<acking>> \o pipeline
    <3>1. <<acking>> \o pipeline \in Seq(Batch)
      BY <2>2, Parts
    <3> QED
      BY <3>1, Parts
  <2>4. /\ Len(r) = Len(p) + 1 /\ r[1] = acking
        /\ \A i \in 1..Len(p) : r[i+1] = p[i]
    BY <2>2, <2>3
  <2>5. /\ Len(Tail(q)) = Len(q) - 1 /\ Len(q) \in Nat /\ Len(q) >= 1
        /\ \A i \in 1..Len(Tail(q)) : Tail(q)[i] = q[i+1]
    BY <2>1
  <2>6. Len(p) \in Nat /\ Len(p) <= Len(q) - 1 /\ \A i \in 1..Len(p) : p[i] = Tail(q)[i]
    BY <2>1, <2>3, <2>5 DEF Begins
  <2>7. ASSUME NEW i \in 1..Len(r) PROVE r[i] = q[i]
    <3>1. CASE i = 1
      BY <3>1, <2>1, <2>4
    <3>2. CASE i # 1
      <4>1. i-1 \in 1..Len(p) /\ (i-1)+1 = i /\ i-1 \in 1..Len(Tail(q))
        BY <3>2, <2>4, <2>5, <2>6
      <4>2. r[(i-1)+1] = p[i-1] /\ p[i-1] = Tail(q)[i-1] /\ Tail(q)[i-1] = q[(i-1)+1]
        BY <4>1, <2>4, <2>5, <2>6
      <4> QED
        BY <4>1, <4>2
    <3> QED
      BY <3>1, <3>2
  <2>8. Begins(r, q)
    BY <2>4, <2>5, <2>6, <2>7 DEF Begins
  <2> QED
    BY <1>2, <2>3, <2>8 DEF Outstanding, q
<1> QED
  BY <1>1, <1>2

\* The pipeline is the head of the current user's queue, and empty offline.
THEOREM PipelineFollowsQueue == Spec => []PipelineIsPrefix
<1>1. ASSUME Inv PROVE PipelineIsPrefix
  <2>1. Len(Outstanding) <= Len(queue[user])
        /\ Outstanding = SubSeq(queue[user], 1, Len(Outstanding))
    BY <1>1, OutstandingBegins, BeginsIsPrefix, Parts
  <2>2. enabled \/ pipeline = <<>>
    BY <1>1, Parts DEF Needed
  <2> QED
    BY <2>1, <2>2 DEF PipelineIsPrefix
<1> QED
  BY <1>1, Invariance, PTL

\* Sequences are equal when their elements are.
LEMMA SameSequence ==
  ASSUME NEW S, NEW c \in Seq(S), NEW d \in Seq(S), Len(c) = Len(d),
         \A i \in 1..Len(c) : c[i] = d[i]
  PROVE  c = d
OBVIOUS

\* What is correlated is equal, as sequences of writes.
LEMMA CorrelatedIs ==
  ASSUME NEW p \in Seq(Batch), NEW a \in Seq(Response), NEW r \in Seq(Request),
         Correlated(p, a, r)
  PROVE  Writing(p) = a \o Writing(r)
<1>1. /\ Len(p) \in Nat /\ Len(a) \in Nat /\ Len(r) \in Nat /\ Len(p) = Len(a) + Len(r)
      /\ \A i \in 1..Len(a) : a[i] = p[i].write
      /\ \A i \in 1..Len(r) : r[i].write = p[Len(a) + i].write
  BY DEF Correlated
<1>2. \A i \in 1..Len(r) : r[i].write \in Response
  <2> SUFFICES ASSUME NEW i \in 1..Len(r) PROVE r[i].write \in Response
    OBVIOUS
  <2>1. r[i] \in Request
    OBVIOUS
  <2> QED
    BY <2>1 DEF Request, Response
<1>3. PICK b \in Seq(Response) : b = Writing(r)
  <2>1. Writing(r) \in Seq(Response)
    BY <1>2 DEF Writing
  <2> QED
    BY <2>1
<1>4. Len(b) = Len(r) /\ \A i \in 1..Len(r) : b[i] = r[i].write
  BY <1>3 DEF Writing
<1>5. PICK c \in Seq(Response) : c = Writing(p)
  <2>1. \A i \in 1..Len(p) : p[i].write \in Response
    <3> SUFFICES ASSUME NEW i \in 1..Len(p) PROVE p[i].write \in Response
      OBVIOUS
    <3>1. p[i] \in Batch
      OBVIOUS
    <3> QED
      BY <3>1 DEF Batch, Response
  <2>2. Writing(p) \in Seq(Response)
    BY <1>1, <2>1 DEF Writing
  <2> QED
    BY <2>2
<1>6. Len(c) = Len(p) /\ \A i \in 1..Len(p) : c[i] = p[i].write
  BY <1>5 DEF Writing
<1>7. /\ Len(a \o b) = Len(a) + Len(b) /\ a \o b \in Seq(Response)
      /\ \A i \in 1..Len(a) : (a \o b)[i] = a[i]
      /\ \A i \in 1..Len(b) : (a \o b)[Len(a) + i] = b[i]
  BY ConcatIs
<1>8. ASSUME NEW i \in 1..Len(c) PROVE c[i] = (a \o b)[i]
  <2>1. CASE i \in 1..Len(a)
    BY <2>1, <1>1, <1>6, <1>7
  <2>2. CASE i \notin 1..Len(a)
    <3>1. i - Len(a) \in 1..Len(r) /\ Len(a) + (i - Len(a)) = i
      BY <2>2, <1>1, <1>6
    <3>2. (a \o b)[Len(a) + (i - Len(a))] = b[i - Len(a)]
      BY <3>1, <1>4, <1>7
    <3>3. b[i - Len(a)] = p[Len(a) + (i - Len(a))].write
      BY <3>1, <1>1, <1>4
    <3> QED
      BY <3>1, <3>2, <3>3, <1>6
  <2> QED
    BY <2>1, <2>2
<1>9. c = a \o b
  <2>1. PICK d \in Seq(Response) : d = a \o b
    BY <1>7
  <2>2. Len(c) = Len(d) /\ \A i \in 1..Len(c) : c[i] = d[i]
    BY <2>1, <1>1, <1>4, <1>6, <1>7, <1>8
  <2>3. c = d
    BY <2>2, SameSequence
  <2> QED
    BY <2>1, <2>3
<1> QED
  BY <1>3, <1>5, <1>9

\* What a stream past its handshake still has to answer is exactly the pipeline.
THEOREM ResponsesFollowPipeline == Spec => []ResponsesInOrder
<1>1. ASSUME Inv PROVE ResponsesInOrder
  <2> SUFFICES ASSUME stream.handshake
               PROVE  Writing(pipeline) = wire.responses \o Writing(wire.requests)
    BY DEF ResponsesInOrder
  <2>1. Correlated(pipeline, wire.responses, wire.requests)
    BY <1>1, Parts DEF Carried
  <2> QED
    BY <2>1, <1>1, Parts, WireParts, CorrelatedIs
<1> QED
  BY <1>1, Invariance, PTL

\* A write request carries the token of its own stream.
THEOREM TokensBelong == Spec => []TokenOfStream
<1>1. Inv => TokenOfStream
  BY DEF Inv, TokenInv, Tokens, TokenOfStream
<1> QED
  BY <1>1, Invariance, PTL

\* No HARD_ASSERT of the stream, the remote store or the local store fails.
THEOREM AssertionsHold == Spec => []AssertsHold
<1>1. ASSUME Inv PROVE AssertsHold
  <2>1. wire.responses # <<>> /\ stream.handshake => pipeline # <<>>
    <3>1. PICK a \in Seq(Response), r \in Seq(Request) :
              a = wire.responses /\ r = wire.requests
      BY <1>1, Parts, WireParts
    <3> QED
      BY <3>1, <1>1, Parts, ResponseTaken DEF Carried
  <2> QED
    BY <2>1, <1>1, Parts DEF AssertsHold, CallsCount, Carried, Needed, Served
<1> QED
  BY <1>1, Invariance, PTL

-----------------------------------------------------------------------------
(* Waiters.  What a call of waitForPendingWrites was made for leaves the   *)
(* queue by the time the batch it waits for does.                          *)

\* The backend has decided about the write.
Settled(w) == w \in Committed \cup refused

\* A waiting call knows an id at or above all it waits for that is still queued.
Covered(x) ==
  \A w \in waits[x].writes :
    \/ Settled(w)
    \/ \E i \in DOMAIN queue[user] : queue[user][i].write = w /\ queue[user][i].id <= waits[x].id

\* A waiter waits for rows up to its batch, and is told when all are settled.
WaitInv ==
  \A x \in Waiters :
    /\ waits[x].result = "none" => waits[x].writes = {}
    /\ waits[x].result = "waiting" => Covered(x)
    /\ waits[x].result = "ok" => \A w \in waits[x].writes : Settled(w)

\* What is settled stays so.
Growth == Committed \subseteq Committed' /\ refused \subseteq refused'

\* A row of the user leaves the queue when its write is settled.
RowsStay ==
  \A i \in DOMAIN queue[user] :
    \/ Settled(queue[user][i].write)
    \/ \E j \in DOMAIN queue'[user] : queue'[user][j] = queue[user][i]

\* The first row of the user is settled and leaves.
FirstLeaves ==
  /\ queue[user] # <<>> /\ Settled(queue[user][1].write)
  /\ queue' = [queue EXCEPT ![user] = Tail(@)]

\* The other rows stay.
LEMMA FirstLeavesRows ==
  ASSUME Inv, FirstLeaves
  PROVE  RowsStay
<1>1. queue[user] \in Seq(Batch) /\ Sorted(queue[user]) /\ queue[user] # <<>>
      /\ queue'[user] = Tail(queue[user])
  BY Parts DEF FirstLeaves
<1>2. \A i \in DOMAIN queue[user] : queue[user][i] # queue[user][1] =>
        \E j \in DOMAIN Tail(queue[user]) : Tail(queue[user])[j] = queue[user][i]
  BY <1>1, TailKeeps
<1> QED
  BY <1>1, <1>2 DEF RowsStay, FirstLeaves

\* Calls that go on waiting.
LEMMA WaitersStay ==
  ASSUME WaitInv, UNCHANGED <<waits, user>>, Growth, RowsStay
  PROVE  WaitInv'
<1> SUFFICES ASSUME NEW x \in Waiters
             PROVE  /\ waits[x].result = "none" => waits[x].writes = {}
                    /\ waits[x].result = "waiting" => Covered(x)'
                    /\ waits[x].result = "ok" => \A w \in waits[x].writes : Settled(w)'
  BY DEF WaitInv
<1>1. \A w : Settled(w) => Settled(w)'
  BY DEF Settled, Growth
<1>2. ASSUME waits[x].result = "waiting", NEW w \in waits[x].writes
      PROVE  \/ Settled(w)'
             \/ \E i \in DOMAIN queue'[user] :
                  queue'[user][i].write = w /\ queue'[user][i].id <= waits[x].id
  <2>1. CASE Settled(w)
    BY <1>1, <2>1
  <2>2. CASE ~ Settled(w)
    <3>1. PICK i \in DOMAIN queue[user] : /\ queue[user][i].write = w
                                          /\ queue[user][i].id <= waits[x].id
      BY <1>2, <2>2 DEF WaitInv, Covered
    <3>2. PICK j \in DOMAIN queue'[user] : queue'[user][j] = queue[user][i]
      BY <2>2, <3>1 DEF RowsStay
    <3> QED
      BY <3>1, <3>2
  <2> QED
    BY <2>1, <2>2
<1>3. waits[x].result = "waiting" => Covered(x)'
  BY <1>2 DEF Covered
<1> QED
  BY <1>1, <1>3 DEF WaitInv

\* Calls whose batch is answered or given up: it is the first row, so all they wait for
\* is settled.
LEMMA WaitersTold ==
  ASSUME Inv, WaitInv, queue[user] # <<>>, Settled(queue[user][1].write),
         TriggerPendingWriteCallbacks(queue[user][1].id), user' = user, Growth, RowsStay
  PROVE  WaitInv'
<1> DEFINE q == queue[user]
<1>1. \A w : Settled(w) => Settled(w)'
  BY DEF Settled, Growth
<1>2. waits \in [Waiters -> Wait]
  BY DEF Inv, TypeOK
<1>3. q \in Seq(Batch) /\ Sorted(q) /\ Len(q) >= 1
  BY Parts
<1>4. ASSUME NEW i \in DOMAIN q, q[i].id <= q[1].id PROVE i = 1
  <2>1. 1 \in 1 .. Len(q) /\ i \in 1 .. Len(q)
    BY <1>3
  <2>2. q[i].id \in Nat /\ q[1].id \in Nat
    BY <1>3, <2>1, RowType
  <2>3. 1 < i => q[1].id < q[i].id
    BY <1>3, <2>1 DEF Sorted
  <2> QED
    BY <1>4, <2>1, <2>2, <2>3
<1> SUFFICES ASSUME NEW x \in Waiters
             PROVE  /\ waits'[x].result = "none" => waits'[x].writes = {}
                    /\ waits'[x].result = "waiting" => Covered(x)'
                    /\ waits'[x].result = "ok" => \A w \in waits'[x].writes : Settled(w)'
  BY DEF WaitInv
<1>5. waits[x] \in Wait
  BY <1>2
<1>6. CASE waits[x].result = "waiting" /\ waits[x].id = q[1].id
  <2>1. waits'[x] = [waits[x] EXCEPT !.result = "ok"]
    BY <1>6 DEF TriggerPendingWriteCallbacks
  <2>2. waits'[x].result = "ok" /\ waits'[x].writes = waits[x].writes
    BY <1>5, <2>1 DEF Wait
  <2>3. \A w \in waits[x].writes : Settled(w)
    BY <1>4, <1>6 DEF WaitInv, Covered
  <2> QED
    BY <1>1, <2>2, <2>3
<1>7. CASE ~ (waits[x].result = "waiting" /\ waits[x].id = q[1].id)
  <2>1. waits'[x] = waits[x]
    BY <1>7 DEF TriggerPendingWriteCallbacks
  <2>2. ASSUME waits[x].result = "waiting", NEW w \in waits[x].writes
        PROVE  \/ Settled(w)'
               \/ \E i \in DOMAIN queue'[user] :
                    queue'[user][i].write = w /\ queue'[user][i].id <= waits[x].id
    <3>1. CASE Settled(w)
      BY <1>1, <3>1
    <3>2. CASE ~ Settled(w)
      <4>1. PICK i \in DOMAIN q : q[i].write = w /\ q[i].id <= waits[x].id
        BY <2>2, <3>2 DEF WaitInv, Covered
      <4>2. PICK j \in DOMAIN queue'[user] : queue'[user][j] = q[i]
        BY <3>2, <4>1 DEF RowsStay
      <4> QED
        BY <4>1, <4>2
    <3> QED
      BY <3>1, <3>2
  <2>3. waits[x].result = "waiting" => Covered(x)'
    BY <2>1, <2>2 DEF Covered
  <2> QED
    BY <1>1, <2>1, <2>3 DEF WaitInv
<1> QED
  BY <1>6, <1>7

\* Calls that are cancelled.
LEMMA WaitersCancelled ==
  ASSUME Inv, WaitInv, FailOutstandingPendingWriteCallbacks, Growth
  PROVE  WaitInv'
<1>1. \A w : Settled(w) => Settled(w)'
  BY DEF Settled, Growth
<1> SUFFICES ASSUME NEW x \in Waiters
             PROVE  /\ waits'[x].result = "none" => waits'[x].writes = {}
                    /\ waits'[x].result # "waiting"
                    /\ waits'[x].result = "ok" => \A w \in waits'[x].writes : Settled(w)'
  BY DEF WaitInv
<1>2. waits[x] \in Wait
  BY DEF Inv, TypeOK
<1>3. CASE waits[x].result = "waiting"
  <2>1. waits'[x] = [waits[x] EXCEPT !.result = "cancelled"]
    BY <1>3 DEF FailOutstandingPendingWriteCallbacks
  <2>2. waits'[x].result = "cancelled"
    BY <1>2, <2>1 DEF Wait
  <2> QED
    BY <2>2
<1>4. CASE waits[x].result # "waiting"
  <2>1. waits'[x] = waits[x]
    BY <1>4 DEF FailOutstandingPendingWriteCallbacks
  <2> QED
    BY <1>1, <1>4, <2>1 DEF WaitInv
<1> QED
  BY <1>3, <1>4

\* A new call.
LEMMA WaiterStarts ==
  ASSUME Inv, WaitInv, NEW x \in Waiters, WaitForPendingWrites(x)
  PROVE  WaitInv'
<1> DEFINE q == queue[user]
<1>1. /\ waits[x].result = "none" /\ UNCHANGED <<queue, user, log, refused>>
      /\ waits' = [waits EXCEPT ![x] =
           IF q = <<>> THEN [@ EXCEPT !.result = "ok"]
           ELSE [result |-> "waiting", id |-> GetHighestUnacknowledgedBatchId,
                 writes |-> QueuedWrites(user)]]
  BY DEF WaitForPendingWrites
<1>2. \A w : Settled(w) <=> Settled(w)'
  BY <1>1 DEF Settled, Committed
<1>3. waits \in [Waiters -> Wait] /\ waits[x] \in Wait
  BY DEF Inv, TypeOK
<1>4. q \in Seq(Batch) /\ Sorted(q)
  BY Parts
<1>5. /\ waits'[x].result = "none" => waits'[x].writes = {}
      /\ waits'[x].result = "waiting" => Covered(x)'
      /\ waits'[x].result = "ok" => \A w \in waits'[x].writes : Settled(w)'
  <2>1. CASE q = <<>>
    <3>1. waits'[x] = [waits[x] EXCEPT !.result = "ok"]
      BY <1>1, <1>3, <2>1
    <3>2. waits'[x].result = "ok" /\ waits'[x].writes = waits[x].writes
      BY <1>3, <3>1 DEF Wait
    <3>3. waits[x].writes = {}
      BY <1>1 DEF WaitInv
    <3> QED
      BY <3>2, <3>3
  <2>2. CASE q # <<>>
    <3>1. waits'[x] = [result |-> "waiting", id |-> q[Len(q)].id, writes |-> QueuedWrites(user)]
      BY <1>1, <1>3, <2>2 DEF GetHighestUnacknowledgedBatchId
    <3>2. waits'[x].result = "waiting" /\ waits'[x].id = q[Len(q)].id
          /\ waits'[x].writes = {q[i].write : i \in DOMAIN q}
      BY <3>1 DEF QueuedWrites
    <3>3. ASSUME NEW i \in DOMAIN q PROVE q[i].id <= q[Len(q)].id
      <4>1. i \in 1 .. Len(q) /\ Len(q) \in 1 .. Len(q)
        BY <1>4, <3>3
      <4>2. q[i].id \in Nat /\ q[Len(q)].id \in Nat
        BY <1>4, <4>1, RowType
      <4>3. i < Len(q) => q[i].id < q[Len(q)].id
        BY <1>4, <4>1 DEF Sorted
      <4> QED
        BY <4>1, <4>2, <4>3
    <3>4. queue'[user'] = q
      BY <1>1
    <3>5. Covered(x)'
      BY <3>2, <3>3, <3>4 DEF Covered
    <3> QED
      BY <3>2, <3>5
  <2> QED
    BY <2>1, <2>2
<1>6. ASSUME NEW y \in Waiters, y # x PROVE waits'[y] = waits[y]
  BY <1>1, <1>3, <1>6
<1>7. \A y \in Waiters : waits'[y] = waits[y] => (Covered(y)' <=> Covered(y))
  BY <1>1, <1>2 DEF Covered
<1> HIDE DEF q
<1> SUFFICES ASSUME NEW y \in Waiters
             PROVE  /\ waits'[y].result = "none" => waits'[y].writes = {}
                    /\ waits'[y].result = "waiting" => Covered(y)'
                    /\ waits'[y].result = "ok" => \A w \in waits'[y].writes : Settled(w)'
  BY DEF WaitInv
<1>8. CASE y = x
  BY <1>5, <1>8
<1>9. CASE y # x
  BY <1>2, <1>6, <1>7, <1>9 DEF WaitInv
<1> QED
  BY <1>8, <1>9

\* A stream that ends leaves the rows and the calls, or takes the first row.
LEMMA ClosedRows ==
  ASSUME Inv, acking = NoBatch, NEW s, s.handshake = stream.handshake,
         NEW status, CloseWithError(status, s),
         stream.handshake /\ status = "permanent" => wire.verdict = "permanent"
  PROVE  \/ UNCHANGED <<queue, waits>>
         \/ FirstLeaves /\ TriggerPendingWriteCallbacks(queue[user][1].id)
<1>1. CASE s.handshake /\ IsPermanentWriteError(status) /\ pipeline # <<>>
  <2> DEFINE batch == Head(pipeline)
  <2>1. /\ queue' = [queue EXCEPT ![user] = RemoveMutationBatch(queue[user], batch.id)]
        /\ TriggerPendingWriteCallbacks(batch.id)
    BY <1>1 DEF CloseWithError
  <2>2. queue[user] # <<>> /\ batch = queue[user][1] /\ batch = pipeline[1]
    BY <1>1, FirstRow
  <2> HIDE DEF batch
  <2>3. RemoveMutationBatch(queue[user], batch.id) = Tail(queue[user])
    BY <2>2, Parts, RemoveFirst
  <2>4. Settled(batch.write)
    BY <1>1, <2>2, FrontIsSettled DEF IsPermanentWriteError, Settled
  <2> QED
    BY <2>1, <2>2, <2>3, <2>4 DEF FirstLeaves
<1>2. CASE ~ (s.handshake /\ IsPermanentWriteError(status) /\ pipeline # <<>>)
  BY <1>2 DEF CloseWithError
<1> QED
  BY <1>1, <1>2

\* Where nothing is committed or refused.
LEMMA NoGrowth ==
  ASSUME UNCHANGED <<log, refused>>
  PROVE  Growth
BY DEF Growth, Committed

\* So does every row of a queue that is left alone.
LEMMA AllRowsStay ==
  ASSUME queue' = queue
  PROVE  RowsStay
BY DEF RowsStay

\* Every step keeps what the waiters know.
LEMMA WaitStep ==
  ASSUME Inv, WaitInv, [Next]_vars
  PROVE  WaitInv'
<1>1. ASSUME NEW w \in Writes, WriteMutations(w) PROVE WaitInv'
  <2>1. /\ queue' = [queue EXCEPT ![user] = Append(queue[user], [id |-> nextId, write |-> w])]
        /\ UNCHANGED <<user, waits, log, refused>>
    BY <1>1 DEF WriteMutations
  <2>2. RowsStay
    <3>1. PICK b \in Batch : b = [id |-> nextId, write |-> w]
      BY Parts DEF Batch
    <3>2. queue[user] \in Seq(Batch) /\ queue'[user] = Append(queue[user], b)
      BY <2>1, <3>1, Parts
    <3>3. ASSUME NEW q \in Seq(Batch), NEW i \in DOMAIN q
          PROVE  i \in DOMAIN Append(q, b) /\ Append(q, b)[i] = q[i]
      OBVIOUS
    <3> QED
      BY <3>2, <3>3 DEF RowsStay
  <2> QED
    BY <2>1, <2>2, NoGrowth, WaitersStay
<1>2. ASSUME NEW x \in Waiters, WaitForPendingWrites(x) PROVE WaitInv'
  BY <1>2, WaiterStarts
<1>3. ASSUME NEW u \in Users, HandleCredentialChange(u) PROVE WaitInv'
  <2>1. UNCHANGED <<queue, log, refused>>
    BY <1>3 DEF HandleCredentialChange
  <2>2. \/ UNCHANGED <<user, waits>>
        \/ FailOutstandingPendingWriteCallbacks
    BY <1>3 DEF HandleCredentialChange
  <2> QED
    BY <2>1, <2>2, NoGrowth, AllRowsStay, WaitersStay, WaitersCancelled
<1>4. ASSUME NEW u \in Users, KillAndLaunch(u) PROVE WaitInv'
  <2>1. UNCHANGED <<log, refused>> /\ FailOutstandingPendingWriteCallbacks
    BY <1>4 DEF KillAndLaunch, FailOutstandingPendingWriteCallbacks
  <2> QED
    BY <2>1, NoGrowth, WaitersCancelled
<1>5. ASSUME UNCHANGED <<queue, user, waits>>, Growth PROVE WaitInv'
  BY <1>5, AllRowsStay, WaitersStay
<1>6. ASSUME acking = NoBatch, NEW s, s.handshake = stream.handshake,
             NEW status, CloseWithError(status, s),
             stream.handshake /\ status = "permanent" => wire.verdict = "permanent",
             UNCHANGED <<user, log, refused>>
      PROVE  WaitInv'
  <2>1. \/ UNCHANGED <<queue, waits>>
        \/ FirstLeaves /\ TriggerPendingWriteCallbacks(queue[user][1].id)
    BY <1>6, ClosedRows
  <2>2. FirstLeaves => queue[user] # <<>> /\ Settled(queue[user][1].write)
    BY DEF FirstLeaves
  <2>3. Growth /\ user' = user
    BY <1>6, NoGrowth
  <2>4. CASE UNCHANGED <<queue, waits>>
    BY <2>3, <2>4, <1>5
  <2>5. CASE FirstLeaves /\ TriggerPendingWriteCallbacks(queue[user][1].id)
    BY <2>2, <2>3, <2>5, FirstLeavesRows, WaitersTold
  <2> QED
    BY <2>1, <2>4, <2>5
<1>7. ASSUME NEW c \in stream.calls, NEW status \in {"aborted", "transient"},
             TokenRefused(c, status)
      PROVE  WaitInv'
  <2> DEFINE s == [stream EXCEPT !.calls = @ \ {c}]
  <2>1. /\ acking = NoBatch /\ CloseWithError(status, s) /\ status # "permanent"
        /\ UNCHANGED <<user, log, refused>>
    BY <1>7 DEF TokenRefused, Free
  <2>2. s.handshake = stream.handshake
    BY Parts DEF Stream
  <2> HIDE DEF s
  <2> QED
    BY <2>1, <2>2, <1>6
<1>8. ASSUME NEW status \in Verdict \ {"none"}, StreamFinished(status) PROVE WaitInv'
  <2>1. /\ acking = NoBatch /\ CloseWithError(status, stream)
        /\ IF wire.verdict = "none" THEN status = "transient" /\ left.faults > 0
           ELSE status = wire.verdict
        /\ UNCHANGED <<user, log, refused>>
    BY <1>8 DEF StreamFinished, Free
  <2>2. status = "permanent" => wire.verdict = "permanent"
    BY <2>1
  <2> QED
    BY <2>1, <2>2, <1>6
<1>9. CASE MutationResult
  <2>1. /\ acking = NoBatch /\ wire.responses # <<>> /\ stream.handshake
        /\ TriggerPendingWriteCallbacks(Head(pipeline).id)
        /\ UNCHANGED <<queue, user, log, refused>>
    BY <1>9 DEF MutationResult, Free
  <2>2. PICK a \in Seq(Response), r \in Seq(Request) : a = wire.responses /\ r = wire.requests
    BY Parts, WireParts
  <2>3. Correlated(pipeline, a, r) /\ Answered(a)
    BY <2>1, <2>2, Parts DEF Carried, Inv, BackendInv
  <2>4. pipeline # <<>> /\ a[1] = pipeline[1].write /\ 1 \in DOMAIN a
    BY <2>1, <2>2, <2>3, Parts, ResponseTaken
  <2>5. queue[user] # <<>> /\ Head(pipeline) = queue[user][1] /\ Head(pipeline) = pipeline[1]
    BY <2>1, <2>4, FirstRow
  <2>6. Settled(queue[user][1].write)
    BY <2>3, <2>4, <2>5 DEF Answered, Settled
  <2> QED
    BY <2>1, <2>5, <2>6, NoGrowth, AllRowsStay, WaitersTold
<1>10. CASE AcknowledgeBatch
  <2>1. /\ acking # NoBatch
        /\ queue' = [queue EXCEPT ![user] = RemoveMutationBatch(queue[user], acking.id)]
        /\ UNCHANGED <<user, waits, log, refused>>
    BY <1>10 DEF AcknowledgeBatch
  <2>2. queue[user] # <<>> /\ queue[user][1] = acking /\ acking.write \in Committed
    BY <2>1 DEF Inv, PipelineInv, AckInv
  <2>3. RemoveMutationBatch(queue[user], acking.id) = Tail(queue[user])
    BY <2>2, Parts, RemoveFirst
  <2>4. FirstLeaves
    BY <2>1, <2>2, <2>3 DEF FirstLeaves, Settled
  <2> QED
    BY <2>1, <2>4, NoGrowth, FirstLeavesRows, WaitersStay
<1>11. CASE BackendAnswers
  <2>1. Commit(wire.requests[1].write) /\ wire.requests # <<>>
        /\ UNCHANGED <<queue, user, waits, refused>>
    BY <1>11 DEF BackendAnswers, Serving
  <2>2. wire.requests[1].write \in Response
    <3>1. wire.requests[1] \in Request
      BY <2>1, Parts, WireParts
    <3> QED
      BY <3>1 DEF Request, Response
  <2>3. Growth
    BY <2>1, <2>2, CommitKeeps DEF Growth
  <2> QED
    BY <2>1, <2>3, <1>5
<1>12. ASSUME NEW status \in {"permanent", "aborted"}, BackendRefuses(status) PROVE WaitInv'
  <2>1. UNCHANGED <<queue, user, waits, log>> /\ refused \subseteq refused'
    BY <1>12 DEF BackendRefuses
  <2>2. Growth
    BY <2>1 DEF Growth, Committed
  <2> QED
    BY <2>1, <2>2, <1>5
<1>13. ASSUME NEW s \in wire.stray, BackendCommitsStray(s) PROVE WaitInv'
  <2>1. Commit(Head(s)) /\ UNCHANGED <<queue, user, waits, refused>>
    BY <1>13 DEF BackendCommitsStray
  <2>2. Head(s) \in Response
    <3>1. s \in Seq(Response) /\ s # <<>>
      BY Parts, WireParts DEF Inv, StrayInv
    <3> QED
      BY <3>1
  <2>3. Growth
    BY <2>1, <2>2, CommitKeeps DEF Growth
  <2> QED
    BY <2>1, <2>3, <1>5
<1>14. ASSUME UNCHANGED <<queue, user, waits, log, refused>> PROVE WaitInv'
  BY <1>14, <1>5, NoGrowth
<1>15. CASE DisableNetwork \/ EnableNetwork
  BY <1>14, <1>15 DEF DisableNetwork, EnableNetwork
<1>16. CASE IdleTimeout \/ BackoffElapsed \/ HandshakeComplete
  BY <1>14, <1>16 DEF IdleTimeout, BackoffElapsed, HandshakeComplete
<1>17. ASSUME NEW c \in stream.calls, TokenReceived(c) PROVE WaitInv'
  BY <1>14, <1>17 DEF TokenReceived
<1>18. CASE UNCHANGED vars
  BY <1>14, <1>18 DEF vars
<1> QED
  BY <1>1, <1>2, <1>3, <1>4, <1>7, <1>8, <1>9, <1>10, <1>11, <1>12, <1>13, <1>15,
     <1>16, <1>17, <1>18 DEF Next

\* waitForPendingWrites succeeds only when every write that was pending at the call has
\* been committed or refused, through rejections, user changes, kills and launches.
THEOREM WaitersAreTold == Spec => []WaitersHold
<1>1. Init => WaitInv
  <2> SUFFICES ASSUME Init, NEW x \in Waiters
               PROVE  waits[x].result = "none" /\ waits[x].writes = {}
    BY DEF WaitInv
  <2>1. waits[x] = [result |-> "none", id |-> 0, writes |-> {}]
    BY DEF Init
  <2> QED
    BY <2>1
<1>2. Inv /\ WaitInv /\ [Next]_vars => WaitInv'
  BY WaitStep
<1>3. WaitInv => WaitersHold
  BY DEF WaitInv, WaitersHold, Settled
<1> QED
  BY <1>1, <1>2, <1>3, Invariance, PTL DEF Spec

-----------------------------------------------------------------------------
(* Order.  Whatever holds writes on their way, a queue, the pipeline, the  *)
(* requests of a call or an abandoned call, holds them in the order they   *)
(* were issued and without a gap that is not settled.                      *)

\* A user issued the write a before b.
Before(a, b) ==
  \E u \in Users : \E j \in DOMAIN issued[u] : \E i \in 1..j-1 :
    issued[u][i] = a /\ issued[u][j] = b

\* What was issued before a write of s is settled or before it in s.
InOrder(s) ==
  \A k \in DOMAIN s :
    /\ Issued(s[k])
    /\ \A a \in Writes : Before(a, s[k]) => Settled(a) \/ \E m \in 1..k-1 : s[m] = a

\* The log has every write behind those its user issued before it, the refused ones
\* apart.
LogInOrder ==
  \A n \in DOMAIN log :
    /\ Issued(log[n])
    /\ \A a \in Writes : Before(a, log[n]) => a \in refused \/ \E k \in 1..n : log[k] = a

\* The queues, the abandoned calls and the log are in order.
OrderInv ==
  /\ \A u \in Users : InOrder(Writing(queue[u]))
  /\ \A s \in wire.stray : InOrder(s)
  /\ LogInOrder

\* What is in order begins with what is.
LEMMA OrderOfBeginning ==
  ASSUME NEW S, NEW s \in Seq(S), NEW t \in Seq(S), InOrder(t), Len(s) <= Len(t),
         \A i \in 1..Len(s) : s[i] = t[i]
  PROVE  InOrder(s)
<1> SUFFICES ASSUME NEW k \in DOMAIN s
             PROVE  /\ Issued(s[k])
                    /\ \A a \in Writes :
                         Before(a, s[k]) => Settled(a) \/ \E m \in 1..k-1 : s[m] = a
  BY DEF InOrder
<1>1. k \in 1..Len(s) /\ k \in DOMAIN t /\ s[k] = t[k] /\ \A m \in 1..k-1 : m \in 1..Len(s)
  OBVIOUS
<1>2. \A m \in 1..k-1 : s[m] = t[m]
  BY <1>1
<1> QED
  BY <1>1, <1>2 DEF InOrder

\* A settled beginning can be left out.
LEMMA OrderOfRest ==
  ASSUME NEW S, NEW s \in Seq(S), NEW t \in Seq(S), InOrder(t),
         NEW n \in Nat, Len(t) = n + Len(s), \A i \in 1..Len(s) : s[i] = t[n + i],
         \A i \in 1..n : Settled(t[i])
  PROVE  InOrder(s)
<1> SUFFICES ASSUME NEW k \in DOMAIN s
             PROVE  /\ Issued(s[k])
                    /\ \A a \in Writes :
                         Before(a, s[k]) => Settled(a) \/ \E m \in 1..k-1 : s[m] = a
  BY DEF InOrder
<1>1. k \in 1..Len(s) /\ n + k \in DOMAIN t /\ s[k] = t[n + k]
  OBVIOUS
<1>2. Issued(s[k])
  BY <1>1 DEF InOrder
<1>3. ASSUME NEW a \in Writes, Before(a, s[k]), ~ Settled(a)
      PROVE  \E m \in 1..k-1 : s[m] = a
  <2>1. PICK m \in 1..(n + k)-1 : t[m] = a
    BY <1>1, <1>3 DEF InOrder
  <2>2. ~ (m \in 1..n)
    BY <1>3, <2>1
  <2>3. m - n \in 1..k-1 /\ m - n \in 1..Len(s) /\ n + (m - n) = m
    <3>1. \A g, h, j \in Nat :
            j \in 1..(g + h)-1 /\ ~ (j \in 1..g) => j - g \in 1..h-1 /\ g + (j - g) = j
      OBVIOUS
    <3>2. ASSUME NEW l \in Nat, NEW h \in 1..l, NEW i \in 1..h-1 PROVE i \in 1..l
      <4>1. i \in Int /\ h \in Int /\ 1 <= i /\ i <= h - 1 /\ h <= l
        OBVIOUS
      <4> QED
        BY <4>1
    <3>3. /\ \A x \in Seq(S) : Len(x) \in Nat
          /\ \A l \in Nat : \A h \in 1..l : h \in Nat
          /\ \A g, h \in Nat : \A j \in 1..(g + h)-1 : j \in Nat
      OBVIOUS
    <3>4. Len(s) \in Nat
      BY <3>3, Zenon
    <3>5. k \in 1..Len(s)
      BY <1>1, Zenon
    <3>6. k \in Nat
      BY <3>3, <3>4, <3>5, Zenon
    <3>7. m \in Nat
      BY <3>3, <3>6, Zenon
    <3>8. m - n \in 1..k-1 /\ n + (m - n) = m
      BY <2>2, <3>1, <3>6, <3>7, Zenon
    <3>9. m - n \in 1..Len(s)
      BY <3>2, <3>4, <3>5, <3>8, Zenon
    <3> QED
      BY <3>8, <3>9, Zenon
  <2>4. s[m - n] = t[n + (m - n)]
    BY <2>3
  <2> QED
    BY <2>1, <2>3, <2>4
<1> QED
  BY <1>2, <1>3

\* Nothing is issued, and more may be settled.
LEMMA OrderStays ==
  ASSUME issued' = issued, Growth, NEW s, InOrder(s)
  PROVE  InOrder(s)'
<1>1. \A w : Settled(w) => Settled(w)'
  BY DEF Settled, Growth
<1>2. \A a, b : Before(a, b)' <=> Before(a, b)
  BY DEF Before
<1>3. \A a : Issued(a)' <=> Issued(a)
  BY DEF Issued
<1> SUFFICES ASSUME NEW k \in DOMAIN s
             PROVE  /\ Issued(s[k])'
                    /\ \A a \in Writes :
                         Before(a, s[k])' => Settled(a)' \/ \E m \in 1..k-1 : s[m] = a
  BY DEF InOrder
<1> QED
  BY <1>1, <1>2, <1>3 DEF InOrder

\* The writes of rows are writes, in their order.
LEMMA WritingRows ==
  ASSUME NEW q \in Seq(Batch)
  PROVE  /\ Writing(q) \in Seq(Writes) /\ Len(Writing(q)) = Len(q)
         /\ \A i \in 1..Len(q) : Writing(q)[i] = q[i].write
<1>1. \A i \in 1..Len(q) : q[i].write \in Writes
  BY RowType
<1> QED
  BY <1>1 DEF Writing

\* The writes of requests, the handshake among them.
LEMMA WritingRequests ==
  ASSUME NEW r \in Seq(Request)
  PROVE  /\ Writing(r) \in Seq(Response) /\ Len(Writing(r)) = Len(r)
         /\ \A i \in 1..Len(r) : Writing(r)[i] = r[i].write
<1>1. ASSUME NEW i \in 1..Len(r) PROVE r[i].write \in Response
  <2>1. r[i] \in Request
    OBVIOUS
  <2> QED
    BY <2>1 DEF Request, Response
<1> QED
  BY <1>1 DEF Writing

\* The first row leaves.
LEMMA OrderOfTail ==
  ASSUME NEW q \in Seq(Batch), q # <<>>, Settled(q[1].write), InOrder(Writing(q))
  PROVE  InOrder(Writing(Tail(q)))
<1>1. PICK r \in Seq(Batch) : r = Tail(q)
  <2>1. \A x \in Seq(Batch) : x # <<>> => Tail(x) \in Seq(Batch)
    OBVIOUS
  <2> QED
    BY <2>1, Zenon
<1>2. Len(q) = 1 + Len(r) /\ Len(q) \in Nat /\ Len(r) \in Nat /\ \A i \in 1..Len(r) : r[i] = q[1 + i]
  BY <1>1
<1>3. PICK s \in Seq(Writes), t \in Seq(Writes) : s = Writing(r) /\ t = Writing(q)
  BY WritingRows
<1>4. /\ Len(s) = Len(r) /\ \A i \in 1..Len(r) : s[i] = r[i].write
      /\ Len(t) = Len(q) /\ \A i \in 1..Len(q) : t[i] = q[i].write
  BY <1>3, WritingRows
<1>5. Len(t) = 1 + Len(s)
  BY <1>2, <1>4
<1>7. ASSUME NEW i \in 1..Len(s) PROVE s[i] = t[1 + i]
  <2>1. i \in 1..Len(r) /\ 1 + i \in 1..Len(q)
    BY <1>2, <1>4
  <2> QED
    BY <2>1, <1>2, <1>4
<1>6. \A i \in 1..1 : Settled(t[i])
  BY <1>2, <1>4
<1> QED
  BY <1>1, <1>3, <1>5, <1>6, <1>7, OrderOfRest

\* The pipeline is in order.
LEMMA OrderOfPipeline ==
  ASSUME Inv, OrderInv
  PROVE  InOrder(Writing(pipeline))
<1>1. PICK q \in Seq(Batch) : Begins(pipeline, q) /\ InOrder(Writing(q))
  <2>1. CASE acking = NoBatch
    BY <2>1, Parts DEF Inv, PipelineInv, OrderInv
  <2>2. CASE acking # NoBatch
    <3>1. /\ queue[user] # <<>> /\ queue[user][1] = acking /\ Settled(acking.write)
          /\ Begins(pipeline, Tail(queue[user])) /\ InOrder(Writing(queue[user]))
      BY <2>2, Parts DEF Inv, PipelineInv, AckInv, Settled, OrderInv
    <3>2. InOrder(Writing(Tail(queue[user])))
      BY <3>1, Parts, OrderOfTail
    <3>3. Tail(queue[user]) \in Seq(Batch)
      BY <3>1, Parts
    <3> QED
      BY <3>1, <3>2, <3>3
  <2> QED
    BY <2>1, <2>2
<1>2. PICK p \in Seq(Batch) : p = pipeline
  BY Parts
<1>3. PICK s \in Seq(Writes), t \in Seq(Writes) : s = Writing(p) /\ t = Writing(q)
  BY WritingRows
<1>4. /\ Len(s) = Len(p) /\ \A i \in 1..Len(p) : s[i] = p[i].write
      /\ Len(t) = Len(q) /\ \A i \in 1..Len(q) : t[i] = q[i].write
  BY <1>3, WritingRows
<1>5. Len(p) <= Len(q) /\ \A i \in 1..Len(p) : p[i] = q[i]
  BY <1>1, <1>2 DEF Begins
<1>6. Len(s) <= Len(t) /\ \A i \in 1..Len(s) : s[i] = t[i]
  BY <1>4, <1>5
<1> QED
  BY <1>1, <1>2, <1>3, <1>6, OrderOfBeginning

\* The requests of a call past its handshake are in order: what was answered before
\* them is committed.
LEMMA OrderOfRequests ==
  ASSUME Inv, OrderInv, stream.handshake
  PROVE  InOrder(Writing(wire.requests))
<1>1. PICK a \in Seq(Response), r \in Seq(Request) : a = wire.responses /\ r = wire.requests
  BY Parts, WireParts
<1>2. Correlated(pipeline, a, r) /\ Answered(a)
  BY <1>1, Parts DEF Carried, Inv, BackendInv
<1>3. PICK p \in Seq(Batch) : p = pipeline
  BY Parts
<1>4. /\ Len(p) = Len(a) + Len(r)
      /\ \A i \in 1..Len(a) : a[i] = p[i].write
      /\ \A i \in 1..Len(r) : r[i].write = p[Len(a) + i].write
  BY <1>2, <1>3 DEF Correlated
<1>5. PICK t \in Seq(Response) : /\ t = Writing(p) /\ Len(t) = Len(p)
                                 /\ \A i \in 1..Len(p) : t[i] = p[i].write
  <2>1. Writing(p) \in Seq(Writes)
    BY WritingRows
  <2>2. Writing(p) \in Seq(Response)
    BY <2>1 DEF Response
  <2> QED
    BY <2>2, WritingRows
<1>6. PICK s \in Seq(Response) : /\ s = Writing(r) /\ Len(s) = Len(r)
                                 /\ \A i \in 1..Len(r) : s[i] = r[i].write
  BY WritingRequests
<1>7. Len(a) \in Nat /\ Len(t) = Len(a) + Len(s)
  BY <1>4, <1>5, <1>6
<1>8. ASSUME NEW i \in 1..Len(s) PROVE s[i] = t[Len(a) + i]
  <2>1. i \in 1..Len(r) /\ Len(a) + i \in 1..Len(p)
    BY <1>4, <1>6
  <2> QED
    BY <2>1, <1>4, <1>5, <1>6
<1>9. ASSUME NEW i \in 1..Len(a) PROVE Settled(t[i])
  <2>1. i \in 1..Len(p) /\ i \in DOMAIN a
    BY <1>4
  <2>2. a[i] \in Committed
    BY <1>2, <2>1 DEF Answered
  <2> QED
    BY <2>1, <2>2, <1>4, <1>5 DEF Settled
<1>10. InOrder(t)
  BY <1>3, <1>5, OrderOfPipeline
<1>11. InOrder(s)
  BY <1>7, <1>8, <1>9, <1>10, OrderOfRest
<1> QED
  BY <1>1, <1>6, <1>11

\* The log does not change.
LEMMA LogStays ==
  ASSUME UNCHANGED <<log, issued>>, refused \subseteq refused', LogInOrder
  PROVE  LogInOrder'
<1>1. \A a, b : Before(a, b)' <=> Before(a, b)
  BY DEF Before
<1>2. \A a : Issued(a)' <=> Issued(a)
  BY DEF Issued
<1> SUFFICES ASSUME NEW n \in DOMAIN log
             PROVE  /\ Issued(log[n])'
                    /\ \A a \in Writes : Before(a, log[n])' =>
                         a \in refused' \/ \E k \in 1..n : log[k] = a
  BY DEF LogInOrder
<1> QED
  BY <1>1, <1>2 DEF LogInOrder

\* The backend commits a write after all that was issued before it.
LEMMA OrderOfCommit ==
  ASSUME Inv, LogInOrder, UNCHANGED <<issued, refused>>, NEW w \in Response, Commit(w),
         w \in Writes => Issued(w) /\ \A a \in Writes : Before(a, w) => Settled(a)
  PROVE  LogInOrder'
<1>1. CASE w \in Committed \cup {Handshake}
  <2>1. log' = log
    BY <1>1 DEF Commit
  <2> QED
    BY <2>1, LogStays
<1>2. CASE w \notin Committed \cup {Handshake}
  <2>1. log' = Append(log, w) /\ w \in Writes /\ log \in Seq(Writes)
    BY <1>2 DEF Commit, Response, Inv, TypeOK
  <2>8. PICK l \in Seq(Writes) : l = log' /\ l = Append(log, w)
    BY <2>1
  <2>2. /\ DOMAIN l = 1..Len(log)+1 /\ l[Len(log) + 1] = w /\ Len(log) \in Nat
        /\ \A i \in 1..Len(log) : l[i] = log[i]
    BY <2>1, <2>8
  <2>3. \A a, b : Before(a, b)' <=> Before(a, b)
    BY DEF Before
  <2>4. \A a : Issued(a)' <=> Issued(a)
    BY DEF Issued
  <2>5. ASSUME NEW n \in 1..Len(log)
        PROVE  /\ Issued(l[n])
               /\ \A a \in Writes : Before(a, l[n]) =>
                    a \in refused \/ \E k \in 1..n : l[k] = a
    <3>1. n \in DOMAIN log /\ l[n] = log[n] /\ \A k \in 1..n : k \in 1..Len(log)
      BY <2>1, <2>2
    <3>2. \A k \in 1..n : l[k] = log[k]
      BY <2>2, <3>1
    <3> QED
      BY <3>1, <3>2 DEF LogInOrder
  <2>6. ASSUME NEW a \in Writes, Before(a, w)
        PROVE  a \in refused \/ \E k \in 1..Len(log)+1 : l[k] = a
    <3>1. CASE a \in Committed
      <4>1. PICK k \in 1..Len(log) : log[k] = a
        BY <2>1, <3>1 DEF Committed
      <4>2. k \in 1..Len(log)+1 /\ l[k] = a
        BY <2>2, <4>1
      <4> QED
        BY <4>2
    <3> QED
      BY <2>1, <2>6, <3>1 DEF Settled
  <2>7. ASSUME NEW n \in DOMAIN l
        PROVE  /\ Issued(l[n])'
               /\ \A a \in Writes : Before(a, l[n])' =>
                    a \in refused' \/ \E k \in 1..n : l[k] = a
    <3>1. CASE n \in 1..Len(log)
      BY <2>3, <2>4, <2>5, <3>1
    <3>2. CASE n \notin 1..Len(log)
      <4>1. n = Len(log) + 1
        BY <2>2, <3>2
      <4>2. l[n] = w /\ Issued(w)
        BY <2>1, <2>2, <4>1
      <4> QED
        BY <2>3, <2>4, <2>6, <4>1, <4>2
    <3> QED
      BY <3>1, <3>2
  <2> QED
    BY <2>7, <2>8 DEF LogInOrder
<1> QED
  BY <1>1, <1>2

\* What was issued is a write.
LEMMA IssuedWrites ==
  ASSUME Inv, NEW w, Issued(w)
  PROVE  w \in Writes
<1>1. PICK u \in Users : \E i \in DOMAIN issued[u] : issued[u][i] = w
  BY DEF Issued
<1>2. issued[u] \in Seq(Writes)
  BY DEF Inv, TypeOK
<1> QED
  BY <1>1, <1>2

\* Everything before the first of what is in order is settled.
LEMMA OrderOfHead ==
  ASSUME NEW s, InOrder(s), 1 \in DOMAIN s
  PROVE  Issued(s[1]) /\ \A a \in Writes : Before(a, s[1]) => Settled(a)
<1>1. \A m \in 1..1-1 : FALSE
  OBVIOUS
<1> QED
  BY <1>1 DEF InOrder

\* The first of an abandoned call is committed: the rest is in order.
LEMMA OrderOfStray ==
  ASSUME issued' = issued, Growth, NEW s \in Seq(Response), s # <<>>, InOrder(s),
         s[1] \in Committed'
  PROVE  InOrder(Tail(s))'
<1>1. \A w : Settled(w) => Settled(w)'
  BY DEF Settled, Growth
<1>2. \A a, b : Before(a, b)' <=> Before(a, b)
  BY DEF Before
<1>3. \A a : Issued(a)' <=> Issued(a)
  BY DEF Issued
<1>4. PICK t \in Seq(Response) : t = Tail(s)
  <2>1. \A x \in Seq(Response) : x # <<>> => Tail(x) \in Seq(Response)
    OBVIOUS
  <2> QED
    BY <2>1, Zenon
<1>5. \A k \in DOMAIN t : k \in Nat /\ k + 1 \in DOMAIN s /\ t[k] = s[k + 1]
  <2>1. ASSUME NEW x \in Seq(Response), x # <<>>
        PROVE  \A k \in DOMAIN Tail(x) : k \in Nat /\ k + 1 \in DOMAIN x /\ Tail(x)[k] = x[k + 1]
    BY <2>1
  <2> QED
    BY <1>4, <2>1, Zenon
<1>6. Len(t) \in Nat /\ DOMAIN t = 1..Len(t)
  OBVIOUS
<1>7. ASSUME NEW k \in DOMAIN t, NEW a \in Writes, Before(a, t[k])
      PROVE  Settled(a)' \/ \E m \in 1..k-1 : t[m] = a
  <2>1. CASE Settled(a)
    BY <1>1, <2>1
  <2>2. CASE ~ Settled(a)
    <3>1. k \in Nat /\ k \in 1..Len(t)
      BY <1>5, <1>6
    <3>2. PICK m \in 1..(k + 1)-1 : s[m] = a
      BY <1>5, <1>7, <2>2 DEF InOrder
    <3>3. CASE m = 1
      BY <3>2, <3>3 DEF Settled
    <3>4. CASE m # 1
      <4>1. \A l \in Nat : \A i \in 1..l : \A j \in 1..(i + 1)-1 :
              j # 1 => j - 1 \in 1..i-1 /\ j - 1 \in 1..l /\ (j - 1) + 1 = j
        OBVIOUS
      <4>2. m - 1 \in 1..k-1 /\ m - 1 \in 1..Len(t) /\ (m - 1) + 1 = m
        BY <1>6, <3>1, <3>4, <4>1, Zenon
      <4>3. t[m - 1] = s[(m - 1) + 1]
        BY <1>5, <1>6, <4>2, Zenon
      <4> QED
        BY <3>2, <4>2, <4>3, Zenon
    <3> QED
      BY <3>3, <3>4
  <2> QED
    BY <2>1, <2>2
<1>8. \A k \in DOMAIN t : Issued(t[k])
  BY <1>5 DEF InOrder
<1>9. InOrder(t)'
  BY <1>2, <1>3, <1>7, <1>8 DEF InOrder
<1> QED
  BY <1>4, <1>9

\* Filling the pipeline sends on the call that is there.
LEMMA StrayFilled ==
  ASSUME NEW on, NEW s, NEW p, NEW q, NEW w \in Wire, FillWritePipeline(on, s, p, q, w)
  PROVE  wire'.stray = w.stray
BY DEF FillWritePipeline, Sent, Wire

\* A write that is issued comes last in its user's queue and in no other place.
LEMMA OrderOfWriteMutations ==
  ASSUME Inv, OrderInv, NEW w \in Writes, WriteMutations(w)
  PROVE  OrderInv'
<1>1. /\ ~ Issued(w)
      /\ queue' = [queue EXCEPT ![user] = Append(queue[user], [id |-> nextId, write |-> w])]
      /\ issued' = [issued EXCEPT ![user] = Append(@, w)]
      /\ FillWritePipeline(enabled, stream, pipeline,
                           Append(queue[user], [id |-> nextId, write |-> w]), wire)
      /\ UNCHANGED <<user, log, refused>>
  BY DEF WriteMutations
<1>2. issued \in [Users -> Seq(Writes)] /\ user \in Users /\ issued[user] \in Seq(Writes)
  BY Parts DEF Inv, TypeOK
<1>3. PICK l \in Seq(Writes) : l = Append(issued[user], w)
  <2>1. \A x \in Seq(Writes) : Append(x, w) \in Seq(Writes)
    OBVIOUS
  <2> QED
    BY <1>2, <2>1, Zenon
<1>4. /\ DOMAIN l = 1..Len(issued[user])+1 /\ l[Len(issued[user]) + 1] = w
      /\ DOMAIN issued[user] = 1..Len(issued[user]) /\ Len(issued[user]) \in Nat
      /\ \A i \in DOMAIN issued[user] : i \in DOMAIN l /\ l[i] = issued[user][i]
  BY <1>2, <1>3
<1>5. issued'[user] = l /\ \A u \in Users : u # user => issued'[u] = issued[u]
  BY <1>1, <1>2, <1>3
<1>6. \A v : Issued(v) => Issued(v)' /\ v # w
  BY <1>1, <1>4, <1>5 DEF Issued
<1>7. Issued(w)'
  BY <1>2, <1>4, <1>5 DEF Issued
<1>8. \A v : Settled(v)' <=> Settled(v)
  BY <1>1 DEF Settled, Committed
<1>9. ASSUME NEW a, NEW b, Before(a, b)', b # w PROVE Before(a, b)
  <2>1. PICK u \in Users : \E j \in DOMAIN issued'[u] : \E i \in 1..j-1 :
                              issued'[u][i] = a /\ issued'[u][j] = b
    BY <1>9 DEF Before
  <2>2. CASE u # user
    BY <1>5, <2>1, <2>2 DEF Before
  <2>3. CASE u = user
    <3>1. PICK j \in DOMAIN l : \E i \in 1..j-1 : l[i] = a /\ l[j] = b
      BY <1>5, <2>1, <2>3
    <3>2. PICK i \in 1..j-1 : l[i] = a /\ l[j] = b
      BY <3>1
    <3>3. j # Len(issued[user]) + 1
      BY <1>4, <1>9, <3>2
    <3>4. j \in DOMAIN issued[user] /\ i \in DOMAIN issued[user]
      BY <1>4, <3>3
    <3> QED
      BY <1>2, <1>4, <3>2, <3>4 DEF Before
  <2> QED
    BY <2>2, <2>3
<1>10. ASSUME NEW a, Before(a, w)' PROVE \E i \in DOMAIN issued[user] : issued[user][i] = a
  <2>1. PICK u \in Users : \E j \in DOMAIN issued'[u] : \E i \in 1..j-1 :
                              issued'[u][i] = a /\ issued'[u][j] = w
    BY <1>10 DEF Before
  <2>2. u = user
    BY <1>1, <1>5, <2>1 DEF Issued
  <2>3. PICK j \in DOMAIN l : \E i \in 1..j-1 : l[i] = a /\ l[j] = w
    BY <1>5, <2>1, <2>2
  <2>4. PICK i \in 1..j-1 : l[i] = a
    BY <2>3
  <2>5. i \in DOMAIN issued[user]
    BY <1>4
  <2> QED
    BY <1>4, <2>4, <2>5
\* What was in order is.
<1>11. ASSUME NEW s, InOrder(s) PROVE InOrder(s)'
  <2>1. \A k \in DOMAIN s : Issued(s[k])' /\ s[k] # w
    BY <1>6, <1>11 DEF InOrder
  <2>2. \A k \in DOMAIN s : \A a \in Writes :
          Before(a, s[k])' => Settled(a)' \/ \E m \in 1..k-1 : s[m] = a
    BY <1>8, <1>9, <1>11, <2>1 DEF InOrder
  <2> QED
    BY <2>1, <2>2 DEF InOrder
<1>12. LogInOrder'
  <2>1. PICK g : g = log
    OBVIOUS
  <2>2. \A n \in DOMAIN g :
          /\ Issued(g[n])
          /\ \A a \in Writes : Before(a, g[n]) => a \in refused \/ \E k \in 1..n : g[k] = a
    BY <2>1 DEF OrderInv, LogInOrder
  <2>3. \A n \in DOMAIN g :
          /\ Issued(g[n])'
          /\ \A a \in Writes : Before(a, g[n])' => a \in refused \/ \E k \in 1..n : g[k] = a
    BY <1>6, <1>9, <2>2
  <2> QED
    BY <1>1, <2>1, <2>3 DEF LogInOrder
<1>13. \A s \in wire'.stray : InOrder(s)'
  <2>1. wire'.stray = wire.stray
    BY <1>1, Parts, StrayFilled
  <2> QED
    BY <1>11, <2>1 DEF OrderInv
<1>14. PICK b \in Batch : b = [id |-> nextId, write |-> w]
  <2>1. [id |-> nextId, write |-> w] \in Batch
    BY Parts DEF Batch
  <2> QED
    BY <2>1
<1>16. PICK q \in Seq(Batch), r \in Seq(Batch) : q = queue[user] /\ r = Append(q, b)
  <2>1. \A x \in Seq(Batch) : Append(x, b) \in Seq(Batch)
    OBVIOUS
  <2> QED
    BY <2>1, Parts, Zenon
<1>17. InOrder(Writing(r))'
  <2>1. b.write = w
    BY <1>14
  <2>2. \A x \in Seq(Batch) :
          /\ Len(Append(x, b)) = Len(x) + 1 /\ Len(x) \in Nat /\ Append(x, b)[Len(x) + 1] = b
          /\ \A i \in 1..Len(x) : Append(x, b)[i] = x[i]
    OBVIOUS
  <2>3. /\ Len(r) = Len(q) + 1 /\ Len(q) \in Nat /\ r[Len(q) + 1] = b
        /\ \A i \in 1..Len(q) : r[i] = q[i]
    BY <1>16, <2>2, Zenon
  <2>4. PICK s \in Seq(Writes), t \in Seq(Writes) : s = Writing(q) /\ t = Writing(r)
    BY WritingRows
  <2>5. /\ DOMAIN s = 1..Len(q) /\ \A i \in 1..Len(q) : s[i] = q[i].write
        /\ DOMAIN t = 1..Len(q)+1 /\ \A i \in 1..Len(q)+1 : t[i] = r[i].write
    BY <2>3, <2>4, WritingRows
  <2>6. InOrder(s)'
    BY <1>2, <1>11, <1>16, <2>4 DEF OrderInv
  <2>7. \A i \in 1..Len(q) : t[i] = s[i]
    BY <2>3, <2>5
  <2>8. t[Len(q) + 1] = w
    BY <2>1, <2>3, <2>5
  <2>9. ASSUME NEW k \in 1..Len(q)
        PROVE  /\ Issued(t[k])'
               /\ \A a \in Writes : Before(a, t[k])' => Settled(a)' \/ \E m \in 1..k-1 : t[m] = a
    <3>1. k \in DOMAIN s /\ t[k] = s[k] /\ \A m \in 1..k-1 : m \in 1..Len(q)
      BY <2>3, <2>5, <2>7
    <3>2. \A m \in 1..k-1 : t[m] = s[m]
      BY <2>7, <3>1
    <3>3. /\ Issued(s[k])'
          /\ \A a \in Writes : Before(a, s[k])' => Settled(a)' \/ \E m \in 1..k-1 : s[m] = a
      BY <2>6, <3>1 DEF InOrder
    <3> QED
      BY <3>1, <3>2, <3>3
  <2>10. ASSUME NEW a \in Writes, Before(a, w)'
         PROVE  Settled(a)' \/ \E m \in 1..Len(q) : t[m] = a
    <3>1. a \in QueuedWrites(user) \cup Committed \cup refused
      BY <1>2, <1>10, <2>10 DEF Inv, NothingLost
    <3>2. CASE a \in QueuedWrites(user)
      <4>1. PICK m \in 1..Len(q) : q[m].write = a
        BY <1>16, <3>2 DEF QueuedWrites
      <4> QED
        BY <2>5, <2>7, <4>1
    <3>3. CASE a \notin QueuedWrites(user)
      BY <1>8, <3>1, <3>3 DEF Settled
    <3> QED
      BY <3>2, <3>3
  <2>11. ASSUME NEW k \in DOMAIN t
         PROVE  /\ Issued(t[k])'
                /\ \A a \in Writes : Before(a, t[k])' => Settled(a)' \/ \E m \in 1..k-1 : t[m] = a
    <3>1. CASE k \in 1..Len(q)
      BY <2>9, <3>1
    <3>2. CASE k \notin 1..Len(q)
      <4>1. k = Len(q) + 1 /\ k-1 = Len(q)
        BY <2>3, <2>5, <3>2
      <4> QED
        BY <1>7, <2>8, <2>10, <4>1
    <3> QED
      BY <3>1, <3>2
  <2>12. InOrder(t)'
    BY <2>11 DEF InOrder
  <2> QED
    BY <2>4, <2>12
<1>18. PICK Q : Q = queue' /\ Q[user] = r /\ \A u \in Users : u # user => Q[u] = queue[u]
  BY <1>1, <1>14, <1>16, Parts
<1>15. ASSUME NEW u \in Users PROVE InOrder(Writing(Q[u]))'
  <2>1. CASE u = user
    BY <1>17, <1>18, <2>1
  <2>2. CASE u # user
    <3>1. PICK x : x = queue[u] /\ Q[u] = x /\ InOrder(Writing(x))
      BY <1>18, <2>2 DEF OrderInv
    <3>2. InOrder(Writing(x))'
      BY <1>11, <3>1
    <3> QED
      BY <3>1, <3>2
  <2> QED
    BY <2>1, <2>2
<1> QED
  BY <1>12, <1>13, <1>15, <1>18 DEF OrderInv

\* What a call that is gone leaves behind is what was left of its requests.
LEMMA StrayOfHung ==
  ASSUME Inv
  PROVE  /\ Hung \in Wire /\ WireAfterStop \in Wire
         /\ Hung.stray \subseteq wire.stray \cup Abandoned
         /\ WireAfterStop.stray \subseteq wire.stray \cup Abandoned
<1>1. Hung \in Wire /\ Hung.stray = wire.stray \cup Abandoned
  BY Parts, HungKeeps DEF Hung, Wire
<1> QED
  BY <1>1, Parts DEF WireAfterStop

\* A step that issues and commits nothing: queues lose settled rows, and what a call
\* that is gone leaves behind was in order.
LEMMA OrderKept ==
  ASSUME Inv, OrderInv, issued' = issued, Growth, queue' = queue \/ FirstLeaves,
         wire'.stray \subseteq wire.stray \cup Abandoned, LogInOrder'
  PROVE  OrderInv'
<1>1. ASSUME NEW s \in wire'.stray PROVE InOrder(s)'
  <2>1. CASE s \in wire.stray
    <3>1. InOrder(s)
      BY <2>1 DEF OrderInv
    <3> QED
      BY <3>1, OrderStays
  <2>2. CASE s \in Abandoned
    <3>1. stream.handshake /\ s = Writing(wire.requests)
      BY <2>2 DEF Abandoned
    <3>2. InOrder(s)
      BY <3>1, OrderOfRequests
    <3> QED
      BY <3>2, OrderStays
  <2> QED
    BY <2>1, <2>2
<1>2. ASSUME NEW u \in Users PROVE \E q : q = queue'[u] /\ InOrder(Writing(q))
  <2>1. queue[u] \in Seq(Batch) /\ InOrder(Writing(queue[u]))
    BY Parts DEF OrderInv
  <2>2. CASE queue'[u] = queue[u]
    BY <2>1, <2>2
  <2>3. CASE queue'[u] # queue[u]
    <3>1. u = user /\ queue'[u] = Tail(queue[u]) /\ queue[u] # <<>>
          /\ Settled(queue[u][1].write)
      BY <2>3, Parts DEF FirstLeaves
    <3>2. InOrder(Writing(Tail(queue[u])))
      BY <2>1, <3>1, OrderOfTail
    <3> QED
      BY <3>1, <3>2
  <2> QED
    BY <2>2, <2>3
<1>3. PICK Q : Q = queue'
  OBVIOUS
<1>4. ASSUME NEW u \in Users PROVE InOrder(Writing(Q[u]))'
  <2>1. PICK q : q = Q[u] /\ InOrder(Writing(q))
    BY <1>2, <1>3
  <2>2. PICK s : s = Writing(q) /\ InOrder(s)
    BY <2>1
  <2>3. InOrder(s)'
    BY <2>2, OrderStays
  <2> QED
    BY <2>1, <2>2, <2>3
<1> QED
  BY <1>1, <1>3, <1>4 DEF OrderInv

\* A closed stream gives up at most the first row, and what it leaves is abandoned.
LEMMA OrderOfClose ==
  ASSUME Inv, OrderInv, acking = NoBatch, NEW s, s.handshake = stream.handshake,
         NEW status, CloseWithError(status, s),
         stream.handshake /\ status = "permanent" => wire.verdict = "permanent",
         UNCHANGED <<log, issued, refused>>
  PROVE  OrderInv'
<1>1. queue' = queue \/ FirstLeaves
  BY ClosedRows
<1>2. wire'.stray = Hung.stray
  <2>1. \/ wire' = Hung
        \/ FillWritePipeline(enabled, InhibitBackoff(Close(s, "Error")), Tail(pipeline),
                             RemoveMutationBatch(queue[user], Head(pipeline).id), Hung)
    BY DEF CloseWithError
  <2> QED
    BY <2>1, StrayOfHung, StrayFilled
<1>3. Growth /\ LogInOrder'
  BY NoGrowth, LogStays DEF OrderInv
<1> QED
  BY <1>1, <1>2, <1>3, StrayOfHung, OrderKept

\* The backend commits the next request of the call.
LEMMA OrderOfBackendAnswers ==
  ASSUME Inv, OrderInv, BackendAnswers
  PROVE  OrderInv'
<1>1. /\ wire.requests # <<>> /\ Commit(wire.requests[1].write)
      /\ wire' = [wire EXCEPT !.requests = Tail(@),
                              !.responses = Append(@, wire.requests[1].write)]
      /\ UNCHANGED <<queue, issued, refused>>
  BY DEF BackendAnswers, Serving
<1>2. PICK r \in Seq(Request) : r = wire.requests /\ r # <<>>
  BY <1>1, Parts, WireParts
<1>3. 1 \in 1..Len(r) /\ r[1] \in Request
  BY <1>2
<1>4. PICK w \in Response : w = r[1].write
  BY <1>3 DEF Request, Response
<1>5. w \in Writes => Issued(w) /\ \A a \in Writes : Before(a, w) => Settled(a)
  <2>1. stream.state = "Open" /\ stream.handshake \in BOOLEAN
    BY <1>1, Parts, StreamParts DEF Carried
  <2>2. CASE stream.handshake
    <3>1. PICK s : s = Writing(r) /\ 1 \in DOMAIN s /\ s[1] = w
      BY <1>3, <1>4, WritingRequests
    <3>2. InOrder(s)
      BY <1>2, <2>2, <3>1, OrderOfRequests
    <3> QED
      BY <3>1, <3>2, OrderOfHead
  <2>3. CASE ~ stream.handshake
    <3>1. Greeting(wire)
      BY <2>1, <2>3, Parts DEF Carried
    <3>2. r = <<[write |-> Handshake, token |-> 0]>>
      BY <1>1, <1>2, <3>1 DEF Greeting
    <3>3. w = Handshake
      BY <1>4, <3>2
    <3> QED
      BY <3>3, HandshakeAssumption
  <2> QED
    BY <2>1, <2>2, <2>3
<1>6. Commit(w)
  BY <1>1, <1>2, <1>4
<1>7. Growth
  BY <1>1, <1>6, CommitKeeps DEF Growth
<1>8. LogInOrder'
  BY <1>1, <1>5, <1>6, OrderOfCommit DEF OrderInv
<1>9. wire'.stray = wire.stray
  BY <1>1, Parts DEF Wire
<1> QED
  BY <1>1, <1>7, <1>8, <1>9, OrderKept

\* It commits the next request of an abandoned call.
LEMMA OrderOfBackendCommitsStray ==
  ASSUME Inv, OrderInv, NEW s \in wire.stray, BackendCommitsStray(s)
  PROVE  OrderInv'
<1>1. /\ Commit(Head(s))
      /\ wire' = [wire EXCEPT !.stray = (@ \ {s}) \cup ({Tail(s)} \ {<<>>})]
      /\ UNCHANGED <<queue, issued, refused>>
  BY DEF BackendCommitsStray
<1>2. s \in Seq(Response) /\ s # <<>>
  BY Parts, WireParts DEF Inv, StrayInv
<1>3. 1 \in DOMAIN s /\ s[1] = Head(s) /\ s[1] \in Response
  BY <1>2
<1>4. InOrder(s)
  BY DEF OrderInv
<1>5. Issued(s[1]) /\ \A a \in Writes : Before(a, s[1]) => Settled(a)
  BY <1>3, <1>4, OrderOfHead
<1>6. s[1] \in Writes
  BY <1>5, IssuedWrites
<1>7. s[1] \in Committed' /\ Growth
  BY <1>1, <1>3, <1>6, CommitKeeps DEF Growth
<1>8. LogInOrder'
  BY <1>1, <1>3, <1>5, OrderOfCommit DEF OrderInv
<1>9. InOrder(Tail(s))'
  BY <1>1, <1>2, <1>4, <1>7, OrderOfStray
<1>10. wire'.stray \subseteq wire.stray \cup {Tail(s)}
  BY <1>1, Parts DEF Wire
<1>11. ASSUME NEW t \in wire'.stray PROVE InOrder(t)'
  <2>1. CASE t \in wire.stray
    <3>1. InOrder(t)
      BY <2>1 DEF OrderInv
    <3> QED
      BY <3>1, <1>1, <1>7, OrderStays
  <2>2. CASE t = Tail(s)
    BY <1>9, <2>2
  <2> QED
    BY <1>10, <2>1, <2>2
<1>12. ASSUME NEW u \in Users PROVE InOrder(Writing(queue[u]))'
  <2>1. PICK t : t = Writing(queue[u]) /\ InOrder(t)
    BY DEF OrderInv
  <2>2. InOrder(t)'
    BY <2>1, <1>1, <1>7, OrderStays
  <2>3. (Writing(queue[u]))' = t
    BY <1>1, <2>1 DEF Writing
  <2> QED
    BY <2>2, <2>3 DEF InOrder, Issued, Before, Settled, Committed
<1> QED
  BY <1>1, <1>8, <1>11, <1>12 DEF OrderInv

\* Every step keeps the order.
LEMMA OrderStep ==
  ASSUME Inv, OrderInv, [Next]_vars
  PROVE  OrderInv'
<1>1. ASSUME NEW w \in Writes, WriteMutations(w) PROVE OrderInv'
  BY <1>1, OrderOfWriteMutations
\* The steps that issue, commit and refuse nothing and leave the rows.
<1>2. ASSUME UNCHANGED <<queue, issued, log, refused>>,
             wire'.stray \subseteq wire.stray \cup Abandoned
      PROVE  OrderInv'
  BY <1>2, NoGrowth, LogStays, OrderKept DEF OrderInv
<1>3. ASSUME NEW x \in Waiters, WaitForPendingWrites(x) PROVE OrderInv'
  BY <1>2, <1>3 DEF WaitForPendingWrites
<1>4. ASSUME NEW u \in Users, HandleCredentialChange(u) PROVE OrderInv'
  <2>1. /\ UNCHANGED <<queue, issued, log, refused>>
        /\ \/ FillWritePipeline(TRUE, [Stop(stream) EXCEPT !.token = savedToken[u]],
                                <<>>, queue[u], WireAfterStop)
           \/ wire' = wire
    BY <1>4 DEF HandleCredentialChange
  <2>2. wire'.stray = WireAfterStop.stray \/ wire' = wire
    BY <2>1, StrayOfHung, StrayFilled
  <2> QED
    BY <2>1, <2>2, <1>2, StrayOfHung
<1>5. ASSUME NEW u \in Users, KillAndLaunch(u) PROVE OrderInv'
  <2>1. UNCHANGED <<queue, issued, log, refused>> /\ Launch(u)
    BY <1>5 DEF KillAndLaunch
  <2>2. wire'.stray = Hung.stray
    BY <2>1, StrayOfHung, StrayFilled DEF Launch
  <2> QED
    BY <2>1, <2>2, <1>2, StrayOfHung
<1>6. CASE DisableNetwork
  BY <1>2, <1>6, StrayOfHung DEF DisableNetwork
<1>7. CASE EnableNetwork
  <2>1. UNCHANGED <<queue, issued, log, refused>> /\ wire'.stray = wire.stray
    BY <1>7, Parts, StrayFilled DEF EnableNetwork
  <2> QED
    BY <2>1, <1>2
<1>8. CASE IdleTimeout
  BY <1>2, <1>8, StrayOfHung DEF IdleTimeout
<1>9. CASE BackoffElapsed
  BY <1>2, <1>9 DEF BackoffElapsed
<1>10. ASSUME NEW c \in stream.calls, TokenReceived(c) PROVE OrderInv'
  <2>1. UNCHANGED <<queue, issued, log, refused>> /\ wire'.stray = wire.stray
    BY <1>10, Parts DEF TokenReceived, Wire
  <2> QED
    BY <2>1, <1>2
<1>11. ASSUME NEW c \in stream.calls, NEW status \in {"aborted", "transient"},
              TokenRefused(c, status)
       PROVE  OrderInv'
  <2> DEFINE s == [stream EXCEPT !.calls = @ \ {c}]
  <2>1. /\ acking = NoBatch /\ CloseWithError(status, s) /\ status # "permanent"
        /\ UNCHANGED <<log, issued, refused>>
    BY <1>11 DEF TokenRefused, Free
  <2>2. s.handshake = stream.handshake
    BY Parts DEF Stream
  <2> HIDE DEF s
  <2> QED
    BY <2>1, <2>2, OrderOfClose
<1>12. CASE HandshakeComplete
  <2>1. UNCHANGED <<queue, issued, log, refused>> /\ wire'.stray = wire.stray
    BY <1>12, Parts DEF HandshakeComplete, Sent, Wire
  <2> QED
    BY <2>1, <1>2
<1>13. CASE MutationResult
  <2>1. UNCHANGED <<queue, issued, log, refused>> /\ wire'.stray = wire.stray
    BY <1>13, Parts DEF MutationResult, Wire
  <2> QED
    BY <2>1, <1>2
<1>14. CASE AcknowledgeBatch
  <2>1. /\ acking # NoBatch
        /\ queue' = [queue EXCEPT ![user] = RemoveMutationBatch(queue[user], acking.id)]
        /\ FillWritePipeline(enabled, stream, pipeline,
                             RemoveMutationBatch(queue[user], acking.id), wire)
        /\ UNCHANGED <<log, issued, refused>>
    BY <1>14 DEF AcknowledgeBatch
  <2>2. queue[user] # <<>> /\ queue[user][1] = acking /\ acking.write \in Committed
    BY <2>1 DEF Inv, PipelineInv, AckInv
  <2>3. RemoveMutationBatch(queue[user], acking.id) = Tail(queue[user])
    BY <2>2, Parts, RemoveFirst
  <2>4. FirstLeaves
    BY <2>1, <2>2, <2>3 DEF FirstLeaves, Settled
  <2>5. wire'.stray = wire.stray
    BY <2>1, Parts, StrayFilled
  <2> QED
    BY <2>1, <2>4, <2>5, NoGrowth, LogStays, OrderKept DEF OrderInv
<1>15. ASSUME NEW status \in Verdict \ {"none"}, StreamFinished(status) PROVE OrderInv'
  <2>1. /\ acking = NoBatch /\ CloseWithError(status, stream)
        /\ IF wire.verdict = "none" THEN status = "transient" /\ left.faults > 0
           ELSE status = wire.verdict
        /\ UNCHANGED <<log, issued, refused>>
    BY <1>15 DEF StreamFinished, Free
  <2>2. status = "permanent" => wire.verdict = "permanent"
    BY <2>1
  <2> QED
    BY <2>1, <2>2, OrderOfClose
<1>16. CASE BackendAnswers
  BY <1>16, OrderOfBackendAnswers
<1>17. ASSUME NEW status \in {"permanent", "aborted"}, BackendRefuses(status) PROVE OrderInv'
  <2>1. /\ UNCHANGED <<queue, issued, log>> /\ refused \subseteq refused'
        /\ wire'.stray = wire.stray
    BY <1>17, Parts DEF BackendRefuses, Wire
  <2>2. Growth
    BY <2>1 DEF Growth, Committed
  <2> QED
    BY <2>1, <2>2, LogStays, OrderKept DEF OrderInv
<1>18. ASSUME NEW s \in wire.stray, BackendCommitsStray(s) PROVE OrderInv'
  BY <1>18, OrderOfBackendCommitsStray
<1>19. CASE UNCHANGED vars
  BY <1>2, <1>19 DEF vars
<1> QED
  BY <1>1, <1>3, <1>4, <1>5, <1>6, <1>7, <1>8, <1>9, <1>10, <1>11, <1>12, <1>13, <1>14,
     <1>15, <1>16, <1>17, <1>18, <1>19 DEF Next

\* When a later write of a user is committed, each earlier one was committed before it
\* or refused, though calls are abandoned with their requests on the way, their writes
\* are sent again on the next, and the user changes in between.
THEOREM CommitsFollowIssues == Spec => []CommittedInOrder
<1>1. Init => OrderInv
  <2> SUFFICES ASSUME Init PROVE OrderInv
    OBVIOUS
  <2>1. \A u \in Users : queue[u] = <<>>
    BY DEF Init
  <2>2. wire.stray = {} /\ log = <<>>
    BY DEF Init
  <2> QED
    BY <2>1, <2>2 DEF OrderInv, InOrder, LogInOrder, Writing
<1>2. Inv /\ OrderInv /\ [Next]_vars => OrderInv'
  BY OrderStep
<1>3. Inv /\ OrderInv => CommittedInOrder
  <2> SUFFICES ASSUME Inv, LogInOrder, NEW u \in Users, NEW j \in DOMAIN issued[u],
                      NEW i \in 1..j-1, NEW n \in DOMAIN log, log[n] = issued[u][j]
               PROVE  issued[u][i] \in refused \/ \E k \in 1..n : log[k] = issued[u][i]
    BY DEF CommittedInOrder, OrderInv
  <2>1. issued[u] \in Seq(Writes)
    BY DEF Inv, TypeOK
  <2>2. i \in DOMAIN issued[u] /\ issued[u][i] \in Writes
    BY <2>1
  <2>3. Before(issued[u][i], log[n])
    BY DEF Before
  <2> QED
    BY <2>2, <2>3 DEF LogInOrder
<1> QED
  BY <1>1, <1>2, <1>3, Invariance, PTL DEF Spec


-----------------------------------------------------------------------------
(* Answers.  FirestoreWrites implements WriteAnswers.                      *)

\* The completion block of a write is still to be called.
Pending(w) == \E u \in Users : \E c \in callbacks[u] : c.write = w

\* A block is of a write that was issued and not answered, and a write has one.
AnswerInv ==
  /\ \A u \in Users : \A c \in callbacks[u] : Issued(c.write) /\ answered[c.write] = "none"
  /\ \A u, v \in Users : \A c \in callbacks[u], d \in callbacks[v] :
       c.write = d.write => u = v /\ c = d
  /\ \A w \in Writes : answered[w] # "none" => Issued(w)

\* What the callers have seen.
Seen == [w \in Writes |-> Outcome(w)]

\* A step that calls no block and forgets none.
LEMMA NoAnswer ==
  ASSUME AnswerInv, UNCHANGED <<issued, callbacks, answered>>
  PROVE  AnswerInv' /\ Seen' = Seen
<1>1. \A w : Issued(w)' <=> Issued(w)
  BY DEF Issued
<1>2. \A w \in Writes : Outcome(w)' = Outcome(w)
  BY <1>1 DEF Outcome
<1>3. AnswerInv'
  BY <1>1 DEF AnswerInv
<1> QED
  BY <1>2, <1>3 DEF Seen

\* addDocument: the caller waits for its block from here on.
LEMMA WriteIsIssued ==
  ASSUME Inv, AnswerInv, NEW w \in Writes, WriteMutations(w)
  PROVE  AnswerInv' /\ Answers!Issue(w)
<1>1. PICK b : b = [id |-> nextId, write |-> w]
  OBVIOUS
<1>2. /\ ~ Issued(w) /\ answered' = answered /\ issued' = [issued EXCEPT ![user] = Append(@, w)]
      /\ callbacks' = [callbacks EXCEPT ![user] =
                         IF \E c \in @ : c.id = nextId THEN @ ELSE @ \cup {b}]
  BY <1>1 DEF WriteMutations
<1>3. /\ callbacks \in [Users -> SUBSET Batch] /\ user \in Users
      /\ issued \in [Users -> Seq(Writes)] /\ queue \in [Users -> Seq(Batch)]
      /\ nextId \in Nat /\ answered \in [Writes -> Result]
  BY DEF Inv, TypeOK
<1>4. ASSUME NEW c \in callbacks[user] PROVE c.id # nextId
  <2>1. PICK i \in DOMAIN queue[user] : queue[user][i] = c
    <3>1. CallbacksAreQueued
      BY DEF Inv
    <3> QED
      BY <1>3, <3>1 DEF CallbacksAreQueued
  <2>2. c.id < nextId
    <3>1. QueueInv
      BY DEF Inv
    <3> QED
      BY <1>3, <2>1, <3>1 DEF QueueInv
  <2>3. c.id \in Nat
    BY <1>3 DEF Batch
  <2> QED
    BY <1>3, <2>2, <2>3
<1>5. /\ callbacks'[user] = callbacks[user] \cup {b}
      /\ \A u \in Users : u # user => callbacks'[u] = callbacks[u]
  BY <1>2, <1>3, <1>4
<1>6. \A v : Issued(v)' <=> Issued(v) \/ v = w
  <2>1. PICK l \in Seq(Writes) : l = Append(issued[user], w)
    <3>1. \A x \in Seq(Writes) : Append(x, w) \in Seq(Writes)
      OBVIOUS
    <3>2. issued[user] \in Seq(Writes)
      BY <1>3
    <3> QED
      BY <3>1, <3>2, Zenon
  <2>2. /\ DOMAIN l = DOMAIN issued[user] \cup {Len(issued[user]) + 1}
        /\ l[Len(issued[user]) + 1] = w
        /\ \A i \in DOMAIN issued[user] : l[i] = issued[user][i]
    BY <1>3, <2>1
  <2>3. issued'[user] = l /\ \A u \in Users : u # user => issued'[u] = issued[u]
    BY <1>2, <1>3, <2>1
  <2>4. ASSUME NEW v, Issued(v) PROVE Issued(v)'
    BY <2>2, <2>3, <2>4 DEF Issued
  <2>5. Issued(w)'
    BY <1>3, <2>2, <2>3 DEF Issued
  <2>6. ASSUME NEW v, Issued(v)', v # w PROVE Issued(v)
    <3>1. PICK u \in Users : \E i \in DOMAIN issued'[u] : issued'[u][i] = v
      BY <2>6 DEF Issued
    <3>2. PICK i \in DOMAIN issued'[u] : issued'[u][i] = v
      BY <3>1
    <3>3. CASE u = user
      BY <2>2, <2>3, <2>6, <3>2, <3>3 DEF Issued
    <3>4. CASE u # user
      BY <2>3, <3>2, <3>4 DEF Issued
    <3> QED
      BY <3>3, <3>4
  <2> QED
    BY <2>4, <2>5, <2>6
<1>7. answered[w] = "none" /\ ~ Pending(w)
  BY <1>2 DEF AnswerInv, Pending
<1>8. ASSUME NEW u \in Users, NEW c \in callbacks'[u]
      PROVE  \/ c \in callbacks[u] /\ c.write # w
             \/ c = b /\ u = user /\ c.write = w
  BY <1>1, <1>5, <1>7 DEF Pending
<1>9. AnswerInv'
  <2>1. \A u \in Users : \A c \in callbacks'[u] : Issued(c.write)' /\ answered'[c.write] = "none"
    BY <1>2, <1>6, <1>7, <1>8 DEF AnswerInv
  <2>2. \A u, v \in Users : \A c \in callbacks'[u], d \in callbacks'[v] :
          c.write = d.write => u = v /\ c = d
    <3> SUFFICES ASSUME NEW u \in Users, NEW v \in Users, NEW c \in callbacks'[u],
                        NEW d \in callbacks'[v], c.write = d.write
                 PROVE  u = v /\ c = d
      OBVIOUS
    <3>1. CASE c.write = w
      BY <1>8, <3>1
    <3>2. CASE c.write # w
      <4>1. c \in callbacks[u] /\ d \in callbacks[v]
        BY <1>8, <3>2
      <4> QED
        BY <4>1 DEF AnswerInv
    <3> QED
      BY <3>1, <3>2
  <2>3. \A v \in Writes : answered'[v] # "none" => Issued(v)'
    BY <1>2, <1>6 DEF AnswerInv
  <2> QED
    BY <2>1, <2>2, <2>3 DEF AnswerInv
<1>10. Outcome(w) = "unissued" /\ Outcome(w)' = "outstanding"
  <2>1. b \in callbacks'[user] /\ b.write = w
    BY <1>1, <1>5
  <2>2. \E u \in Users : \E c \in callbacks'[u] : c.write = w
    BY <1>3, <2>1
  <2> QED
    BY <1>2, <1>6, <1>7, <2>2 DEF Outcome
<1>11. ASSUME NEW v \in Writes, v # w PROVE Outcome(v)' = Outcome(v)
  <2>1. Pending(v)' <=> Pending(v)
    BY <1>5, <1>8, <1>11 DEF Pending
  <2> QED
    BY <1>2, <1>6, <1>11, <2>1 DEF Outcome, Pending
<1>12. Seen[w] = "unissued" /\ Seen' = [Seen EXCEPT ![w] = "outstanding"]
  BY <1>10, <1>11 DEF Seen
<1> QED
  BY <1>9, <1>12 DEF Answers!Issue, Seen

\* NotifyUser: the block of the batch, if there is one, is called and forgotten.
LEMMA BlockIsCalled ==
  ASSUME Inv, AnswerInv, NEW id, NEW result \in {"ok", "error"}, NotifyUser(id, result),
         issued' = issued
  PROVE  AnswerInv' /\ (Seen' = Seen \/ \E w \in Writes : Answers!Answer(w, result))
<1> DEFINE found == {c \in callbacks[user] : c.id = id}
<1>1. /\ answered' = [w \in Writes |-> IF \E c \in found : c.write = w
                                       THEN result ELSE answered[w]]
      /\ callbacks' = [callbacks EXCEPT ![user] = @ \ found]
  BY DEF NotifyUser
<1>2. /\ answered \in [Writes -> Result] /\ callbacks \in [Users -> SUBSET Batch]
      /\ user \in Users
  BY DEF Inv, TypeOK
<1>3. \A w : Issued(w)' <=> Issued(w)
  BY DEF Issued
<1>4. CASE found = {}
  <2>1. answered' = answered /\ callbacks' = callbacks
    BY <1>1, <1>2, <1>4
  <2> QED
    BY <2>1, NoAnswer
<1>5. CASE found # {}
  <2>1. PICK b : b \in found
    BY <1>5
  <2>2. ASSUME NEW c \in found PROVE c = b
    <3>1. c \in callbacks[user] /\ b \in callbacks[user] /\ c.id = b.id
      BY <2>1
    <3>2. PICK i \in DOMAIN queue[user] : queue[user][i] = c
      BY <1>2, <3>1 DEF Inv, CallbacksAreQueued
    <3>3. PICK j \in DOMAIN queue[user] : queue[user][j] = b
      BY <1>2, <3>1 DEF Inv, CallbacksAreQueued
    <3>4. c.id \in Nat /\ b.id \in Nat
      BY <1>2, <3>1 DEF Batch
    <3>5. i \in Nat /\ j \in Nat
      BY <3>2, <3>3, Parts
    <3>6. ~ (i < j) /\ ~ (j < i)
      BY <3>1, <3>2, <3>3, <3>4, Parts DEF Sorted
    <3> QED
      BY <3>2, <3>3, <3>5, <3>6
  <2>3. b \in callbacks[user] /\ b.write \in Writes
    BY <1>2, <2>1 DEF Batch
  <2>4. /\ \A w \in Writes : answered'[w] = IF w = b.write THEN result ELSE answered[w]
        /\ callbacks'[user] = callbacks[user] \ {b}
        /\ \A u \in Users : u # user => callbacks'[u] = callbacks[u]
    BY <1>1, <1>2, <2>1, <2>2
  <2> HIDE DEF found
  <2>5. ASSUME NEW u \in Users, NEW c \in callbacks'[u]
        PROVE  c \in callbacks[u] /\ c.write # b.write
    <3>1. c \in callbacks[u]
      BY <2>4, <2>5
    <3>2. c.write = b.write => u = user /\ c = b
      BY <1>2, <2>3, <3>1 DEF AnswerInv
    <3> QED
      BY <2>4, <3>1, <3>2
  <2>6. AnswerInv'
    <3>1. ASSUME NEW u \in Users, NEW c \in callbacks'[u]
          PROVE  Issued(c.write)' /\ answered'[c.write] = "none"
      <4>1. c \in callbacks[u] /\ c.write # b.write /\ c.write \in Writes
        BY <1>2, <2>5 DEF Batch
      <4> QED
        BY <1>3, <2>4, <4>1 DEF AnswerInv
    <3>2. \A u, v \in Users : \A c \in callbacks'[u], d \in callbacks'[v] :
            c.write = d.write => u = v /\ c = d
      BY <2>5 DEF AnswerInv
    <3>3. \A w \in Writes : answered'[w] # "none" => Issued(w)'
      BY <1>2, <1>3, <2>3, <2>4 DEF AnswerInv
    <3> QED
      BY <3>1, <3>2, <3>3 DEF AnswerInv
  <2>7. Outcome(b.write) = "outstanding" /\ Outcome(b.write)' = result
    <3>1. Pending(b.write) /\ Issued(b.write) /\ answered[b.write] = "none"
      BY <1>2, <2>3 DEF Pending, AnswerInv
    <3> QED
      BY <2>3, <2>4, <3>1 DEF Outcome, Pending
  <2>8. ASSUME NEW w \in Writes, w # b.write PROVE Outcome(w)' = Outcome(w)
    <3>1. Pending(w)' <=> Pending(w)
      BY <2>4, <2>5, <2>8 DEF Pending
    <3> QED
      BY <1>3, <2>4, <2>8, <3>1 DEF Outcome, Pending
  <2>9. Seen[b.write] = "outstanding" /\ Seen' = [Seen EXCEPT ![b.write] = result]
    BY <2>3, <2>7, <2>8 DEF Seen
  <2> QED
    BY <2>3, <2>6, <2>9 DEF Answers!Answer, Seen
<1> QED
  BY <1>4, <1>5

\* The process dies, and every block with it.
LEMMA BlocksDie ==
  ASSUME Inv, AnswerInv, NEW u \in Users, KillAndLaunch(u)
  PROVE  AnswerInv' /\ Answers!Die
<1>1. UNCHANGED <<issued, answered>> /\ callbacks' = [v \in Users |-> {}]
  BY DEF KillAndLaunch, Launch
<1>2. \A w : Issued(w)' <=> Issued(w)
  BY <1>1 DEF Issued
<1>3. AnswerInv'
  BY <1>1, <1>2 DEF AnswerInv
<1>4. ASSUME NEW w \in Writes
      PROVE  Outcome(w)' = IF Outcome(w) = "outstanding" THEN "forgotten" ELSE Outcome(w)
  <2>1. ~ Pending(w)'
    BY <1>1 DEF Pending
  <2>2. answered[w] \in Result
    BY DEF Inv, TypeOK
  <2> QED
    BY <1>1, <1>2, <2>1, <2>2 DEF Outcome, Pending, Result
<1>5. Seen' = [w \in Writes |-> IF Seen[w] = "outstanding" THEN "forgotten" ELSE Seen[w]]
  BY <1>4 DEF Seen
<1> QED
  BY <1>3, <1>5 DEF Answers!Die, Seen

\* Every step is one of WriteAnswers or none.
LEMMA AnswerStep ==
  ASSUME Inv, AnswerInv, [Next]_vars
  PROVE  AnswerInv' /\ (Answers!Next \/ Seen' = Seen)
<1> DEFINE Kept == AnswerInv' /\ (Answers!Next \/ Seen' = Seen)
<1>1. ASSUME UNCHANGED <<issued, callbacks, answered>> PROVE Kept
  BY <1>1, NoAnswer
<1>2. ASSUME NEW id, NEW result \in {"ok", "error"}, NotifyUser(id, result), issued' = issued
      PROVE  Kept
  BY <1>2, BlockIsCalled DEF Answers!Next
<1>3. ASSUME NEW status, NEW s, CloseWithError(status, s), issued' = issued PROVE Kept
  <2>1. \/ NotifyUser(Head(pipeline).id, "error")
        \/ UNCHANGED <<callbacks, answered>>
    BY <1>3 DEF CloseWithError
  <2> QED
    BY <1>1, <1>2, <1>3, <2>1
<1>4. ASSUME NEW w \in Writes, WriteMutations(w) PROVE Kept
  BY <1>4, WriteIsIssued DEF Answers!Next
<1>5. ASSUME NEW x \in Waiters, WaitForPendingWrites(x) PROVE Kept
  BY <1>1, <1>5 DEF WaitForPendingWrites
<1>6. ASSUME NEW u \in Users, HandleCredentialChange(u) PROVE Kept
  BY <1>1, <1>6 DEF HandleCredentialChange
<1>7. ASSUME NEW u \in Users, KillAndLaunch(u) PROVE Kept
  BY <1>7, BlocksDie DEF Answers!Next
<1>8. CASE DisableNetwork \/ EnableNetwork
  BY <1>1, <1>8 DEF DisableNetwork, EnableNetwork
<1>9. CASE IdleTimeout \/ BackoffElapsed \/ HandshakeComplete
  BY <1>1, <1>9 DEF IdleTimeout, BackoffElapsed, HandshakeComplete
<1>10. ASSUME NEW c \in stream.calls, TokenReceived(c) PROVE Kept
  BY <1>1, <1>10 DEF TokenReceived
<1>11. ASSUME NEW c \in stream.calls, NEW status, TokenRefused(c, status) PROVE Kept
  BY <1>3, <1>11 DEF TokenRefused
<1>12. CASE MutationResult
  <2>1. NotifyUser(Head(pipeline).id, "ok") /\ issued' = issued
    BY <1>12 DEF MutationResult
  <2> QED
    BY <1>2, <2>1
<1>13. CASE AcknowledgeBatch
  BY <1>1, <1>13 DEF AcknowledgeBatch
<1>14. ASSUME NEW status, StreamFinished(status) PROVE Kept
  BY <1>3, <1>14 DEF StreamFinished
<1>15. CASE BackendAnswers
  BY <1>1, <1>15 DEF BackendAnswers
<1>16. ASSUME NEW status, BackendRefuses(status) PROVE Kept
  BY <1>1, <1>16 DEF BackendRefuses
<1>17. ASSUME NEW s \in wire.stray, BackendCommitsStray(s) PROVE Kept
  BY <1>1, <1>17 DEF BackendCommitsStray
<1>18. CASE UNCHANGED vars
  BY <1>1, <1>18 DEF vars
<1> QED
  BY <1>4, <1>5, <1>6, <1>7, <1>8, <1>9, <1>10, <1>11, <1>12, <1>13, <1>14, <1>15,
     <1>16, <1>17, <1>18 DEF Next

\* Nothing was issued at first.
LEMMA AnswersInit == Init => AnswerInv /\ Answers!Init
<1> SUFFICES ASSUME Init PROVE AnswerInv /\ Answers!Init
  OBVIOUS
<1>1. /\ issued = [u \in Users |-> <<>>] /\ callbacks = [u \in Users |-> {}]
      /\ answered = [w \in Writes |-> "none"]
  BY DEF Init
<1>2. \A w : ~ Issued(w)
  BY <1>1 DEF Issued
<1> QED
  BY <1>1, <1>2 DEF AnswerInv, Answers!Init, Outcome

\* A completion block is called at most once, with success or with an error, and only
\* the death of the process forgets one: the client implements WriteAnswers, through
\* any number of user changes, restarts of the batch ids, rejections and kills.
THEOREM WritesAreAnswered == Spec => AnswersSpec
<1>1. Inv /\ AnswerInv /\ [Next]_vars => AnswerInv' /\ [Answers!Next]_Seen
  BY AnswerStep
<1> QED
  BY <1>1, AnswersInit, Invariance, PTL DEF Spec, AnswersSpec, Answers!Spec, Seen

=============================================================================
