---------------------------- MODULE SessionProofs ----------------------------
(***************************************************************************)
(* Theorems about Session, for every set of accounts and number of taps.   *)
(***************************************************************************)
EXTENDS Session, FiniteSetTheorems, TLAPS

USE SessionAssumption DEF vars, device, ui, inFlight, profiles, ghosts

-----------------------------------------------------------------------------
(* Type correctness                                                        *)

\* The disjuncts of a step, one by one.
LEMMA Steps ==
  ASSUME NEW P, Next,
         \A p \in Account : TapLogin(p) => P,
         \A p \in Account : TapNext(p) => P,
         OpenSignup => P,
         BackFromSignup => P,
         FormCloses => P,
         Logout => P,
         \A a \in attempts : AttemptSucceeds(a) => P,
         \A a \in attempts : AttemptFails(a) => P,
         \A f \in fetches : FetchSucceeds(f) => P,
         \A f \in fetches : FetchFails(f) => P,
         SignedOutByAuth => P,
         RunAuthCallback => P,
         RunTokenCallback => P,
         \A p \in Account : DocumentAnswered(p) => P,
         Relaunch => P
  PROVE  P
BY DEF Next, Taps, AuthAnswers, RunMain

\* Queueing a callback keeps the main queue well formed.
LEMMA QueueType ==
  ASSUME mainQueue \in Seq(Callback), NEW c \in Callback
  PROVE  Append(mainQueue, c) \in Seq(Callback)
OBVIOUS

\* The variables of Session keep their types: in particular getIDToken is
\* never called without a user.
THEOREM TypeCorrect == Spec => []TypeOK
<1>1. Init => TypeOK
  <2> SUFFICES ASSUME Init PROVE TypeOK
    OBVIOUS
  <2>1. /\ accounts \subseteq Account /\ currentUser \in User /\ userID \in User
        /\ orphans \subseteq Account
    BY DEF Init, User
  <2>2. token \in BOOLEAN /\ broken \in BOOLEAN /\ forced \in BOOLEAN /\ out \in BOOLEAN
    BY DEF Init
  <2>3. mainQueue \in Seq(Callback) /\ parents \in [Account -> Nat]
    BY DEF Init
  <2>4. formSince \in 0 .. MaxTaps /\ taps \in 0 .. MaxTaps
    BY DEF Init
  <2>5. QED
    BY <2>1, <2>2, <2>3, <2>4 DEF Init, TypeOK
<1>2. TypeOK /\ [Next]_vars => TypeOK'
  <2> SUFFICES ASSUME TypeOK, Next
               PROVE  TypeOK'
    BY DEF TypeOK
  <2>1. ASSUME NEW p \in Account, NEW kind \in {"login", "signup"}, Tap(kind, p)
        PROVE  TypeOK'
    <3>1. [n |-> taps, kind |-> kind, user |-> p] \in Attempt
      BY DEF TypeOK, Attempt
    <3>2. out' \in BOOLEAN
      BY <2>1 DEF Tap
    <3>3. taps' \in 0 .. MaxTaps
      <4>1. taps \in 0 .. MaxTaps /\ taps < MaxTaps /\ taps' = taps + 1
        BY <2>1 DEF Tap, TypeOK
      <4>2. QED
        BY <4>1
    <3>4. attempts' \subseteq Attempt
      BY <2>1, <3>1 DEF Tap, TypeOK
    <3>5. QED
      BY <2>1, <3>2, <3>3, <3>4 DEF Tap, TypeOK
  <2>2. OpenSignup => TypeOK'
    BY DEF OpenSignup, TypeOK
  <2>3. BackFromSignup \/ FormCloses => TypeOK'
    BY DEF BackFromSignup, FormCloses, TypeOK
  <2>4. Logout => TypeOK'
    BY DEF Logout, TypeOK
  <2>5. ASSUME NEW a \in attempts, AttemptSucceeds(a) PROVE TypeOK'
    <3>1. AuthCallback(a, TRUE) \in Callback /\ a.user \in Account
      BY DEF AuthCallback, Callback, TypeOK, Attempt
    <3>2. mainQueue' \in Seq(Callback)
      BY <2>5, <3>1, QueueType DEF AttemptSucceeds, TypeOK
    <3>3. currentUser' \in User /\ accounts' \subseteq Account /\ forced' \in BOOLEAN
      BY <2>5, <3>1 DEF AttemptSucceeds, TypeOK, User
    <3>4. attempts' \subseteq Attempt
      BY <2>5 DEF AttemptSucceeds, TypeOK
    <3>5. QED
      BY <2>5, <3>2, <3>3, <3>4 DEF AttemptSucceeds, TypeOK
  <2>6. ASSUME NEW a \in attempts, AttemptFails(a) PROVE TypeOK'
    <3>1. AuthCallback(a, FALSE) \in Callback /\ a.user \in Account
      BY DEF AuthCallback, Callback, TypeOK, Attempt
    <3>2. mainQueue' \in Seq(Callback)
      BY <2>6, <3>1, QueueType DEF AttemptFails, TypeOK
    <3>3. PICK made \in SUBSET ({a.user} \ accounts) :
             accounts' = accounts \cup made /\ orphans' = orphans \cup made
      BY <2>6 DEF AttemptFails
    <3>4. made \subseteq Account
      BY <3>1, <3>3
    <3>5. QED
      BY <2>6, <3>2, <3>3, <3>4 DEF AttemptFails, TypeOK
  <2>7. ASSUME NEW f \in fetches, FetchSucceeds(f) PROVE TypeOK'
    BY <2>7 DEF FetchSucceeds, TypeOK, TokenCallback, Callback
  <2>8. ASSUME NEW f \in fetches, FetchFails(f) PROVE TypeOK'
    BY <2>8 DEF FetchFails, TypeOK, User
  <2>9. RunAuthCallback => TypeOK'
    <3> SUFFICES ASSUME RunAuthCallback PROVE TypeOK'
      OBVIOUS
    <3> DEFINE a == Head(mainQueue).attempt
               ok == Head(mainQueue).ok
    <3>1. Head(mainQueue) \in Callback /\ mainQueue' \in Seq(Callback)
      BY DEF RunAuthCallback, TypeOK
    <3>2. a \in Attempt /\ ok \in BOOLEAN
      BY <3>1 DEF RunAuthCallback, Callback
    <3>3. TokenFetches(a.n) \subseteq Fetch
      BY <3>2 DEF TokenFetches, Fetch, Attempt, TypeOK, User
    <3>4. DocumentsAdded(a, ok) \subseteq Account
      BY <3>2 DEF DocumentsAdded, Attempt
    <3>5. QED
      BY <3>1, <3>3, <3>4 DEF RunAuthCallback, TypeOK, ScreenAfter
  <2>10. RunTokenCallback => TypeOK'
    <3> SUFFICES ASSUME RunTokenCallback PROVE TypeOK'
      OBVIOUS
    <3>1. mainQueue' \in Seq(Callback)
      BY DEF RunTokenCallback, TypeOK
    <3>2. token' \in BOOLEAN /\ broken' \in BOOLEAN
      BY DEF RunTokenCallback
    <3>3. QED
      BY <3>1, <3>2 DEF RunTokenCallback, TypeOK
  <2>11. ASSUME NEW p \in Account, DocumentAnswered(p) PROVE TypeOK'
    BY <2>11 DEF DocumentAnswered, CreateParent, ParentsWith, TypeOK
  <2>12. Relaunch => TypeOK'
    <3> SUFFICES ASSUME Relaunch PROVE TypeOK'
      OBVIOUS
    <3>1. {a.user : a \in {b \in attempts : b.kind = "signup"}} \subseteq Account
      BY DEF TypeOK, Attempt
    <3>2. accounts' \subseteq Account /\ orphans' \subseteq Account
      BY <3>1 DEF Relaunch, TypeOK
    <3>3. /\ attempts' \subseteq Attempt /\ fetches' \subseteq Fetch
          /\ mainQueue' \in Seq(Callback) /\ writes' \subseteq Account
      BY DEF Relaunch
    <3>4. screen' \in {"login", "signup", "profile"} /\ broken' \in BOOLEAN
      BY DEF Relaunch, FirstScreen
    <3>5. QED
      BY <3>2, <3>3, <3>4 DEF Relaunch, TypeOK
  <2>13. SignedOutByAuth => TypeOK'
    <3> SUFFICES ASSUME SignedOutByAuth PROVE TypeOK'
      OBVIOUS
    <3>1. forced' \in BOOLEAN /\ broken' \in BOOLEAN /\ currentUser' \in User
      BY DEF SignedOutByAuth, User
    <3>2. QED
      BY <3>1 DEF SignedOutByAuth, TypeOK
  <2>14. QED
    BY <2>1, <2>2, <2>3, <2>4, <2>5, <2>6, <2>7, <2>8, <2>9, <2>10, <2>11, <2>12, <2>13,
       Steps DEF TapLogin, TapNext
<1>3. QED
  BY <1>1, <1>2, PTL DEF Spec

-----------------------------------------------------------------------------
(* The stored id                                                           *)

IdInv == IdsAgree /\ NoIdWithoutUser

\* A callback is waiting, so IdsAgree asks nothing of the ids.
LEMMA Queued ==
  ASSUME mainQueue \in Seq(Callback), NEW c, mainQueue' = Append(mainQueue, c)
  PROVE  mainQueue' # <<>>
OBVIOUS

\* Whatever the order of sign-ins, token fetches, logouts and relaunches, the
\* id in UserDefaults is the signed-in user's unless a callback is still to
\* store it or the chain was cut.
THEOREM IdsAgreeHolds == Spec => []IdsAgree
<1>1. Init => IdInv
  BY DEF Init, IdInv, IdsAgree, NoIdWithoutUser
<1>2. TypeOK /\ IdInv /\ [Next]_vars => IdInv'
  <2> SUFFICES ASSUME TypeOK, IdInv, [Next]_vars
               PROVE  IdInv'
    OBVIOUS
  <2> USE DEF IdInv, IdsAgree, NoIdWithoutUser
  <2>0. CASE UNCHANGED vars
    BY <2>0
  <2>1. ASSUME NEW p \in Account, NEW kind \in {"login", "signup"}, Tap(kind, p)
        PROVE  IdInv'
    BY <2>1 DEF Tap
  <2>2. OpenSignup \/ BackFromSignup \/ FormCloses \/ Logout => IdInv'
    BY DEF OpenSignup, BackFromSignup, FormCloses, Logout
  <2>3. ASSUME NEW a \in attempts, AttemptSucceeds(a) PROVE IdInv'
    <3>1. mainQueue' # <<>>
      BY <2>3, Queued DEF AttemptSucceeds, TypeOK
    <3>2. currentUser' # NoUser
      BY <2>3 DEF AttemptSucceeds, TypeOK, Attempt
    <3>3. QED
      BY <3>1, <3>2
  <2>4. ASSUME NEW a \in attempts, AttemptFails(a) PROVE IdInv'
    <3>1. mainQueue' # <<>>
      BY <2>4, Queued DEF AttemptFails, TypeOK
    <3>2. UNCHANGED <<currentUser, userID, broken>>
      BY <2>4 DEF AttemptFails
    <3>3. QED
      BY <3>1, <3>2
  <2>5. ASSUME NEW f \in fetches, FetchSucceeds(f) PROVE IdInv'
    <3>1. mainQueue' # <<>>
      BY <2>5, Queued DEF FetchSucceeds, TypeOK
    <3>2. UNCHANGED <<currentUser, userID, broken>>
      BY <2>5 DEF FetchSucceeds
    <3>3. QED
      BY <3>1, <3>2
  <2>6. ASSUME NEW f \in fetches, FetchFails(f) PROVE IdInv'
    BY <2>6 DEF FetchFails
  <2>7. RunAuthCallback => IdInv'
    <3> SUFFICES ASSUME RunAuthCallback PROVE IdInv'
      OBVIOUS
    <3>1. UNCHANGED <<currentUser, userID, broken>>
      BY DEF RunAuthCallback
    <3>2. CASE currentUser = NoUser
      BY <3>1, <3>2
    <3>3. CASE currentUser # NoUser
      <4>1. fetches' # {}
        BY <3>3 DEF RunAuthCallback, TokenFetches
      <4>2. QED
        BY <3>1, <3>3, <4>1
    <3>4. QED
      BY <3>2, <3>3
  <2>8. RunTokenCallback => IdInv'
    BY DEF RunTokenCallback
  <2>9. ASSUME NEW p \in Account, DocumentAnswered(p) PROVE IdInv'
    BY <2>9 DEF DocumentAnswered
  <2>10. Relaunch => IdInv'
    BY DEF Relaunch
  <2>11. SignedOutByAuth => IdInv'
    BY DEF SignedOutByAuth
  <2>12. QED
    BY <2>0, <2>1, <2>2, <2>3, <2>4, <2>5, <2>6, <2>7, <2>8, <2>9, <2>10, <2>11, Steps
       DEF TapLogin, TapNext
<1>3. IdInv => IdsAgree
  BY DEF IdInv
<1>4. QED
  BY <1>1, <1>2, <1>3, TypeCorrect, PTL DEF Spec

-----------------------------------------------------------------------------
(* The user of a profile                                                   *)

\* A profile without a user is the work of a forced sign-out alone: before
\* the first successful sign-in no callback opens one or stores a token.
THEOREM ProfileHasUserHolds == Spec => []ProfileHasUser
<1>1. Init => NeverSignedIn
  BY DEF Init, NeverSignedIn, OnlyFailures
<1>2. TypeOK /\ NeverSignedIn /\ [Next]_vars => NeverSignedIn'
  <2> SUFFICES ASSUME TypeOK, NeverSignedIn, [Next]_vars,
                      currentUser' = NoUser, ~ forced'
               PROVE  ~ token' /\ screen' # "profile" /\ fetches' = {} /\ OnlyFailures'
    BY DEF NeverSignedIn
  <2> DEFINE Goal == ~ token' /\ screen' # "profile" /\ fetches' = {} /\ OnlyFailures'
             Before == ~ token /\ screen # "profile" /\ fetches = {} /\ OnlyFailures
  <2>0. CASE UNCHANGED vars
    BY <2>0 DEF NeverSignedIn, OnlyFailures
  <2>1. ASSUME NEW p \in Account, NEW kind \in {"login", "signup"}, Tap(kind, p)
        PROVE  Goal
    BY <2>1 DEF Tap, NeverSignedIn, OnlyFailures
  <2>2. OpenSignup \/ BackFromSignup \/ FormCloses \/ Logout => Goal
    BY DEF OpenSignup, BackFromSignup, FormCloses, Logout, NeverSignedIn, OnlyFailures
  <2>3. ASSUME NEW a \in attempts, AttemptSucceeds(a) PROVE Goal
    BY <2>3 DEF AttemptSucceeds, TypeOK, Attempt
  <2>4. ASSUME NEW a \in attempts, AttemptFails(a) PROVE Goal
    <3>1. Before /\ UNCHANGED <<token, screen, fetches>>
      BY <2>4 DEF AttemptFails, NeverSignedIn
    <3> DEFINE c == AuthCallback(a, FALSE)
    <3>2. c.kind = "auth" /\ ~ c.ok
      BY DEF AuthCallback
    <3>3. mainQueue' = Append(mainQueue, c) /\ mainQueue \in Seq(Callback)
      BY <2>4 DEF AttemptFails, TypeOK
    <3> HIDE DEF c
    <3>4. OnlyFailures'
      BY <3>1, <3>2, <3>3 DEF OnlyFailures
    <3>5. QED
      BY <3>1, <3>4
  <2>5. ASSUME NEW f \in fetches, FetchSucceeds(f) PROVE Goal
    BY <2>5 DEF FetchSucceeds, NeverSignedIn
  <2>6. ASSUME NEW f \in fetches, FetchFails(f) PROVE Goal
    BY <2>6 DEF FetchFails, NeverSignedIn
  <2>7. RunAuthCallback => Goal
    <3> SUFFICES ASSUME RunAuthCallback PROVE Goal
      OBVIOUS
    <3>1. Before
      BY DEF RunAuthCallback, NeverSignedIn
    <3>2. ~ Head(mainQueue).ok
      BY <3>1 DEF RunAuthCallback, OnlyFailures, TypeOK
    <3>3. ~ token' /\ screen' # "profile"
      BY <3>1, <3>2 DEF RunAuthCallback, ScreenAfter
    <3>4. fetches' = {}
      BY <3>1 DEF RunAuthCallback, TokenFetches
    <3>5. OnlyFailures'
      <4>1. mainQueue' = Tail(mainQueue) /\ mainQueue \in Seq(Callback) /\ mainQueue # <<>>
        BY DEF RunAuthCallback, TypeOK
      <4>2. QED
        BY <3>1, <4>1 DEF OnlyFailures
    <3>6. QED
      BY <3>3, <3>4, <3>5
  <2>8. RunTokenCallback => Goal
    <3> SUFFICES ASSUME RunTokenCallback PROVE FALSE
      OBVIOUS
    <3>1. OnlyFailures
      BY DEF RunTokenCallback, NeverSignedIn
    <3>2. QED
      BY <3>1 DEF RunTokenCallback, OnlyFailures, TypeOK
  <2>9. ASSUME NEW p \in Account, DocumentAnswered(p) PROVE Goal
    BY <2>9 DEF DocumentAnswered, NeverSignedIn, OnlyFailures
  <2>10. Relaunch => Goal
    BY DEF Relaunch, NeverSignedIn, OnlyFailures, FirstScreen
  <2>11. SignedOutByAuth => Goal
    BY DEF SignedOutByAuth
  <2>12. QED
    BY <2>0, <2>1, <2>2, <2>3, <2>4, <2>5, <2>6, <2>7, <2>8, <2>9, <2>10, <2>11, Steps
       DEF TapLogin, TapNext
<1>3. NeverSignedIn => ProfileHasUser
  BY DEF NeverSignedIn, ProfileHasUser
<1>4. QED
  BY <1>1, <1>2, <1>3, TypeCorrect, PTL DEF Spec

-----------------------------------------------------------------------------
(* Logging out                                                             *)

\* What a quiet logout leaves behind until the next tap.
LoggedOut ==
  out => ~ token /\ screen # "profile" /\ attempts = {} /\ fetches = {} /\ mainQueue = <<>>

\* However often the app is launched after a logout with nothing outstanding,
\* and whatever Auth and Firestore do on their own, no profile comes back
\* until somebody taps Login or Next.
THEOREM LogoutHoldsAlways == Spec => []LogoutHolds
<1>1. Init => LoggedOut
  BY DEF Init, LoggedOut
<1>2. TypeOK /\ LoggedOut /\ [Next]_vars => LoggedOut'
  <2> SUFFICES ASSUME TypeOK, LoggedOut, [Next]_vars
               PROVE  LoggedOut'
    OBVIOUS
  <2> USE DEF LoggedOut
  <2>0. CASE UNCHANGED vars
    BY <2>0
  <2>1. ASSUME NEW p \in Account, NEW kind \in {"login", "signup"}, Tap(kind, p)
        PROVE  LoggedOut'
    BY <2>1 DEF Tap
  <2>2. ASSUME OpenSignup \/ BackFromSignup \/ FormCloses PROVE LoggedOut'
    <3>1. /\ UNCHANGED <<out, token, attempts, fetches, mainQueue>>
          /\ screen' = screen \/ screen' # "profile"
      BY <2>2 DEF OpenSignup, BackFromSignup, FormCloses
    <3>2. QED
      BY <3>1
  <2>3. Logout => LoggedOut'
    BY DEF Logout
  <2>4. ASSUME NEW a \in attempts, AttemptSucceeds(a) \/ AttemptFails(a) PROVE LoggedOut'
    BY <2>4 DEF AttemptSucceeds, AttemptFails
  <2>5. ASSUME NEW f \in fetches, FetchSucceeds(f) \/ FetchFails(f) PROVE LoggedOut'
    BY <2>5 DEF FetchSucceeds, FetchFails
  <2>6. RunAuthCallback \/ RunTokenCallback => LoggedOut'
    BY DEF RunAuthCallback, RunTokenCallback
  <2>7. ASSUME NEW p \in Account, DocumentAnswered(p) PROVE LoggedOut'
    BY <2>7 DEF DocumentAnswered
  <2>8. Relaunch => LoggedOut'
    BY DEF Relaunch, FirstScreen
  <2>9. SignedOutByAuth => LoggedOut'
    BY DEF SignedOutByAuth
  <2>10. QED
    BY <2>0, <2>1, <2>2, <2>3, <2>4, <2>5, <2>6, <2>7, <2>8, <2>9, Steps
       DEF TapLogin, TapNext
<1>3. LoggedOut => LogoutHolds
  BY DEF LoggedOut, LogoutHolds
<1>4. QED
  BY <1>1, <1>2, <1>3, TypeCorrect, PTL DEF Spec

-----------------------------------------------------------------------------
(* One Parent for every account                                            *)

\* The callback c will add the document of account p.
Adds(c, p) == c.kind = "auth" /\ p \in DocumentsAdded(c.attempt, c.ok)

Calls(q, p) == {i \in 1 .. Len(q) : Adds(q[i], p)}

\* 0 or 1, to count with.
Bit(b) == IF b THEN 1 ELSE 0

LEMMA BitOfSet ==
  ASSUME NEW p, NEW S
  PROVE  Cardinality({p} \cap S) = Bit(p \in S)
<1>1. CASE p \in S
  <2>1. {p} \cap S = {p}
    BY <1>1
  <2>2. QED
    BY <1>1, <2>1, FS_Singleton DEF Bit
<1>2. CASE p \notin S
  <2>1. {p} \cap S = {}
    BY <1>2
  <2>2. QED
    BY <1>2, <2>1, FS_EmptySet DEF Bit
<1>3. QED
  BY <1>1, <1>2

LEMMA CallsFinite ==
  ASSUME NEW q \in Seq(Callback), NEW p
  PROVE  IsFiniteSet(Calls(q, p)) /\ Cardinality(Calls(q, p)) \in Nat
<1>1. IsFiniteSet(1 .. Len(q))
  BY FS_Interval
<1>2. Calls(q, p) \in SUBSET (1 .. Len(q))
  BY DEF Calls
<1>3. IsFiniteSet(Calls(q, p))
  BY <1>1, <1>2, FS_Subset
<1>4. QED
  BY <1>3, FS_CardinalityType

\* Queueing a callback adds its own call to the count, at the end.
LEMMA CallsOfAppend ==
  ASSUME NEW q \in Seq(Callback), NEW c \in Callback, NEW p
  PROVE  Cardinality(Calls(Append(q, c), p)) = Cardinality(Calls(q, p)) + Bit(Adds(c, p))
<1>1. Calls(Append(q, c), p) =
        Calls(q, p) \cup (IF Adds(c, p) THEN {Len(q) + 1} ELSE {})
  BY DEF Calls
<1>2. Len(q) + 1 \notin Calls(q, p)
  BY DEF Calls
<1>3. IsFiniteSet(Calls(q, p)) /\ Cardinality(Calls(q, p)) \in Nat
  BY CallsFinite
<1>4. CASE Adds(c, p)
  <2>1. Cardinality(Calls(q, p) \cup {Len(q) + 1}) = Cardinality(Calls(q, p)) + 1
    BY <1>2, <1>3, FS_AddElement
  <2>2. QED
    BY <1>1, <1>4, <2>1 DEF Bit
<1>5. CASE ~ Adds(c, p)
  <2>1. Calls(Append(q, c), p) = Calls(q, p)
    BY <1>1, <1>5
  <2>2. QED
    BY <1>3, <1>5, <2>1 DEF Bit
<1>6. QED
  BY <1>4, <1>5

\* Running the first callback takes its call from the count and moves the
\* others up.
LEMMA CallsOfTail ==
  ASSUME NEW q \in Seq(Callback), q # <<>>, NEW p
  PROVE  Cardinality(Calls(q, p)) = Cardinality(Calls(Tail(q), p)) + Bit(Adds(Head(q), p))
<1> DEFINE Later == Calls(q, p) \ {1}
           f == [i \in Later |-> i - 1]
<1>1. IsFiniteSet(Calls(q, p)) /\ Cardinality(Calls(q, p)) \in Nat
  BY CallsFinite
<1>2. 1 \in Calls(q, p) <=> Adds(Head(q), p)
  BY DEF Calls
<1>3. /\ IsFiniteSet(Later) /\ Cardinality(Later) \in Nat
      /\ Cardinality(Calls(q, p)) = Cardinality(Later) + Bit(Adds(Head(q), p))
  <2>1. /\ IsFiniteSet(Later)
        /\ Cardinality(Later) = IF 1 \in Calls(q, p) THEN Cardinality(Calls(q, p)) - 1
                                ELSE Cardinality(Calls(q, p))
    BY <1>1, FS_RemoveElement
  <2>2. Cardinality(Later) \in Nat
    BY <2>1, FS_CardinalityType
  <2>3. QED
    BY <1>1, <1>2, <2>1, <2>2 DEF Bit
<1>4. \A i \in Later : i \in 2 .. Len(q) /\ i - 1 \in Calls(Tail(q), p)
  <2> TAKE i \in Later
  <2>1. i \in 2 .. Len(q) /\ Adds(q[i], p)
    BY DEF Calls
  <2>2. i - 1 \in 1 .. Len(Tail(q)) /\ Tail(q)[i - 1] = q[i]
    BY <2>1
  <2>3. QED
    BY <2>1, <2>2 DEF Calls
<1>5. \A j \in Calls(Tail(q), p) : j \in Nat /\ j + 1 \in Later
  <2> TAKE j \in Calls(Tail(q), p)
  <2>1. j \in 1 .. Len(Tail(q)) /\ Adds(Tail(q)[j], p)
    BY DEF Calls
  <2>2. j + 1 \in 2 .. Len(q) /\ Tail(q)[j] = q[j + 1]
    BY <2>1
  <2>3. QED
    BY <2>1, <2>2 DEF Calls
<1>6. f \in Bijection(Later, Calls(Tail(q), p))
  <2>1. f \in [Later -> Calls(Tail(q), p)]
    BY <1>4
  <2>2. \A i, j \in Later : f[i] = f[j] => i = j
    BY <1>4
  <2>3. \A j \in Calls(Tail(q), p) : \E i \in Later : f[i] = j
    <3> TAKE j \in Calls(Tail(q), p)
    <3>1. j + 1 \in Later /\ f[j + 1] = j
      BY <1>5
    <3>2. QED
      BY <3>1
  <2> HIDE DEF f, Later
  <2>4. QED
    BY <2>1, <2>2, <2>3 DEF Bijection, Injection, IsInjective, Surjection
<1>7. Cardinality(Calls(Tail(q), p)) = Cardinality(Later)
  BY <1>3, <1>6, FS_Bijection DEF ExistsBijection
<1>8. QED
  BY <1>3, <1>7

\* ParentOnce in terms of the count.
Accounted(p) ==
  parents[p] + Cardinality(Calls(mainQueue, p)) + Bit(p \in writes) + Bit(p \in orphans)
  = Bit(p \in accounts)

LEMMA ParentOnceByCount == ParentOnce <=> \A p \in Account : Accounted(p)
<1>1. ASSUME NEW p \in Account
      PROVE  Calls(mainQueue, p) =
               {i \in 1 .. Len(mainQueue) :
                  /\ mainQueue[i].kind = "auth"
                  /\ p \in DocumentsAdded(mainQueue[i].attempt, mainQueue[i].ok)}
  BY DEF Calls, Adds
<1>2. QED
  BY <1>1, BitOfSet DEF ParentOnce, Accounted
\* However sign-ups, failed answers, lost answers, kills and Firestore's late
\* completions interleave, an account made on this phone has exactly one
\* Parent made, under way or given up.
THEOREM ParentOnceHolds == Spec => []ParentOnce
<1> DEFINE Inv == \A p \in Account : Accounted(p)
<1>1. Init => Inv
  <2> SUFFICES ASSUME Init, NEW p \in Account PROVE Accounted(p)
    OBVIOUS
  <2>1. Calls(mainQueue, p) = {}
    BY DEF Init, Calls
  <2>2. Cardinality(Calls(mainQueue, p)) = 0
    BY <2>1, FS_EmptySet
  <2>3. parents[p] = 0 /\ writes = {} /\ orphans = accounts
    BY DEF Init
  <2>4. QED
    BY <2>2, <2>3 DEF Accounted, Bit
<1>2. TypeOK /\ Inv /\ [Next]_vars => Inv'
  <2> SUFFICES ASSUME TypeOK, Inv, [Next]_vars, NEW p \in Account
               PROVE  Accounted(p)'
    OBVIOUS
  <2> DEFINE called == Cardinality(Calls(mainQueue, p))
  <2>t. mainQueue \in Seq(Callback) /\ parents[p] \in Nat /\ called \in Nat
    BY CallsFinite DEF TypeOK
  <2>i. Accounted(p)
    OBVIOUS
  <2>u. ASSUME UNCHANGED <<accounts, writes, parents, orphans, mainQueue>>
        PROVE  Accounted(p)'
    BY <2>i, <2>u DEF Accounted
  <2>0. CASE UNCHANGED vars
    BY <2>0, <2>u
  <2>1. ASSUME NEW r \in Account, NEW kind \in {"login", "signup"}, Tap(kind, r)
        PROVE  Accounted(p)'
    BY <2>1, <2>u DEF Tap
  <2>2. OpenSignup \/ BackFromSignup \/ FormCloses \/ Logout => Accounted(p)'
    BY <2>u DEF OpenSignup, BackFromSignup, FormCloses, Logout
  <2>3. ASSUME NEW a \in attempts, AttemptSucceeds(a) PROVE Accounted(p)'
    <3> DEFINE c == AuthCallback(a, TRUE)
    <3>1. a \in Attempt
      BY DEF TypeOK
    <3>2. c \in Callback
      BY <3>1 DEF AuthCallback, Callback
    <3>3. Adds(c, p) <=> a.kind = "signup" /\ p = a.user
      BY DEF Adds, AuthCallback, DocumentsAdded
    <3>4. /\ mainQueue' = Append(mainQueue, c)
          /\ UNCHANGED <<writes, parents, orphans>>
          /\ accounts' = accounts \cup {a.user}
          /\ IF a.kind = "login" THEN a.user \in accounts ELSE a.user \notin accounts
      BY <2>3 DEF AttemptSucceeds
    <3> HIDE DEF c
    <3>5. called' = called + Bit(Adds(c, p))
      BY <2>t, <3>2, <3>4, CallsOfAppend
    <3>6. CASE a.kind = "signup" /\ p = a.user
      <4>1. called' = called + 1 /\ p \notin accounts /\ p \in accounts'
        BY <3>3, <3>4, <3>5, <3>6 DEF Bit
      <4>2. QED
        BY <2>t, <2>i, <3>4, <4>1 DEF Accounted, Bit
    <3>7. CASE ~ (a.kind = "signup" /\ p = a.user)
      <4>1. called' = called
        BY <2>t, <3>3, <3>5, <3>7 DEF Bit
      <4>2. p \in accounts' <=> p \in accounts
        BY <3>1, <3>4, <3>7 DEF Attempt
      <4>3. QED
        BY <2>t, <2>i, <3>4, <4>1, <4>2 DEF Accounted, Bit
    <3>8. QED
      BY <3>6, <3>7
  <2>4. ASSUME NEW a \in attempts, AttemptFails(a) PROVE Accounted(p)'
    <3> DEFINE c == AuthCallback(a, FALSE)
    <3>1. a \in Attempt
      BY DEF TypeOK
    <3>2. c \in Callback /\ ~ Adds(c, p)
      BY <3>1 DEF AuthCallback, Callback, Adds, DocumentsAdded
    <3>3. mainQueue' = Append(mainQueue, c) /\ UNCHANGED <<writes, parents>>
      BY <2>4 DEF AttemptFails
    <3>4. PICK made \in SUBSET ({a.user} \ accounts) :
             accounts' = accounts \cup made /\ orphans' = orphans \cup made
      BY <2>4 DEF AttemptFails
    <3> HIDE DEF c
    <3>5. called' = called
      <4>1. called' = called + Bit(Adds(c, p))
        BY <2>t, <3>2, <3>3, CallsOfAppend
      <4>2. QED
        BY <2>t, <3>2, <4>1 DEF Bit
    <3>6. CASE p \in made
      <4>1. p \notin accounts /\ p \in accounts' /\ p \in orphans'
        BY <3>4, <3>6
      <4>2. p \notin orphans
        BY <2>t, <2>i, <4>1 DEF Accounted, Bit
      <4>3. QED
        BY <2>t, <2>i, <3>3, <3>5, <4>1, <4>2 DEF Accounted, Bit
    <3>7. CASE p \notin made
      <4>1. (p \in accounts' <=> p \in accounts) /\ (p \in orphans' <=> p \in orphans)
        BY <3>4, <3>7
      <4>2. QED
        BY <2>t, <2>i, <3>3, <3>5, <4>1 DEF Accounted, Bit
    <3>8. QED
      BY <3>6, <3>7
  <2>5. ASSUME NEW f \in fetches, FetchSucceeds(f) PROVE Accounted(p)'
    <3>1. TokenCallback \in Callback /\ ~ Adds(TokenCallback, p)
      BY DEF TokenCallback, Callback, Adds
    <3>2. mainQueue' = Append(mainQueue, TokenCallback)
          /\ UNCHANGED <<accounts, writes, parents, orphans>>
      BY <2>5 DEF FetchSucceeds
    <3>3. called' = called + Bit(Adds(TokenCallback, p))
      BY <2>t, <3>1, <3>2, CallsOfAppend
    <3>4. called' = called
      BY <2>t, <3>1, <3>3 DEF Bit
    <3>5. QED
      BY <2>i, <3>2, <3>4 DEF Accounted
  <2>6. ASSUME NEW f \in fetches, FetchFails(f) PROVE Accounted(p)'
    BY <2>6, <2>u DEF FetchFails
  <2>7. RunAuthCallback => Accounted(p)'
    <3> SUFFICES ASSUME RunAuthCallback PROVE Accounted(p)'
      OBVIOUS
    <3> DEFINE c == Head(mainQueue)
    <3>1. mainQueue # <<>> /\ mainQueue' = Tail(mainQueue)
          /\ UNCHANGED <<accounts, parents, orphans>>
      BY DEF RunAuthCallback
    <3>2. p \in writes' <=> p \in writes \/ Adds(c, p)
      BY DEF RunAuthCallback, Adds
    <3> HIDE DEF c
    <3>3. called = called' + Bit(Adds(c, p)) /\ called' \in Nat
      <4>1. mainQueue' \in Seq(Callback)
        BY <2>t, <3>1
      <4>2. QED
        BY <2>t, <3>1, <4>1, CallsOfTail, CallsFinite DEF c
    <3>4. Adds(c, p) => p \notin writes
      BY <2>t, <2>i, <3>3 DEF Accounted, Bit
    <3>5. QED
      BY <2>t, <2>i, <3>1, <3>2, <3>3, <3>4 DEF Accounted, Bit
  <2>8. RunTokenCallback => Accounted(p)'
    <3> SUFFICES ASSUME RunTokenCallback PROVE Accounted(p)'
      OBVIOUS
    <3>1. mainQueue # <<>> /\ mainQueue' = Tail(mainQueue)
          /\ UNCHANGED <<accounts, writes, parents, orphans>>
      BY DEF RunTokenCallback
    <3>2. ~ Adds(Head(mainQueue), p)
      BY DEF RunTokenCallback, Adds
    <3>3. called = called' + Bit(Adds(Head(mainQueue), p)) /\ called' \in Nat
      <4>1. mainQueue' \in Seq(Callback)
        BY <2>t, <3>1
      <4>2. QED
        BY <2>t, <3>1, <4>1, CallsOfTail, CallsFinite
    <3>4. called' = called
      BY <3>2, <3>3 DEF Bit
    <3>5. QED
      BY <2>i, <3>1, <3>4 DEF Accounted
  <2>9. ASSUME NEW r \in Account, DocumentAnswered(r) PROVE Accounted(p)'
    <3>1. UNCHANGED <<accounts, mainQueue>> /\ r \in writes /\ writes' = writes \ {r}
      BY <2>9 DEF DocumentAnswered
    \* Every other account's writes and Parents are untouched.
    <3>2. CASE parents' = ParentsWith(r) /\ UNCHANGED orphans
      <4>1. parents'[p] = parents[p] + Bit(p = r)
        BY <3>2 DEF ParentsWith, TypeOK, Bit
      <4>2. QED
        BY <2>t, <2>i, <3>1, <3>2, <4>1 DEF Accounted, Bit
    \* The save failed: a document in flight and a Parent lost before are two of
    \* one account, so r was not lost before.
    <3>3. CASE orphans' = orphans \cup {r} /\ UNCHANGED parents
      <4>1. p \in writes => p \notin orphans
        BY <2>t, <2>i DEF Accounted, Bit
      <4>2. QED
        BY <2>t, <2>i, <3>1, <3>3, <4>1 DEF Accounted, Bit
    <3>4. QED
      BY <2>9, <3>2, <3>3 DEF DocumentAnswered, CreateParent
  <2>10. Relaunch => Accounted(p)'
    <3> SUFFICES ASSUME Relaunch PROVE Accounted(p)'
      OBVIOUS
    <3> DEFINE cut == {r \in Account : \E i \in 1 .. Len(mainQueue) :
                         /\ mainQueue[i].kind = "auth"
                         /\ r \in DocumentsAdded(mainQueue[i].attempt, mainQueue[i].ok)}
    <3>1. PICK made \in SUBSET ({a.user : a \in {b \in attempts : b.kind = "signup"}} \ accounts) :
             /\ accounts' = accounts \cup made
             /\ orphans' = orphans \cup made \cup writes \cup cut
      BY DEF Relaunch
    <3>2. p \in cut <=> called > 0
      <4>1. p \in cut <=> Calls(mainQueue, p) # {}
        BY DEF Calls, Adds
      <4>2. called = 0 <=> Calls(mainQueue, p) = {}
        BY <2>t, CallsFinite, FS_EmptySet
      <4>3. QED
        BY <2>t, <4>1, <4>2
    <3>3. called' = 0
      <4>1. Calls(mainQueue, p)' = {}
        BY DEF Relaunch, Calls
      <4>2. QED
        BY <4>1, FS_EmptySet
    <3>4. p \notin writes' /\ parents' = parents
      BY DEF Relaunch
    <3> HIDE DEF cut, called
    <3>5. CASE p \in made
      <4>1. p \notin accounts /\ p \in accounts' /\ p \in orphans'
        BY <3>1, <3>5
      <4>2. parents[p] = 0
        BY <2>t, <2>i, <4>1 DEF Accounted, Bit, called
      <4>3. QED
        BY <3>3, <3>4, <4>1, <4>2 DEF Accounted, Bit, called
    <3>6. CASE p \notin made
      <4>1. /\ p \in accounts' <=> p \in accounts
            /\ p \in orphans' <=> p \in orphans \/ p \in writes \/ called > 0
        BY <3>1, <3>2, <3>6
      <4>2. QED
        BY <2>t, <2>i, <3>3, <3>4, <4>1 DEF Accounted, Bit, called
    <3>7. QED
      BY <3>5, <3>6
  <2>11. SignedOutByAuth => Accounted(p)'
    BY <2>u DEF SignedOutByAuth
  <2>12. QED
    BY <2>0, <2>1, <2>2, <2>3, <2>4, <2>5, <2>6, <2>7, <2>8, <2>9, <2>10, <2>11, Steps
       DEF TapLogin, TapNext
<1>3. Inv <=> ParentOnce
  BY ParentOnceByCount
<1>4. QED
  BY <1>1, <1>2, <1>3, TypeCorrect, PTL DEF Spec

=============================================================================
