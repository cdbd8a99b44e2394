------------------------------- MODULE Session -------------------------------
(***************************************************************************)
(* Accounts on one phone: the login and sign-up screens, Firebase Auth,    *)
(* the credentials SantaIWishController keeps in UserDefaults, logout and  *)
(* relaunch.  Auth works on its own queue and answers through callbacks on *)
(* the main queue; between a tap and the stored credentials there are two  *)
(* of them.                                                                *)
(***************************************************************************)
EXTENDS Naturals, Sequences, FiniteSets

CONSTANTS
  Account,  \* e-mail addresses that can have an account
  NoUser,   \* nil
  MaxTaps   \* bound: taps on Login and Next

ASSUME SessionAssumption ==
  /\ NoUser \notin Account
  /\ MaxTaps \in Nat

VARIABLES
  accounts,     \* accounts that exist on the Firebase server
  currentUser,  \* Auth.auth().currentUser, kept in the keychain
  token,        \* is there a "token" in UserDefaults?
  userID,       \* "userID" in UserDefaults
  screen,       \* the screen on top
  formSince,    \* value of taps when the sign-up form was opened
  closing,      \* it was left, and its animated transition has not ended
  taps,         \* taps so far
  attempts,     \* sign-ins and sign-ups Auth is working on
  fetches,      \* getIDToken calls Auth is working on
  mainQueue,    \* callbacks waiting for the main thread
  writes,       \* accounts whose addDocument call is not answered
  parents,      \* Parent objects saved, by account
  broken,       \* history: the last chain of callbacks was cut
  orphans,      \* history: accounts that will have no Parent here
  forced,       \* history: Auth signed the user out by itself
  out           \* history: logged out with no callback outstanding, no tap since

device == <<currentUser, token, userID>>
ui == <<screen, formSince, closing, taps>>
inFlight == <<attempts, fetches, mainQueue>>
profiles == <<accounts, writes, parents, orphans>>
ghosts == <<broken, forced, out>>
vars == <<device, ui, inFlight, profiles, ghosts>>

User == Account \cup {NoUser}

Attempt == [n : 0 .. MaxTaps, kind : {"login", "signup"}, user : Account]

\* A token fetch captures the user it was started for; two of them started by
\* different taps are different calls.
Fetch == [n : 0 .. MaxTaps, user : Account]

Callback == [kind : {"auth"}, attempt : Attempt, ok : BOOLEAN] \cup [kind : {"token"}]

TokenCallback == [kind |-> "token"]

TypeOK ==
  /\ accounts \subseteq Account
  /\ currentUser \in User
  /\ token \in BOOLEAN
  /\ userID \in User
  /\ screen \in {"login", "signup", "profile"}
  /\ formSince \in 0 .. MaxTaps
  /\ closing \in BOOLEAN
  /\ taps \in 0 .. MaxTaps
  /\ attempts \subseteq Attempt
  /\ fetches \subseteq Fetch
  /\ mainQueue \in Seq(Callback)
  /\ writes \subseteq Account
  /\ parents \in [Account -> Nat]
  /\ broken \in BOOLEAN
  /\ orphans \subseteq Account
  /\ forced \in BOOLEAN
  /\ out \in BOOLEAN

\* A new phone; some of the accounts were made on another one.
Init ==
  /\ accounts \in SUBSET Account
  /\ currentUser = NoUser
  /\ token = FALSE
  /\ userID = NoUser
  /\ screen = "login"
  /\ formSince = 0
  /\ closing = FALSE
  /\ taps = 0
  /\ attempts = {}
  /\ fetches = {}
  /\ mainQueue = <<>>
  /\ writes = {}
  /\ parents = [p \in Account |-> 0]
  /\ broken = FALSE
  /\ orphans = accounts
  /\ forced = FALSE
  /\ out = FALSE

-----------------------------------------------------------------------------
(* Taps.                                                                   *)

Tap(kind, p) ==
  /\ taps < MaxTaps
  /\ taps' = taps + 1
  /\ attempts' = attempts \cup {[n |-> taps, kind |-> kind, user |-> p]}
  /\ out' = FALSE
  /\ UNCHANGED <<device, screen, formSince, closing, fetches, mainQueue, profiles, broken, forced>>

TapLogin(p) == screen = "login" /\ Tap("login", p)

TapNext(p) == screen = "signup" /\ Tap("signup", p)

OpenSignup ==
  /\ screen = "login"
  /\ screen' = "signup"
  /\ formSince' = taps
  /\ closing' = FALSE
  /\ UNCHANGED <<device, taps, inFlight, profiles, ghosts>>

BackFromSignup ==
  /\ screen = "signup"
  /\ screen' = "login"
  /\ closing' = TRUE
  /\ UNCHANGED <<device, formSince, taps, inFlight, profiles, ghosts>>

\* A form keeps its navigation controller until its transition has ended.
FormCloses ==
  /\ closing
  /\ closing' = FALSE
  /\ UNCHANGED <<device, screen, formSince, taps, inFlight, profiles, ghosts>>

\* The unwind segue from the profile: only the token is removed, Auth keeps
\* its user and UserDefaults the user's id.  A sign-up form below the profile
\* goes with it.
Logout ==
  /\ screen = "profile"
  /\ screen' = "login"
  /\ token' = FALSE
  /\ closing' \in BOOLEAN
  /\ out' = (attempts = {} /\ fetches = {} /\ mainQueue = <<>>)
  /\ UNCHANGED <<currentUser, userID, formSince, taps, inFlight, profiles, broken, forced>>

-----------------------------------------------------------------------------
(* Auth.                                                                   *)

AuthCallback(a, ok) == [kind |-> "auth", attempt |-> a, ok |-> ok]

\* Auth makes the account its current user first, then queues the callback.
AttemptSucceeds(a) ==
  /\ a \in attempts
  /\ attempts' = attempts \ {a}
  /\ IF a.kind = "login" THEN a.user \in accounts ELSE a.user \notin accounts
  /\ accounts' = accounts \cup {a.user}
  /\ currentUser' = a.user
  /\ mainQueue' = Append(mainQueue, AuthCallback(a, TRUE))
  /\ forced' = FALSE
  /\ UNCHANGED <<token, userID, ui, fetches, writes, parents, orphans, broken, out>>

\* A wrong password, an address in use, or an answer that was lost: then the
\* account may have been made on the server all the same.
AttemptFails(a) ==
  /\ a \in attempts
  /\ attempts' = attempts \ {a}
  /\ \E made \in SUBSET ({a.user} \ accounts) :
       /\ a.kind = "login" => made = {}
       /\ accounts' = accounts \cup made
       /\ orphans' = orphans \cup made
  /\ mainQueue' = Append(mainQueue, AuthCallback(a, FALSE))
  /\ UNCHANGED <<device, ui, fetches, writes, parents, ghosts>>

\* getIDToken answers with a token.
FetchSucceeds(f) ==
  /\ f \in fetches
  /\ fetches' = fetches \ {f}
  /\ mainQueue' = Append(mainQueue, TokenCallback)
  /\ UNCHANGED <<device, ui, attempts, profiles, ghosts>>

\* getIDToken answers with an error, which the completion only logs; when the
\* server refused the refresh, Auth also signs that user out.
FetchFails(f) ==
  /\ f \in fetches
  /\ fetches' = fetches \ {f}
  /\ broken' = TRUE
  /\ \/ UNCHANGED <<currentUser, forced>>
     \/ f.user = currentUser /\ currentUser' = NoUser /\ forced' = TRUE
  /\ UNCHANGED <<token, userID, ui, attempts, mainQueue, profiles, out>>

\* The token Auth keeps fresh for Firestore is refused by the server.
SignedOutByAuth ==
  /\ currentUser # NoUser
  /\ currentUser' = NoUser
  /\ forced' = TRUE
  /\ broken' = TRUE
  /\ UNCHANGED <<token, userID, ui, inFlight, profiles, out>>

-----------------------------------------------------------------------------
(* Callbacks on the main thread.                                           *)

\* Mutant: no fetch while a token is stored.
TokenFetchesOnce(n) ==
  {[n |-> n, user |-> u] : u \in IF token THEN {} ELSE {currentUser} \ {NoUser}}

\* getCredentials: currentUser?.getIDToken(...).
TokenFetches(n) == {[n |-> n, user |-> u] : u \in {currentUser} \ {NoUser}}

\* The sign-up form an attempt was made on is there, or on its way out.
HasNavigation(a) == (screen = "signup" \/ closing) /\ a.n >= formSince

\* Mutant: the profile is shown after an error too.
ScreenAfterAnyAnswer(a, ok) ==
  IF a.kind = "login" \/ HasNavigation(a)
  THEN "profile" ELSE screen

\* What the auth callback shows: the profile, or an alert.  A callback of a
\* sign-up form that has gone has no navigation controller to push to.
ScreenAfter(a, ok) ==
  IF ok /\ (a.kind = "login" \/ HasNavigation(a))
  THEN "profile" ELSE screen

\* Mutant: the document is added after an error too.
DocumentsAddedAnyway(a, ok) == IF a.kind = "signup" THEN {a.user} ELSE {}

\* The Firestore document a successful sign-up adds.
DocumentsAdded(a, ok) == IF ok /\ a.kind = "signup" THEN {a.user} ELSE {}

RunAuthCallback ==
  /\ mainQueue # <<>>
  /\ Head(mainQueue).kind = "auth"
  /\ mainQueue' = Tail(mainQueue)
  /\ LET a == Head(mainQueue).attempt
         ok == Head(mainQueue).ok
     IN /\ fetches' = fetches \cup TokenFetches(a.n)
        /\ screen' = ScreenAfter(a, ok)
        /\ writes' = writes \cup DocumentsAdded(a, ok)
  /\ UNCHANGED <<device, formSince, closing, taps, attempts, accounts, parents, orphans, ghosts>>

\* The completion of getIDToken: the id stored is that of the user at this
\* moment, not of the one the token was fetched for.
RunTokenCallback ==
  /\ mainQueue # <<>>
  /\ Head(mainQueue).kind = "token"
  /\ mainQueue' = Tail(mainQueue)
  /\ token' = TRUE
  /\ userID' = currentUser
  /\ broken' = FALSE
  /\ UNCHANGED <<currentUser, ui, attempts, fetches, profiles, forced, out>>

\* A Parent object that was saved.
ParentsWith(p) == [parents EXCEPT ![p] = @ + 1]

\* createParentProfile: the save may fail, and resets the context with the new
\* object in it; nobody is told and nobody tries again.
CreateParent(p) ==
  \/ /\ parents' = ParentsWith(p)
     /\ UNCHANGED orphans
  \/ /\ orphans' = orphans \cup {p}
     /\ UNCHANGED parents

\* Firestore answers addDocument; the Parent is created even on an error.
DocumentAnswered(p) ==
  /\ p \in writes
  /\ writes' = writes \ {p}
  /\ CreateParent(p)
  /\ UNCHANGED <<device, ui, inFlight, accounts, ghosts>>

-----------------------------------------------------------------------------
(* The process.                                                            *)

\* Mutant: the launch looks at Auth's user instead of the token.
FirstScreenByUser == IF currentUser # NoUser THEN "profile" ELSE "login"

\* checkLoginStatus, when the login screen loads.
FirstScreen == IF token THEN "profile" ELSE "login"

\* The app is killed and launched again.  Calls in flight are gone, though a
\* sign-up may still reach the server; Firestore sends its queued write again
\* but has no callback for it.
Relaunch ==
  /\ attempts' = {}
  /\ fetches' = {}
  /\ mainQueue' = <<>>
  /\ writes' = {}
  /\ \E made \in SUBSET ({a.user : a \in {b \in attempts : b.kind = "signup"}} \ accounts) :
       /\ accounts' = accounts \cup made
       /\ orphans' = orphans \cup made \cup writes
            \cup {p \in Account : \E i \in 1 .. Len(mainQueue) :
                    /\ mainQueue[i].kind = "auth"
                    /\ p \in DocumentsAdded(mainQueue[i].attempt, mainQueue[i].ok)}
  /\ screen' = FirstScreen
  /\ closing' = FALSE
  /\ broken' = (broken \/ userID # currentUser)
  /\ UNCHANGED <<device, formSince, taps, parents, forced, out>>

-----------------------------------------------------------------------------
Taps == \E p \in Account : TapLogin(p) \/ TapNext(p)

AuthAnswers(n) ==
  \/ \E a \in attempts : a.n = n /\ (AttemptSucceeds(a) \/ AttemptFails(a))
  \/ \E f \in fetches : f.n = n /\ (FetchSucceeds(f) \/ FetchFails(f))

RunMain == RunAuthCallback \/ RunTokenCallback

Next ==
  \/ Taps
  \/ OpenSignup
  \/ BackFromSignup
  \/ FormCloses
  \/ Logout
  \/ \E n \in 0 .. MaxTaps : AuthAnswers(n)
  \/ SignedOutByAuth
  \/ RunMain
  \/ \E p \in Account : DocumentAnswered(p)
  \/ Relaunch

\* Auth answers every call (its requests have a timeout) and the main thread
\* runs what is queued.
Fairness ==
  /\ \A n \in 0 .. MaxTaps : WF_vars(AuthAnswers(n))
  /\ WF_vars(RunMain)

Spec == Init /\ [][Next]_vars /\ Fairness

-----------------------------------------------------------------------------
\* When the id in UserDefaults is not that of the signed-in user, a callback
\* that will store it is on its way, or the chain was cut by a failed fetch
\* or a kill: no order of two sign-ins, a logout and their callbacks leaves
\* the wrong parent's id stored for good.
IdsAgree ==
  userID # currentUser => broken \/ fetches # {} \/ mainQueue # <<>>

\* What keeps IdsAgree true: an id stored while nobody is signed in is left
\* from a chain that was cut.
NoIdWithoutUser == currentUser = NoUser /\ userID # NoUser => broken

\* After a logout with nothing outstanding the app stays logged out, through
\* any number of launches, until somebody taps Login or Next.
LogoutHolds == out => ~ token /\ screen # "profile"

\* A profile is on the screen, or a launch will open one, without a user (so
\* that nothing saved there is ever sent) only after Auth signed the user out.
ProfileHasUser ==
  (screen = "profile" \/ token) /\ currentUser = NoUser => forced

\* What keeps ProfileHasUser true: as long as Auth has no user and did not
\* sign one out, only failed attempts wait for the main thread.
OnlyFailures ==
  \A i \in 1 .. Len(mainQueue) : mainQueue[i].kind = "auth" /\ ~ mainQueue[i].ok

NeverSignedIn ==
  currentUser = NoUser /\ ~ forced =>
    ~ token /\ screen # "profile" /\ fetches = {} /\ OnlyFailures

\* An account made on this phone gets one Parent, once: it is saved, or the
\* sign-up's callback or Firestore's answer will create it, or an answer was
\* lost in between or the Parent's save failed, and nothing will create it
\* again.
ParentOnce ==
  \A p \in Account :
    LET called == {i \in 1 .. Len(mainQueue) :
                     /\ mainQueue[i].kind = "auth"
                     /\ p \in DocumentsAdded(mainQueue[i].attempt, mainQueue[i].ok)}
    IN parents[p] + Cardinality(called) + Cardinality({p} \cap writes)
         + Cardinality({p} \cap orphans)
       = Cardinality({p} \cap accounts)

\* The stored id becomes the user's after the last sign-in, unless the chain
\* is cut.
IdIsStored == userID # currentUser ~> (userID = currentUser \/ broken)

=============================================================================
