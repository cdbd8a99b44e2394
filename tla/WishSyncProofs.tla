---------------------------- MODULE WishSyncProofs ----------------------------
(***************************************************************************)
(* Theorems about WishSync, for every set of accounts, identities and      *)
(* texts.                                                                  *)
(***************************************************************************)
EXTENDS WishSync, TLAPS

USE DEF Screens, Network

-----------------------------------------------------------------------------
(* Type correctness                                                        *)

\* What a PUT function starts for a document is a request, filed under the id.
LEMMA UploadsType ==
  ASSUME NEW d \in Document, NEW id \in User
  PROVE  /\ Uploads(d, id) \subseteq Request
         /\ \A r \in Uploads(d, id) : r = [uid |-> id, doc |-> d]
         /\ id # NoUser => Uploads(d, id) = {[uid |-> id, doc |-> d]}
BY UserAssumption DEF Uploads, Request, User

\* The variables of WishSync keep their types: in particular no request is
\* ever made without an account (the guards on id in putChild, putItem and
\* putLetter).
THEOREM TypeCorrect == Spec => []TypeOK
<1>1. Init => TypeOK
  BY DEF Init, TypeOK, User
<1>2. TypeOK /\ [Next]_vars => TypeOK'
  <2> SUFFICES ASSUME TypeOK, [Next]_vars
               PROVE  TypeOK'
    OBVIOUS
  <2> USE DEF TypeOK
  <2>1. ASSUME NEW id \in ChildId, NEW name \in Text, AddChild(id, name)
        PROVE  TypeOK'
    <3> DEFINE c == [kind |-> "child", id |-> id, name |-> name, by |-> currentUser]
    <3>1. c \in Child
      BY DEF Child
    <3>2. Uploads(c, IdForPut) \subseteq Request
      BY <3>1, UploadsType DEF Document, IdForPut
    <3>3. QED
      BY <2>1, <3>1, <3>2 DEF AddChild, UploadsAfterReset
  <2>2. ASSUME NEW kind \in WishKind, NEW id \in WishId, NEW title \in Text,
               AddWish(kind, id, title)
        PROVE  TypeOK'
    <3> DEFINE w == [kind |-> kind, id |-> id, child |-> held, title |-> title,
                     by |-> currentUser, hasty |-> RequestOf(held) \in network]
    <3>1. w \in Wish
      BY <2>2 DEF AddWish, Wish
    <3>2. userID' \in User
      BY <2>2 DEF AddWish, IdForPut
    <3>3. Uploads(w, userID') \subseteq Request
      BY <3>1, <3>2, UploadsType DEF Document
    <3>4. QED
      BY <2>2, <3>1, <3>2, <3>3 DEF AddWish, UploadsAfterReset
  <2>3. ASSUME NEW c \in children, OpenChild(c) PROVE TypeOK'
    BY <2>3 DEF OpenChild
  <2>4. CASE GoBack \/ ContextReset
    BY <2>4 DEF GoBack, ContextReset
  <2>5. ASSUME NEW u \in User, ChangeUser(u) PROVE TypeOK'
    BY <2>5 DEF ChangeUser
  <2>6. ASSUME NEW r \in network, Deliver(r) PROVE TypeOK'
    BY <2>6 DEF Deliver, Ended, Put
  <2>7. ASSUME NEW r \in network, Drop(r) PROVE TypeOK'
    BY <2>7 DEF Drop, Ended
  <2>8. CASE Terminate
    BY <2>8 DEF Terminate, Ended, User
  <2>9. CASE UNCHANGED vars
    BY <2>9 DEF vars
  <2>10. QED
    BY <2>1, <2>2, <2>3, <2>4, <2>5, <2>6, <2>7, <2>8, <2>9
       DEF Next, AddItem, AddLetter, WishKind
<1>3. QED
  BY <1>1, <1>2, PTL DEF Spec

-----------------------------------------------------------------------------
(* The two stores                                                          *)

\* A request leads back to its document, so two requests of saved documents
\* are equal only when the documents are.
LEMMA RequestDoc ==
  \A d : RequestOf(d).doc = d /\ RequestOf(d).uid = d.by
BY DEF RequestOf

\* A child is not a wish.
LEMMA KindsDiffer ==
  \A c \in Child, w \in Wish : c # w
BY DEF Child, Wish, WishKind

\* Saving one new document and starting no request but its own keeps
\* StoresInv.
LEMMA SaveKeepsStores ==
  ASSUME TypeOK, StoresInv,
         NEW d \in Document, d \notin Saved, d.by \in User,
         \/ d \in Child /\ children' = children \cup {d} /\ wishes' = wishes
         \/ /\ d \in Wish /\ d.child \in children
            /\ wishes' = wishes \cup {d} /\ children' = children
            /\ d.hasty = (RequestOf(d.child) \in network),
         network' = network \cup Uploads(d, d.by),
         remote' = remote, lost' = lost
  PROVE  StoresInv'
<1>1. Saved' = Saved \cup {d}
  BY DEF Saved
<1>2. Uploads(d, d.by) \subseteq {RequestOf(d)}
  BY UploadsType DEF RequestOf
<1>3. d.by # NoUser => RequestOf(d) \in network'
  BY UploadsType DEF RequestOf
<1>4. NothingForeign'
  BY <1>1, <1>2, RequestDoc DEF StoresInv, NothingForeign
<1>5. WishesOfSavedChildren'
  BY KindsDiffer DEF StoresInv, WishesOfSavedChildren, TypeOK
<1>6. PromptWishes'
  <2> SUFFICES ASSUME NEW w \in wishes', ~ w.hasty,
                      RequestOf(w.child) \in network'
               PROVE  FALSE
    BY DEF PromptWishes
  <2>1. w.child \in children
    BY KindsDiffer DEF StoresInv, WishesOfSavedChildren, TypeOK
  <2>2. w.child # d
    BY <2>1 DEF Saved
  <2>3. RequestOf(w.child) \in network
    BY <1>2, <2>2, RequestDoc
  <2>4. QED
    BY <2>3 DEF StoresInv, PromptWishes
<1>7. EveryDocumentAccounted'
  <2> SUFFICES ASSUME NEW e \in Saved', e.by # NoUser
               PROVE  \/ RequestOf(e) \in network' \cup remote' \cup lost'
                      \/ Superseded(e)'
    BY DEF EveryDocumentAccounted
  <2>1. CASE e = d
    BY <1>3, <2>1
  <2>2. CASE e # d
    <3>1. e \in Saved /\ (e \in wishes' => e \in wishes)
      BY <1>1, <2>2
    <3>2. CASE RequestOf(e) \in network \cup remote \cup lost
      BY <3>2
    <3>3. CASE Superseded(e)
      BY <1>1, <3>1, <3>3 DEF Superseded
    <3>4. QED
      BY <3>1, <3>2, <3>3 DEF StoresInv, EveryDocumentAccounted
  <2>3. QED
    BY <2>1, <2>2
<1>8. QED
  BY <1>4, <1>5, <1>6, <1>7 DEF StoresInv

\* Ending requests and applying some of them keeps StoresInv: a PUT that
\* replaces another document's is one that may.
LEMMA EndKeepsStores ==
  ASSUME TypeOK, StoresInv,
         children' = children, wishes' = wishes,
         network' \subseteq network,
         network \cup remote \cup lost \subseteq network' \cup remote' \cup lost'
         \/ \E r \in network : /\ network' = network \ {r}
                               /\ remote' = Put(remote, r)
                               /\ lost' = lost,
         network' \cup remote' \cup lost' \subseteq network \cup remote \cup lost
  PROVE  StoresInv'
<1>1. Saved' = Saved
  BY DEF Saved
<1>2. NothingForeign'
  BY <1>1 DEF StoresInv, NothingForeign
<1>3. WishesOfSavedChildren' /\ PromptWishes'
  BY DEF StoresInv, WishesOfSavedChildren, PromptWishes
<1>4. EveryDocumentAccounted'
  <2> SUFFICES ASSUME NEW e \in Saved, e.by # NoUser,
                      RequestOf(e) \notin network' \cup remote' \cup lost'
               PROVE  Superseded(e)'
    BY <1>1 DEF EveryDocumentAccounted
  <2>1. CASE Superseded(e)
    BY <1>1, <2>1 DEF Superseded
  <2>2. CASE RequestOf(e) \in network \cup remote \cup lost
    <3>1. PICK r \in network : /\ network' = network \ {r}
                               /\ remote' = Put(remote, r)
                               /\ lost' = lost
      BY <2>2
    <3>2. r.doc \in Saved /\ r = RequestOf(r.doc) /\ r.doc.by # NoUser
      <4>1. r.doc \in Saved /\ r = RequestOf(r.doc)
        BY DEF StoresInv, NothingForeign
      <4>2. r.uid \in Parent
        BY DEF TypeOK, Request
      <4>3. QED
        BY <4>1, <4>2, RequestDoc, UserAssumption
    <3>3. RequestOf(e) # r
      BY <3>1 DEF Put
    <3>4. Covers(r, RequestOf(e))
      BY <2>2, <3>1, <3>3 DEF Put
    <3>5. (e \in wishes /\ r.doc = e.child) => e.hasty
      BY <3>2 DEF StoresInv, PromptWishes
    <3>6. QED
      BY <1>1, <3>2, <3>3, <3>4, <3>5 DEF Superseded
  <2>3. QED
    BY <2>1, <2>2 DEF StoresInv, EveryDocumentAccounted
<1>5. QED
  BY <1>2, <1>3, <1>4 DEF StoresInv

\* No variable StoresInv reads changes.
LEMMA IdleKeepsStores ==
  ASSUME StoresInv, UNCHANGED <<children, wishes, network, remote, lost>>
  PROVE  StoresInv'
BY DEF StoresInv, NothingForeign, WishesOfSavedChildren, PromptWishes,
       EveryDocumentAccounted, Superseded, Saved

\* Every step keeps StoresInv: the documents and the requests of the two
\* stores stay accounted for whatever the order of saves, failed saves,
\* answers, losses, crashes and changes of account.
THEOREM StoresAgree == Spec => []StoresInv
<1>1. Init => StoresInv
  BY DEF Init, StoresInv, NothingForeign, WishesOfSavedChildren, PromptWishes,
         EveryDocumentAccounted, Saved
<1>2. TypeOK /\ StoresInv /\ [Next]_vars => StoresInv'
  <2> SUFFICES ASSUME TypeOK, StoresInv, [Next]_vars
               PROVE  StoresInv'
    OBVIOUS
  <2>1. ASSUME NEW id \in ChildId, NEW name \in Text, AddChild(id, name)
        PROVE  StoresInv'
    <3> DEFINE c == [kind |-> "child", id |-> id, name |-> name, by |-> currentUser]
    <3>1. c \in Child /\ c \notin Saved /\ c.by = currentUser
      BY <2>1, KindsDiffer DEF AddChild, TypeOK, Child, Saved
    <3>2. CASE children' = children \cup {c} /\ network' = network \cup Uploads(c, IdForPut)
      <4>1. UNCHANGED <<wishes, remote, lost>>
        BY <2>1 DEF AddChild
      <4> HIDE DEF c
      <4>2. QED
        BY <3>1, <3>2, <4>1, SaveKeepsStores DEF TypeOK, IdForPut, Document
    <3>3. CASE UNCHANGED children /\ network' = network \cup UploadsAfterReset(c, IdForPut)
      BY <2>1, <3>3, IdleKeepsStores DEF AddChild, UploadsAfterReset
    <3>4. QED
      BY <2>1, <3>2, <3>3 DEF AddChild
  <2>2. ASSUME NEW kind \in WishKind, NEW id \in WishId, NEW title \in Text,
               AddWish(kind, id, title)
        PROVE  StoresInv'
    <3> DEFINE w == [kind |-> kind, id |-> id, child |-> held, title |-> title,
                     by |-> currentUser, hasty |-> RequestOf(held) \in network]
    <3>1. w \in Wish /\ w \notin wishes
      BY <2>2 DEF AddWish, TypeOK, Wish
    <3>2. w \notin Saved
      BY <3>1, KindsDiffer DEF TypeOK, Saved
    <3>3. /\ w.by = currentUser /\ w.child = held
          /\ w.hasty = (RequestOf(w.child) \in network)
      OBVIOUS
    <3>4. CASE /\ wishes' = wishes \cup {w}
               /\ network' = network \cup Uploads(w, userID')
      <4>1. UNCHANGED <<children, remote, lost>> /\ userID' = currentUser /\ held \in children
        BY <2>2 DEF AddWish, IdForPut
      <4> HIDE DEF w
      <4>2. QED
        BY <3>1, <3>2, <3>3, <3>4, <4>1, SaveKeepsStores DEF TypeOK, Document
    <3>5. CASE UNCHANGED wishes /\ network' = network \cup UploadsAfterReset(w, userID')
      BY <2>2, <3>5, IdleKeepsStores DEF AddWish, UploadsAfterReset
    <3>6. QED
      BY <2>2, <3>4, <3>5 DEF AddWish
  <2>3. ASSUME NEW c \in children, OpenChild(c) PROVE StoresInv'
    BY <2>3, IdleKeepsStores DEF OpenChild
  <2>4. CASE GoBack \/ ContextReset
    BY <2>4, IdleKeepsStores DEF GoBack, ContextReset
  <2>5. ASSUME NEW u \in User, ChangeUser(u) PROVE StoresInv'
    BY <2>5, IdleKeepsStores DEF ChangeUser
  <2>6. ASSUME NEW r \in network, Deliver(r) PROVE StoresInv'
    BY <2>6, EndKeepsStores DEF Deliver, Ended, Put
  <2>7. ASSUME NEW r \in network, Drop(r) PROVE StoresInv'
    BY <2>7, EndKeepsStores DEF Drop, Ended
  <2>8. CASE Terminate
    BY <2>8, EndKeepsStores DEF Terminate, Ended
  <2>9. CASE UNCHANGED vars
    BY <2>9, IdleKeepsStores DEF vars
  <2>10. QED
    BY <2>1, <2>2, <2>3, <2>4, <2>5, <2>6, <2>7, <2>8, <2>9
       DEF Next, AddItem, AddLetter, WishKind
<1>3. QED
  BY <1>1, <1>2, TypeCorrect, PTL DEF Spec

\* Nothing reaches the wire or the server but the requests of saved
\* documents, each under the account that saved it.
THEOREM NothingForeignHolds == Spec => []NothingForeign
<1>1. StoresInv => NothingForeign
  BY DEF StoresInv
<1>2. QED
  BY <1>1, StoresAgree, PTL

\* A saved document disappears from the server only under the PUT of another
\* document whose place covers its own.
THEOREM EveryDocumentAccountedHolds == Spec => []EveryDocumentAccounted
<1>1. StoresInv => EveryDocumentAccounted
  BY DEF StoresInv
<1>2. QED
  BY <1>1, StoresAgree, PTL

-----------------------------------------------------------------------------
(* WishSync implements WishLedger                                          *)

\* The ledger speaks of the same documents, requests and places.
LEMMA LedgerTerms ==
  /\ Ledger!Document = Document
  /\ \A d : Ledger!RequestOf(d) = RequestOf(d)
  /\ \A store, r : Ledger!Put(store, r) = Put(store, r)
<1>1. Ledger!Document = Document
  BY DEF Ledger!Document, Document, Ledger!Child, Child, Ledger!Wish, Wish,
         Ledger!WishKind, WishKind, Ledger!User, User
<1>2. \A d : Ledger!RequestOf(d) = RequestOf(d)
  BY DEF Ledger!RequestOf, RequestOf
<1>3. \A r : Ledger!Path(r) = Path(r)
  BY DEF Ledger!Path, Path, Ledger!ChildPath, ChildPath, Ledger!WishPath,
         WishPath, Ledger!KindPath, KindPath
<1>4. \A r, e : Ledger!Covers(r, e) <=> Covers(r, e)
  BY <1>3 DEF Ledger!Covers, Covers, Ledger!IsPrefix, IsPrefix
<1>5. \A store, r : Ledger!Put(store, r) = Put(store, r)
  BY <1>4 DEF Ledger!Put, Put
<1>6. QED
  BY <1>1, <1>2, <1>5

\* A new document, saved with at most its own request started, is a save of
\* the ledger.
LEMMA SaveIsLedgerSave ==
  ASSUME TypeOK, NEW d \in Document, d \notin Saved, d.by \in User,
         Saved' = Saved \cup {d}, network' = network \cup Uploads(d, d.by),
         remote' = remote
  PROVE  Ledger!Next
<1>1. network' \in {network, network \cup {RequestOf(d)}}
  BY DEF Uploads, RequestOf
<1>2. Ledger!Save(d)
  BY <1>1, LedgerTerms DEF Ledger!Save
<1>3. QED
  BY <1>2, LedgerTerms DEF Ledger!Next

\* Every step of the app is a save of one new document, the publication of
\* one request, the end of some requests without effect, or no step of the
\* ledger.
THEOREM Refinement == Spec => LedgerSpec
<1>1. Init => Ledger!Init
  BY DEF Init, Ledger!Init, Saved
<1>2. TypeOK /\ [Next]_vars => [Ledger!Next]_(Ledger!ledger)
  <2> SUFFICES ASSUME TypeOK, [Next]_vars
               PROVE  Ledger!Next \/ UNCHANGED Ledger!ledger
    OBVIOUS
  <2> USE DEF Ledger!ledger
  <2>1. ASSUME NEW id \in ChildId, NEW name \in Text, AddChild(id, name)
        PROVE  Ledger!Next \/ UNCHANGED Ledger!ledger
    <3> DEFINE c == [kind |-> "child", id |-> id, name |-> name, by |-> currentUser]
    <3>1. c \in Document /\ c \notin Saved /\ c.by = currentUser
      BY <2>1, KindsDiffer DEF AddChild, TypeOK, Child, Saved, Document
    <3>2. CASE children' = children \cup {c} /\ network' = network \cup Uploads(c, IdForPut)
      <4>1. UNCHANGED <<wishes, remote>> /\ Saved' = Saved \cup {c}
        BY <2>1, <3>2 DEF AddChild, Saved
      <4> HIDE DEF c
      <4>2. QED
        BY <3>1, <3>2, <4>1, SaveIsLedgerSave DEF TypeOK, IdForPut
    <3>3. CASE UNCHANGED children /\ network' = network \cup UploadsAfterReset(c, IdForPut)
      BY <2>1, <3>3 DEF AddChild, UploadsAfterReset, Saved
    <3>4. QED
      BY <2>1, <3>2, <3>3 DEF AddChild
  <2>2. ASSUME NEW kind \in WishKind, NEW id \in WishId, NEW title \in Text,
               AddWish(kind, id, title)
        PROVE  Ledger!Next \/ UNCHANGED Ledger!ledger
    <3> DEFINE w == [kind |-> kind, id |-> id, child |-> held, title |-> title,
                     by |-> currentUser, hasty |-> RequestOf(held) \in network]
    <3>1. w \in Wish /\ w \notin wishes /\ w.by = currentUser
      BY <2>2 DEF AddWish, TypeOK, Wish
    <3>2. w \in Document /\ w \notin Saved
      BY <3>1, KindsDiffer DEF TypeOK, Saved, Document
    <3>3. CASE /\ wishes' = wishes \cup {w}
               /\ network' = network \cup Uploads(w, userID')
      <4>1. UNCHANGED <<children, remote>> /\ userID' = currentUser
        BY <2>2 DEF AddWish, IdForPut
      <4>2. Saved' = Saved \cup {w}
        BY <3>3, <4>1 DEF Saved
      <4> HIDE DEF w
      <4>3. QED
        BY <3>1, <3>2, <3>3, <4>1, <4>2, SaveIsLedgerSave DEF TypeOK
    <3>4. CASE UNCHANGED wishes /\ network' = network \cup UploadsAfterReset(w, userID')
      BY <2>2, <3>4 DEF AddWish, UploadsAfterReset, Saved
    <3>5. QED
      BY <2>2, <3>3, <3>4 DEF AddWish
  <2>3. ASSUME NEW c \in children, OpenChild(c) PROVE UNCHANGED Ledger!ledger
    BY <2>3 DEF OpenChild, Saved
  <2>4. CASE GoBack \/ ContextReset
    BY <2>4 DEF GoBack, ContextReset, Saved
  <2>5. ASSUME NEW u \in User, ChangeUser(u) PROVE UNCHANGED Ledger!ledger
    BY <2>5 DEF ChangeUser, Saved
  <2>6. ASSUME NEW r \in network, Deliver(r) PROVE Ledger!Next
    BY <2>6, LedgerTerms DEF Deliver, Ended, Saved, Ledger!Next, Ledger!Publish
  <2>7. ASSUME NEW r \in network, Drop(r) PROVE Ledger!Next
    BY <2>7 DEF Drop, Ended, Saved, Ledger!Next, Ledger!Forget
  <2>8. CASE Terminate
    BY <2>8 DEF Terminate, Ended, Saved, Ledger!Next, Ledger!Forget
  <2>9. CASE UNCHANGED vars
    BY <2>9 DEF vars, Saved
  <2>10. QED
    BY <2>1, <2>2, <2>3, <2>4, <2>5, <2>6, <2>7, <2>8, <2>9
       DEF Next, AddItem, AddLetter, WishKind
<1>3. QED
  BY <1>1, <1>2, TypeCorrect, PTL DEF Spec, LedgerSpec, Ledger!Spec

-----------------------------------------------------------------------------
(* Places                                                                  *)

\* What a path is made of.
Component == Parent \cup STRING \cup WishKind

\* A prefix agrees with a path as far as it goes.
LEMMA PrefixIs ==
  ASSUME NEW S, NEW s \in Seq(S), NEW t \in Seq(S)
  PROVE  IsPrefix(s, t) <=> Len(s) <= Len(t) /\ \A i \in 1 .. Len(s) : s[i] = t[i]
<1>1. ASSUME Len(s) <= Len(t)
      PROVE  /\ SubSeq(t, 1, Len(s)) \in Seq(S) /\ Len(SubSeq(t, 1, Len(s))) = Len(s)
             /\ \A i \in 1 .. Len(s) : SubSeq(t, 1, Len(s))[i] = t[i]
  BY <1>1
<1>2. /\ SubSeq(s, 1, Len(s)) \in Seq(S) /\ Len(SubSeq(s, 1, Len(s))) = Len(s)
      /\ \A i \in 1 .. Len(s) : SubSeq(s, 1, Len(s))[i] = s[i]
  OBVIOUS
<1>3. QED
  BY <1>1, <1>2 DEF IsPrefix

\* A path and its continuation.
LEMMA ConcatIs ==
  ASSUME NEW S, NEW s \in Seq(S), NEW t \in Seq(S)
  PROVE  /\ s \o t \in Seq(S) /\ Len(s \o t) = Len(s) + Len(t)
         /\ \A i \in 1 .. Len(s) : (s \o t)[i] = s[i]
OBVIOUS

\* A text's components.
LEMMA WordsAre ==
  ASSUME NEW t \in Text
  PROVE  /\ Components[t] \in Seq(STRING) /\ Components[t] \in Seq(Component)
         /\ Len(Components[t]) \in Nat
BY ComponentsAssumption DEF Component

\* The place of a child: the account, then the components of its name.
LEMMA ChildPathIs ==
  ASSUME NEW uid \in Parent, NEW name \in Text
  PROVE  LET p == ChildPath(uid, name)
             n == Components[name] IN
         /\ p \in Seq(Component) /\ Len(p) = Len(n) + 1 /\ p[1] = uid
         /\ Len(n) \in Nat /\ \A i \in 1 .. Len(n) : p[i + 1] = n[i]
<1> DEFINE n == Components[name]
<1>1. n \in Seq(Component) /\ <<uid>> \in Seq(Component)
  BY WordsAre DEF Component
<1> HIDE DEF n
<1>2. LET p == <<uid>> \o n IN
      /\ p \in Seq(Component) /\ Len(p) = Len(n) + 1 /\ p[1] = uid
      /\ Len(n) \in Nat /\ \A i \in 1 .. Len(n) : p[i + 1] = n[i]
  BY <1>1
<1>3. QED
  BY <1>2 DEF ChildPath, n

\* The place of a dictionary of a child: one key more.
LEMMA KindPathIs ==
  ASSUME NEW uid \in Parent, NEW name \in Text, NEW kind \in WishKind
  PROVE  LET p == KindPath(uid, name, kind)
             n == Components[name] IN
         /\ p \in Seq(Component) /\ Len(p) = Len(n) + 2 /\ p[1] = uid
         /\ Len(n) \in Nat /\ \A i \in 1 .. Len(n) : p[i + 1] = n[i]
         /\ p[Len(n) + 2] = kind
<1> DEFINE c == ChildPath(uid, name)
           n == Components[name]
<1>1. /\ c \in Seq(Component) /\ Len(c) = Len(n) + 1 /\ c[1] = uid
      /\ Len(n) \in Nat /\ \A i \in 1 .. Len(n) : c[i + 1] = n[i]
  BY ChildPathIs
<1>2. kind \in Component
  BY DEF Component
<1> HIDE DEF c, n
<1>3. LET p == c \o <<kind>> IN
      /\ p \in Seq(Component) /\ Len(p) = Len(n) + 2 /\ p[1] = uid
      /\ \A i \in 1 .. Len(n) : p[i + 1] = n[i]
      /\ p[Len(n) + 2] = kind
  BY <1>1, <1>2
<1>4. QED
  BY <1>1, <1>3 DEF KindPath, c, n

\* The place of a wish: below the dictionary of its kind, if it has a title.
LEMMA WishPathIs ==
  ASSUME NEW uid \in Parent, NEW w \in Wish
  PROVE  LET p == WishPath(uid, w)
             n == Components[w.child.name]
             t == Components[w.title] IN
         /\ p \in Seq(Component) /\ Len(p) = Len(n) + 2 + Len(t) /\ p[1] = uid
         /\ Len(n) \in Nat /\ Len(t) \in Nat /\ Len(p) \in Nat /\ Len(p) >= 1
         /\ \A i \in 1 .. Len(n) : p[i + 1] = n[i]
         /\ p[Len(n) + 2] = w.kind
<1> DEFINE n == Components[w.child.name]
           t == Components[w.title]
           k == KindPath(uid, w.child.name, w.kind)
<1>1. w.child.name \in Text /\ w.kind \in WishKind /\ w.title \in Text
  BY DEF Wish, Child
<1>2. /\ k \in Seq(Component) /\ Len(k) = Len(n) + 2 /\ k[1] = uid
      /\ Len(n) \in Nat /\ \A i \in 1 .. Len(n) : k[i + 1] = n[i]
      /\ k[Len(n) + 2] = w.kind
  BY <1>1, KindPathIs
<1>3. t \in Seq(Component)
  BY <1>1, WordsAre
<1> HIDE DEF k, n, t
<1>4. LET p == k \o t IN
      /\ p \in Seq(Component) /\ Len(p) = Len(n) + 2 + Len(t) /\ p[1] = uid
      /\ \A i \in 1 .. Len(n) : p[i + 1] = n[i]
      /\ p[Len(n) + 2] = w.kind
  <2> DEFINE p == k \o t
  <2>1. p \in Seq(Component) /\ Len(p) = Len(k) + Len(t) /\ \A i \in 1 .. Len(k) : p[i] = k[i]
    BY <1>2, <1>3, ConcatIs
  <2>2. 1 \in 1 .. Len(k) /\ Len(n) + 2 \in 1 .. Len(k) /\ \A i \in 1 .. Len(n) : i + 1 \in 1 .. Len(k)
    BY <1>2
  <2> HIDE DEF p
  <2>3. QED
    <3>1. p[1] = uid /\ p[Len(n) + 2] = w.kind
      BY <1>2, <2>1, <2>2
    <3>2. \A i \in 1 .. Len(n) : p[i + 1] = n[i]
      BY <1>2, <2>1, <2>2
    <3>3. Len(p) = Len(n) + 2 + Len(t)
      BY <1>2, <2>1
    <3>4. QED
      BY <2>1, <3>1, <3>2, <3>3 DEF p
<1>5. Len(t) \in Nat
  BY <1>3
<1>6. \A l \in Nat, m \in Nat : l + 2 + m \in Nat /\ l + 2 + m >= 1
  OBVIOUS
<1>7. QED
  BY <1>2, <1>4, <1>5, <1>6 DEF WishPath, k, n, t

\* Every request has a place, below its account.
LEMMA PathIs ==
  ASSUME NEW r \in Request
  PROVE  /\ Path(r) \in Seq(Component) /\ Len(Path(r)) \in Nat /\ Len(Path(r)) >= 1
         /\ Path(r)[1] = r.uid
         /\ r.doc.kind = "child" => r.doc \in Child /\ Path(r) = ChildPath(r.uid, r.doc.name)
         /\ r.doc.kind # "child" => r.doc \in Wish /\ Path(r) = WishPath(r.uid, r.doc)
<1>1. r.uid \in Parent /\ r.doc \in Child \cup Wish
  BY DEF Request, Document
<1>2. CASE r.doc \in Child
  <2>1. r.doc.kind = "child" /\ r.doc.name \in Text
    BY <1>2 DEF Child
  <2>2. Path(r) = ChildPath(r.uid, r.doc.name)
    BY <2>1 DEF Path
  <2>3. QED
    BY <1>1, <1>2, <2>1, <2>2, ChildPathIs
<1>3. CASE r.doc \in Wish
  <2>1. r.doc.kind # "child"
    BY <1>3 DEF Wish, WishKind
  <2>2. Path(r) = WishPath(r.uid, r.doc)
    BY <2>1 DEF Path
  <2>3. PICK w \in Wish, uid \in Parent : w = r.doc /\ uid = r.uid
    BY <1>1, <1>3
  <2>4. LET p == WishPath(uid, w) IN
        p \in Seq(Component) /\ p[1] = uid /\ Len(p) \in Nat /\ Len(p) >= 1
    BY WishPathIs, Zenon
  <2>5. Path(r) = WishPath(uid, w)
    BY <2>2, <2>3
  <2>6. QED
    BY <1>3, <2>1, <2>2, <2>3, <2>4, <2>5
<1>4. QED
  BY <1>1, <1>2, <1>3

\* A PUT covers the places whose paths begin with its own.
LEMMA CoversIs ==
  ASSUME NEW r \in Request, NEW e \in Request
  PROVE  Covers(r, e) <=> /\ Len(Path(r)) <= Len(Path(e))
                          /\ \A i \in 1 .. Len(Path(r)) : Path(r)[i] = Path(e)[i]
BY PathIs, PrefixIs DEF Covers

\* A PUT covers its own place.
LEMMA CoversItself ==
  ASSUME NEW r \in Request
  PROVE  Covers(r, r)
BY PathIs, CoversIs

\* What a covered place covers is covered.
LEMMA CoversAll ==
  ASSUME NEW r \in Request, NEW e \in Request, NEW f \in Request, Covers(r, e), Covers(e, f)
  PROVE  Covers(r, f)
<1>1. /\ Len(Path(r)) \in Nat /\ Len(Path(e)) \in Nat /\ Len(Path(f)) \in Nat
      /\ Len(Path(r)) <= Len(Path(e)) /\ Len(Path(e)) <= Len(Path(f))
      /\ \A i \in 1 .. Len(Path(r)) : Path(r)[i] = Path(e)[i]
      /\ \A i \in 1 .. Len(Path(e)) : Path(e)[i] = Path(f)[i]
  BY PathIs, CoversIs
<1>2. /\ Len(Path(r)) <= Len(Path(f))
      /\ \A i \in 1 .. Len(Path(r)) : Path(r)[i] = Path(f)[i]
  BY <1>1
<1>3. QED
  BY <1>2, CoversIs

-----------------------------------------------------------------------------
(* Fetches                                                                 *)

\* No text that was typed has a path component that is the key of the items.
PlainTexts == \A t \in Text : \A i \in 1 .. Len(Components[t]) : Components[t][i] # "Items"

\* Places are the same when their components are.
LEMMA SameWords ==
  ASSUME NEW s \in Seq(STRING), NEW t \in Seq(STRING), Len(s) = Len(t),
         \A i \in 1 .. Len(t) : s[i] = t[i]
  PROVE  s = t
OBVIOUS

\* An item one key below a child's dictionary is of a child with that place: a shorter
\* name would put the key Items, which is above every title, into the longer one, and a
\* longer name has the key itself.
LEMMA OneBelowHasPlace ==
  ASSUME PlainTexts, NEW uid \in Parent, NEW name \in Text,
         NEW e \in Request, e.doc \in Wish, e.doc.kind = "Items",
         IsPrefix(KindPath(uid, name, "Items"), Path(e)),
         Len(Path(e)) = Len(KindPath(uid, name, "Items")) + 1
  PROVE  Components[e.doc.child.name] = Components[name]
<1> DEFINE n == Components[e.doc.child.name]
           m == Components[name]
           t == Components[e.doc.title]
           k == KindPath(uid, name, "Items")
           p == Path(e)
<1>1. e.doc.child.name \in Text /\ e.doc.title \in Text
  BY DEF Wish, Child
<1>2. n \in Seq(STRING) /\ m \in Seq(STRING) /\ Len(t) \in Nat
  BY <1>1, WordsAre
<1>3. /\ k \in Seq(Component) /\ Len(k) = Len(m) + 2
      /\ Len(m) \in Nat /\ \A i \in 1 .. Len(m) : k[i + 1] = m[i]
      /\ k[Len(m) + 2] = "Items"
  BY KindPathIs DEF WishKind
<1>4. /\ p \in Seq(Component) /\ Len(p) = Len(n) + 2 + Len(t)
      /\ Len(n) \in Nat
      /\ \A i \in 1 .. Len(n) : p[i + 1] = n[i]
      /\ p[Len(n) + 2] = "Items"
  <2>1. PICK w \in Wish, u \in Parent : w = e.doc /\ u = e.uid
    BY DEF Request
  <2>2. LET q == WishPath(u, w)
            o == Components[w.child.name] IN
        /\ q \in Seq(Component) /\ Len(q) = Len(o) + 2 + Len(Components[w.title])
        /\ Len(o) \in Nat
        /\ \A i \in 1 .. Len(o) : q[i + 1] = o[i]
        /\ q[Len(o) + 2] = w.kind
    BY WishPathIs, Zenon
  <2>3. p = WishPath(u, w)
    BY <2>1 DEF Path
  <2>4. QED
    BY <2>1, <2>2, <2>3
<1>5. \A i \in 1 .. Len(m) + 2 : k[i] = p[i]
  BY <1>3, <1>4, PrefixIs
<1>6. Len(p) = Len(k) + 1
  OBVIOUS
<1>7. (\A i \in 1 .. Len(n) : n[i] # "Items") /\ (\A i \in 1 .. Len(m) : m[i] # "Items")
  BY <1>1 DEF PlainTexts
<1> HIDE DEF k, p, n, m, t
<1>8. ~ (Len(n) < Len(m))
  <2> SUFFICES ASSUME Len(n) < Len(m) PROVE FALSE
    OBVIOUS
  <2>1. Len(n) + 1 \in 1 .. Len(m) /\ Len(n) + 2 \in 1 .. Len(m) + 2
    BY <1>3, <1>4
  <2>2. k[Len(n) + 2] = m[Len(n) + 1]
    BY <1>3, <1>4, <2>1
  <2>3. m[Len(n) + 1] = "Items"
    BY <1>4, <1>5, <2>1, <2>2
  <2>4. QED
    BY <1>7, <2>1, <2>3
<1>9. ~ (Len(m) < Len(n))
  <2> SUFFICES ASSUME Len(m) < Len(n) PROVE FALSE
    OBVIOUS
  <2>1. Len(m) + 1 \in 1 .. Len(n) /\ Len(m) + 2 \in 1 .. Len(m) + 2
    BY <1>3, <1>4
  <2>2. p[Len(m) + 2] = n[Len(m) + 1]
    BY <1>3, <1>4, <2>1
  <2>3. n[Len(m) + 1] = "Items"
    BY <1>3, <1>5, <2>1, <2>2
  <2>4. QED
    BY <1>7, <2>1, <2>3
<1>10. Len(n) = Len(m)
  BY <1>3, <1>4, <1>8, <1>9
<1>11. ASSUME NEW i \in 1 .. Len(m) PROVE n[i] = m[i]
  <2>1. i + 1 \in 1 .. Len(m) + 2
    BY <1>3
  <2>2. k[i + 1] = p[i + 1]
    BY <1>5, <2>1
  <2>3. QED
    BY <1>3, <1>4, <1>10, <2>2
<1>12. n = m
  BY <1>2, <1>10, <1>11, SameWords
<1>13. QED
  BY <1>12 DEF n, m

\* Where nobody typed the key itself, whatever a fetch of a child's items decodes is on
\* the list of that child, unless another child's name is a different text of the same
\* place: namesakes, and slashes in names and in titles, do no harm.
THEOREM FetchedItemsAreListedHolds ==
  ASSUME PlainTexts
  PROVE  Spec => []FetchedItemsAreListed
<1>1. TypeOK /\ StoresInv => FetchedItemsAreListed
  <2> SUFFICES ASSUME TypeOK, StoresInv, NEW c \in children, NEW uid \in Parent,
                      OwnPlace(c), NEW d \in FetchItems(uid, c)
               PROVE  d \in ItemsListed(c)
    BY DEF FetchedItemsAreListed
  <2> DEFINE k == KindPath(uid, c.name, "Items")
  <2>1. PICK e \in remote : /\ e.doc = d /\ d.kind = "Items"
                            /\ IsPrefix(k, Path(e)) /\ Len(Path(e)) = Len(k) + 1
    BY DEF FetchItems, Decoded
  <2>2. e \in Request /\ d \in Saved
    BY <2>1 DEF TypeOK, StoresInv, NothingForeign
  <2>3. d \in wishes /\ d \in Wish
    BY <2>1, <2>2 DEF Saved, TypeOK, Child
  <2>4. c.name \in Text
    BY DEF TypeOK, Child
  <2>5. Components[d.child.name] = Components[c.name]
    <3>1. e.doc \in Wish /\ e.doc.kind = "Items"
      BY <2>1, <2>3
    <3>2. Components[e.doc.child.name] = Components[c.name]
      BY <2>1, <2>2, <2>4, <3>1, OneBelowHasPlace
    <3>3. QED
      BY <2>1, <3>2
  <2>6. d.child \in children
    BY <2>3 DEF StoresInv, WishesOfSavedChildren
  <2>7. d.child.name = c.name
    BY <2>5, <2>6 DEF OwnPlace
  <2>8. QED
    BY <2>1, <2>3, <2>7 DEF ItemsListed
<1>2. QED
  BY <1>1, TypeCorrect, StoresAgree, PTL

\* The place of a document that was sent and not lost is held by a request, its own or
\* one above it.
PlacesHeld ==
  \A d \in Saved : d.by # NoUser =>
    \/ RequestOf(d) \in network \cup lost
    \/ \E r \in remote : Covers(r, RequestOf(d))

\* A saved document's request is one.
LEMMA RequestsAre ==
  ASSUME TypeOK, NEW d \in Saved, d.by # NoUser
  PROVE  RequestOf(d) \in Request
BY DEF TypeOK, Saved, RequestOf, Request, Document, Child, Wish, User

\* What is applied holds the place of what it replaces.
LEMMA PutHolds ==
  ASSUME TypeOK, NEW r \in Request, NEW e \in Request, NEW s \in remote, Covers(s, e)
  PROVE  \E t \in Put(remote, r) : Covers(t, e)
<1>1. s \in Request
  BY DEF TypeOK
<1>2. CASE Covers(r, s)
  <2>1. Covers(r, e)
    BY <1>1, <1>2, CoversAll
  <2>2. QED
    BY <2>1 DEF Put
<1>3. CASE ~ Covers(r, s)
  BY <1>3 DEF Put
<1>4. QED
  BY <1>2, <1>3

\* Every step keeps the places held.
LEMMA PlacesHeldStep == TypeOK /\ StoresInv /\ PlacesHeld /\ [Next]_vars => PlacesHeld'
<1> SUFFICES ASSUME TypeOK, StoresInv, PlacesHeld, [Next]_vars,
                    NEW d \in Saved', d.by # NoUser
             PROVE  \/ RequestOf(d) \in network' \cup lost'
                    \/ \E r \in remote' : Covers(r, RequestOf(d))
  BY DEF PlacesHeld
\* A document that was there, and whose place keeps its holder.
<1>a. ASSUME d \in Saved, network \cup lost \subseteq network' \cup lost', remote' = remote
      PROVE  \/ RequestOf(d) \in network' \cup lost'
             \/ \E r \in remote' : Covers(r, RequestOf(d))
  BY <1>a DEF PlacesHeld
\* A document that is new.
<1>b. ASSUME NEW id \in User, Uploads(d, id) \subseteq network', id = d.by
      PROVE  RequestOf(d) \in network'
  BY <1>b DEF Uploads, RequestOf
<1>1. ASSUME NEW id \in ChildId, NEW name \in Text, AddChild(id, name)
      PROVE  \/ RequestOf(d) \in network' \cup lost'
             \/ \E r \in remote' : Covers(r, RequestOf(d))
  <2> DEFINE c == [kind |-> "child", id |-> id, name |-> name, by |-> currentUser]
  <2>1. UNCHANGED <<wishes, remote, lost>> /\ network \subseteq network'
    BY <1>1 DEF AddChild
  <2>2. d \notin Saved => d = c /\ Uploads(c, currentUser) \subseteq network'
    BY <1>1, <2>1 DEF AddChild, Saved, IdForPut
  <2>3. c.by = currentUser /\ currentUser \in User
    BY DEF TypeOK
  <2> HIDE DEF c
  <2>4. QED
    BY <1>a, <1>b, <2>1, <2>2, <2>3
<1>2. ASSUME NEW kind \in WishKind, NEW id \in WishId, NEW title \in Text,
             AddWish(kind, id, title)
      PROVE  \/ RequestOf(d) \in network' \cup lost'
             \/ \E r \in remote' : Covers(r, RequestOf(d))
  <2> DEFINE w == [kind |-> kind, id |-> id, child |-> held, title |-> title,
                   by |-> currentUser, hasty |-> RequestOf(held) \in network]
  <2>1. UNCHANGED <<children, remote, lost>> /\ network \subseteq network'
    BY <1>2 DEF AddWish
  <2>2. d \notin Saved => d = w /\ Uploads(w, currentUser) \subseteq network'
    BY <1>2, <2>1 DEF AddWish, Saved, IdForPut
  <2>3. w.by = currentUser /\ currentUser \in User
    BY DEF TypeOK
  <2> HIDE DEF w
  <2>4. QED
    BY <1>a, <1>b, <2>1, <2>2, <2>3
<1>3. ASSUME NEW s \in network, Deliver(s)
      PROVE  \/ RequestOf(d) \in network' \cup lost'
             \/ \E r \in remote' : Covers(r, RequestOf(d))
  <2>1. /\ network' = network \ {s} /\ remote' = Put(remote, s) /\ lost' = lost
        /\ d \in Saved /\ s \in Request
    BY <1>3 DEF Deliver, Ended, Saved, TypeOK
  <2>2. RequestOf(d) \in Request
    BY <2>1, RequestsAre
  <2>3. CASE RequestOf(d) = s
    BY <2>1, <2>3, CoversItself DEF Put
  <2>4. CASE RequestOf(d) # s /\ RequestOf(d) \in network \cup lost
    BY <2>1, <2>4
  <2>5. CASE \E r \in remote : Covers(r, RequestOf(d))
    BY <2>1, <2>2, <2>5, PutHolds
  <2>6. QED
    BY <2>1, <2>3, <2>4, <2>5 DEF PlacesHeld
<1>4. ASSUME NEW s \in network, Drop(s)
      PROVE  \/ RequestOf(d) \in network' \cup lost'
             \/ \E r \in remote' : Covers(r, RequestOf(d))
  BY <1>4, <1>a DEF Drop, Ended, Saved
<1>5. CASE Terminate
  BY <1>5, <1>a DEF Terminate, Ended, Saved
<1>6. ASSUME UNCHANGED <<children, wishes, network, remote, lost>>
      PROVE  \/ RequestOf(d) \in network' \cup lost'
             \/ \E r \in remote' : Covers(r, RequestOf(d))
  BY <1>6, <1>a DEF Saved
<1>7. QED
  BY <1>1, <1>2, <1>3, <1>4, <1>5, <1>6
     DEF Next, AddItem, AddLetter, WishKind, OpenChild, GoBack, ContextReset, ChangeUser, vars

\* No PUT on the server leaves a place above it empty: every place a saved document was
\* sent to is held while the request is not on the wire or lost.
LEMMA PlacesStayHeld == Spec => []PlacesHeld
<1>1. Init => PlacesHeld
  BY DEF Init, PlacesHeld, Saved
<1>2. QED
  BY <1>1, PlacesHeldStep, TypeCorrect, StoresAgree, PTL DEF Spec

\* What FetchedKidsWhenQuiet asks of an account.
Quiet(uid) ==
  /\ \A c \in children :
       c.by = uid => Len(Components[c.name]) = 1 /\ RequestOf(c) \notin network \cup lost
  /\ \A w \in wishes : w.by = uid => w.child.by = uid

\* The children a parent has saved.
Mine(uid) == {c \in children : c.by = uid}

\* The PUTs that the server holds below a parent.
Below(uid) == {e \in remote : IsPrefix(<<uid>>, Path(e))}

\* The PUTs below an account are of its own documents.
LEMMA BelowIsOwn ==
  ASSUME TypeOK, StoresInv, NEW uid \in Parent, NEW e \in Request, e \in remote
  PROVE  /\ e \in Below(uid) <=> e.uid = uid
         /\ e.doc \in Saved /\ e = RequestOf(e.doc) /\ e.doc.by = e.uid
<1>1. <<uid>> \in Seq(Component) /\ Len(<<uid>>) = 1 /\ <<uid>>[1] = uid
  BY DEF Component
<1>2. Path(e) \in Seq(Component) /\ Len(Path(e)) \in Nat /\ Len(Path(e)) >= 1
      /\ Path(e)[1] = e.uid
  BY PathIs
<1>3. IsPrefix(<<uid>>, Path(e)) <=> Path(e)[1] = uid
  <2>1. ASSUME NEW s \in Seq(Component), NEW t \in Seq(Component), Len(s) = 1
        PROVE  IsPrefix(s, t) <=> Len(t) >= 1 /\ s[1] = t[1]
    <3>1. IsPrefix(s, t) <=> Len(s) <= Len(t) /\ \A i \in 1 .. Len(s) : s[i] = t[i]
      BY PrefixIs
    <3>2. 1 .. Len(s) = {1} /\ Len(t) \in Nat
      BY <2>1
    <3>3. QED
      BY <2>1, <3>1, <3>2
  <2>2. IsPrefix(<<uid>>, Path(e)) <=> Len(Path(e)) >= 1 /\ <<uid>>[1] = Path(e)[1]
    BY <1>1, <1>2, <2>1, Zenon
  <2>3. QED
    BY <1>1, <1>2, <2>2
<1>4. e.doc \in Saved /\ e = RequestOf(e.doc)
  BY DEF StoresInv, NothingForeign
<1>5. e.doc.by = e.uid
  BY <1>4 DEF RequestOf
<1>6. QED
  BY <1>2, <1>3, <1>4, <1>5 DEF Below

\* Where an account is quiet, a PUT of it is of one of its children, at a place of two
\* components, or of a wish of one of them, deeper.
LEMMA QuietPlaces ==
  ASSUME TypeOK, StoresInv, NEW uid \in Parent, Quiet(uid),
         NEW e \in Request, e.doc \in Saved, e.doc.by = uid, e.uid = uid
  PROVE  \/ /\ e.doc \in Mine(uid) /\ e.doc.kind = "child" /\ Len(Path(e)) = 2
            /\ Path(e)[2] = Components[e.doc.name][1] /\ Len(Components[e.doc.name]) = 1
            /\ Components[e.doc.name] \in Seq(STRING)
         \/ /\ e.doc.kind # "child" /\ Len(Path(e)) >= 3
            /\ e.doc.child \in Mine(uid) /\ Components[e.doc.child.name] \in Seq(STRING)
            /\ Len(Components[e.doc.child.name]) = 1 /\ Path(e)[2] = Components[e.doc.child.name][1]
<1>1. CASE e.doc \in children
  <2>1. e.doc \in Child /\ e.doc.kind = "child" /\ e.doc \in Mine(uid) /\ e.doc.name \in Text
        /\ Len(Components[e.doc.name]) = 1
    BY <1>1 DEF TypeOK, Child, Mine, Quiet
  <2>2. Path(e) = ChildPath(e.uid, e.doc.name)
    BY <2>1, PathIs
  <2>3. Len(Path(e)) = 2 /\ Path(e)[2] = Components[e.doc.name][1]
    <3>1. LET p == ChildPath(uid, e.doc.name) IN
          Len(p) = Len(Components[e.doc.name]) + 1 /\ \A i \in 1 .. Len(Components[e.doc.name]) : p[i + 1] = Components[e.doc.name][i]
      BY <2>1, ChildPathIs, Zenon
    <3>2. QED
      BY <2>1, <2>2, <3>1
  <2>4. QED
    BY <2>1, <2>3, WordsAre
<1>2. CASE e.doc \in wishes
  <2>1. e.doc \in Wish /\ e.doc.kind # "child" /\ e.doc.child \in Mine(uid)
        /\ Len(Components[e.doc.child.name]) = 1
    BY <1>2 DEF TypeOK, Wish, WishKind, Mine, Quiet, StoresInv, WishesOfSavedChildren
  <2>2. e.doc.child.name \in Text
    BY <2>1 DEF Wish, Child
  <2>3. Path(e) = WishPath(uid, e.doc)
    BY <2>1, PathIs
  <2>4. PICK w \in Wish : w = e.doc
    BY <2>1
  <2>5. LET p == WishPath(uid, w) IN
        /\ Len(p) = Len(Components[w.child.name]) + 2 + Len(Components[w.title])
        /\ Len(Components[w.title]) \in Nat
        /\ \A i \in 1 .. Len(Components[w.child.name]) : p[i + 1] = Components[w.child.name][i]
    BY WishPathIs, Zenon
  <2>6. Len(Path(e)) >= 3 /\ Path(e)[2] = Components[e.doc.child.name][1]
    <3>1. Len(Path(e)) = 1 + 2 + Len(Components[w.title]) /\ Len(Components[w.title]) \in Nat
      BY <2>1, <2>3, <2>4, <2>5
    <3>2. 1 \in 1 .. Len(Components[w.child.name])
      <4>1. Len(Components[w.child.name]) = 1
        BY <2>1, <2>4, Zenon
      <4>2. 1 \in 1 .. 1
        OBVIOUS
      <4>3. QED
        BY <4>1, <4>2, Zenon
    <3>3. WishPath(uid, w)[1 + 1] = Components[w.child.name][1]
      BY <2>5, <3>2
    <3>4. 1 + 1 = 2 /\ \A l \in Nat : 1 + 2 + l >= 3
      OBVIOUS
    <3>5. QED
      BY <2>3, <2>4, <3>1, <3>3, <3>4
  <2>7. QED
    BY <2>1, <2>2, <2>6, WordsAre
<1>3. QED
  BY <1>1, <1>2 DEF Saved

\* The place of each child of a quiet account is held by the whole record of a child
\* of that place.
LEMMA QuietChildrenAreThere ==
  ASSUME TypeOK, StoresInv, PlacesHeld, NEW uid \in Parent, Quiet(uid), NEW c \in Mine(uid)
  PROVE  \E h \in Below(uid) : /\ h.doc.kind = "child" /\ Len(Path(h)) = 2
                               /\ h.doc \in Mine(uid) /\ Components[h.doc.name] = Components[c.name]
                               /\ Covers(h, RequestOf(c))
<1> DEFINE e == RequestOf(c)
<1>1. c \in children /\ c \in Saved /\ c.by = uid /\ c.by # NoUser /\ c.kind = "child"
      /\ e \notin network \cup lost
  BY UserAssumption DEF Mine, Saved, Quiet, TypeOK, Child
<1>2. e \in Request /\ e.doc = c /\ e.uid = uid
  <2>1. e \in Request
    BY <1>1, RequestsAre
  <2>2. QED
    BY <1>1, <2>1 DEF RequestOf
<1>3. PICK h \in remote : Covers(h, e)
  BY <1>1 DEF PlacesHeld
<1> HIDE DEF e
<1>4. h \in Request
  BY DEF TypeOK
<1>5. /\ Len(Path(h)) <= Len(Path(e)) /\ \A i \in 1 .. Len(Path(h)) : Path(h)[i] = Path(e)[i]
      /\ Len(Path(h)) >= 1 /\ Len(Path(h)) \in Nat
  BY <1>2, <1>3, <1>4, CoversIs, PathIs
<1>6. h.uid = uid
  BY <1>2, <1>4, <1>5, PathIs
<1>7. h \in Below(uid) /\ h.doc \in Saved /\ h.doc.by = uid
  BY <1>4, <1>6, BelowIsOwn
<1>8. /\ Len(Path(e)) = 2 /\ Path(e)[2] = Components[c.name][1]
      /\ Len(Components[c.name]) = 1 /\ Components[c.name] \in Seq(STRING)
  BY <1>1, <1>2, QuietPlaces
<1>9. /\ h.doc \in Mine(uid) /\ h.doc.kind = "child" /\ Len(Path(h)) = 2
      /\ Path(h)[2] = Components[h.doc.name][1] /\ Len(Components[h.doc.name]) = 1
      /\ Components[h.doc.name] \in Seq(STRING)
  BY <1>4, <1>5, <1>6, <1>7, <1>8, QuietPlaces
<1>10. Components[h.doc.name][1] = Components[c.name][1]
  BY <1>5, <1>8, <1>9
<1>11. Components[h.doc.name] = Components[c.name]
  BY <1>8, <1>9, <1>10, SameWords
<1>12. QED
  BY <1>3, <1>7, <1>9, <1>11 DEF e

\* What a quiet account's fetch decodes: every PUT below the account is inside the whole
\* record of a child, so nothing there keeps the dictionary from being decoded.
LEMMA QuietFetch ==
  ASSUME TypeOK, StoresInv, PlacesHeld, NEW uid \in Parent, Quiet(uid)
  PROVE  {Components[c.name] : c \in FetchKids(uid)} = {Components[c.name] : c \in Mine(uid)}
<1> DEFINE whole == {h \in Below(uid) : h.doc.kind = "child" /\ Len(Path(h)) = Len(<<uid>>) + 1}
<1>1. \A h : h \in whole <=> h \in Below(uid) /\ h.doc.kind = "child" /\ Len(Path(h)) = 2
  OBVIOUS
<1>2. ASSUME NEW e \in Below(uid) PROVE \E h \in whole : Covers(h, e)
  <2>1. e \in remote /\ e \in Request
    BY DEF Below, TypeOK
  <2>2. e.uid = uid /\ e.doc \in Saved /\ e.doc.by = uid
    BY <2>1, BelowIsOwn
  <2>3. CASE e.doc.kind = "child"
    <3>1. Len(Path(e)) = 2
      BY <2>1, <2>2, <2>3, QuietPlaces
    <3>2. QED
      BY <1>1, <2>1, <2>3, <3>1, CoversItself
  <2>4. CASE e.doc.kind # "child"
    <3>1. /\ Len(Path(e)) >= 3 /\ e.doc.child \in Mine(uid)
          /\ Len(Components[e.doc.child.name]) = 1 /\ Path(e)[2] = Components[e.doc.child.name][1]
      BY <2>1, <2>2, <2>4, QuietPlaces
    <3>2. PICK c \in Mine(uid) : c = e.doc.child
      BY <3>1
    <3>3. PICK h \in Below(uid) : /\ h.doc.kind = "child" /\ Len(Path(h)) = 2
                                  /\ h.doc \in Mine(uid) /\ Components[h.doc.name] = Components[c.name]
      BY QuietChildrenAreThere
    <3>4. h \in remote /\ h \in Request
      BY DEF Below, TypeOK
    <3>5. h.uid = uid /\ h.doc \in Saved /\ h.doc.by = uid
      BY <3>4, BelowIsOwn
    <3>6. Path(h)[2] = Components[h.doc.name][1]
      BY <3>3, <3>4, <3>5, QuietPlaces
    <3>7. Path(h)[1] = uid /\ Path(e)[1] = uid /\ Len(Path(e)) \in Nat
      BY <2>1, <2>2, <3>4, <3>5, PathIs
    <3>8. Path(h)[2] = Path(e)[2]
      BY <3>1, <3>2, <3>3, <3>6
    <3>9. \A i \in 1 .. 2 : i = 1 \/ i = 2
      OBVIOUS
    <3>10. Covers(h, e)
      BY <2>1, <3>1, <3>3, <3>4, <3>7, <3>8, <3>9, CoversIs
    <3>11. QED
      BY <1>1, <3>3, <3>10
  <2>5. QED
    BY <2>3, <2>4
<1>3. FetchKids(uid) = {h.doc : h \in whole}
  BY <1>2 DEF FetchKids, Decoded, Below
<1> HIDE DEF whole
<1>4. ASSUME NEW h \in whole PROVE h.doc \in Mine(uid)
  <2>1. h \in remote /\ h \in Request /\ h \in Below(uid) /\ h.doc.kind = "child"
    BY <1>1 DEF Below, TypeOK
  <2>2. h.uid = uid /\ h.doc \in Saved /\ h.doc.by = uid
    BY <2>1, BelowIsOwn
  <2>3. QED
    BY <2>1, <2>2, QuietPlaces
<1>5. ASSUME NEW c \in Mine(uid) PROVE \E h \in whole : Components[h.doc.name] = Components[c.name]
  BY <1>1, QuietChildrenAreThere
<1>6. QED
  BY <1>3, <1>4, <1>5

\* No order of the PUTs, and no namesake, hides or breaks the record of a child of an
\* account whose children were all delivered: the fetch decodes exactly their places.
THEOREM FetchedKidsWhenQuietHolds == Spec => []FetchedKidsWhenQuiet
<1>1. TypeOK /\ StoresInv /\ PlacesHeld => FetchedKidsWhenQuiet
  <2> SUFFICES ASSUME TypeOK, StoresInv, PlacesHeld, NEW uid \in Parent,
                      \A c \in Mine(uid) : Len(Components[c.name]) = 1 /\ RequestOf(c) \notin network \cup lost,
                      \A w \in wishes : w.by = uid => w.child.by = uid
               PROVE  {Components[c.name] : c \in FetchKids(uid)} = {Components[c.name] : c \in Mine(uid)}
    BY DEF FetchedKidsWhenQuiet, Mine
  <2>1. Quiet(uid)
    BY DEF Quiet, Mine
  <2>2. QED
    BY <2>1, QuietFetch
<1>2. QED
  BY <1>1, TypeCorrect, StoresAgree, PlacesStayHeld, PTL

=============================================================================
