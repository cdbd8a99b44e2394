------------------------------- MODULE WishSync -------------------------------
(***************************************************************************)
(* Children, wish-list items and letters to Santa: saved in Core Data by   *)
(* the screens that create them and written to the Firebase Realtime       *)
(* Database by SantaIWishController, one HTTP PUT each, with no retry and  *)
(* no order between PUTs.                                                  *)
(***************************************************************************)
EXTENDS Documents

CONSTANTS
  NoChild,   \* the profile is on top: no screen holds a child
  Detached   \* the screens hold a child object whose context was reset

ASSUME HeldAssumption ==
  /\ NoChild # Detached
  /\ NoChild \notin Child
  /\ Detached \notin Child

VARIABLES
  currentUser,  \* Auth.auth().currentUser?.uid
  userID,       \* SantaIWishController.userID of the profile's controller
  children,     \* saved Child objects
  wishes,       \* saved Item and Letter objects
  held,         \* the child the detail, list and editor screens were given
  network,      \* PUTs started and not answered
  remote,       \* PUTs whose body the server still holds
  lost          \* history: PUTs that never reached the server

vars == <<currentUser, userID, children, wishes, held, network, remote, lost>>

TypeOK ==
  /\ currentUser \in User
  /\ userID \in User
  /\ children \subseteq Child
  /\ wishes \subseteq Wish
  /\ held \in Child \cup {NoChild, Detached}
  /\ network \subseteq Request
  /\ remote \subseteq Request
  /\ lost \subseteq Request

Init ==
  /\ currentUser \in User
  /\ userID = NoUser
  /\ children = {}
  /\ wishes = {}
  /\ held = NoChild
  /\ network = {}
  /\ remote = {}
  /\ lost = {}

-----------------------------------------------------------------------------
(* Pieces of the controller that every create operation goes through.      *)

\* Mutant: an id the controller already has is not read again.
CachedId == IF userID = NoUser THEN currentUser ELSE userID

\* `userID = Auth.auth().currentUser?.uid`, done by each operation before it
\* builds its request.
IdForPut == currentUser

\* Mutant: a wish's child is written again with it.
UploadsWithChild(d, id) ==
  {[uid |-> u, doc |-> e] : u \in {id} \ {NoUser},
                            e \in {d} \cup IF d.kind = "child" THEN {} ELSE {d.child}}

\* `guard let id = id else { return }`, then the request.
Uploads(d, id) == {[uid |-> u, doc |-> d] : u \in {id} \ {NoUser}}

\* Mutant: the document is sent although it was not saved.
UploadsUnsaved(d, id) == {[uid |-> u, doc |-> d] : u \in {id} \ {NoUser}}

\* The same after a failed save: save(context:) has reset the context, the
\* objects are faults without a store, their attributes read as nil and the
\* guard on the representation returns.
UploadsAfterReset(d, id) == {}

-----------------------------------------------------------------------------
(* The screens.                                                            *)

\* The child profile form: Done with a name and an age.  The form has a
\* controller of its own, so the profile's userID is not touched.
AddChild(id, name) ==
  /\ held = NoChild
  /\ \A c \in children : c.id # id
  /\ LET c == [kind |-> "child", id |-> id, name |-> name, by |-> currentUser]
     IN \/ /\ children' = children \cup {c}
           /\ network' = network \cup Uploads(c, IdForPut)
        \/ /\ network' = network \cup UploadsAfterReset(c, IdForPut)
           /\ UNCHANGED children
  /\ UNCHANGED <<currentUser, userID, wishes, held, remote, lost>>

\* Save of a new wish of the child the screens hold, then its PUT.
AddWish(kind, id, title) ==
  /\ held \in children
  /\ \A w \in wishes : w.id # id
  /\ userID' = IdForPut
  /\ LET w == [kind |-> kind, id |-> id, child |-> held, title |-> title,
               by |-> currentUser, hasty |-> RequestOf(held) \in network]
     IN \/ /\ wishes' = wishes \cup {w}
           /\ network' = network \cup Uploads(w, userID')
           /\ UNCHANGED held
        \/ /\ held' = Detached
           /\ network' = network \cup UploadsAfterReset(w, userID')
           /\ UNCHANGED wishes
  /\ UNCHANGED <<currentUser, children, remote, lost>>

\* The add-item form returns when the toy's name is empty; the letter form
\* takes any title.
AddItem(id, title) == title # "" /\ AddWish("Items", id, title)

AddLetter(id, title) == AddWish("LetterToSanta", id, title)

\* A tap on a child of the profile, and Back from its screens.
OpenChild(c) ==
  /\ held = NoChild
  /\ c \in children
  /\ held' = c
  /\ UNCHANGED <<currentUser, userID, children, wishes, network, remote, lost>>

GoBack ==
  /\ held # NoChild
  /\ held' = NoChild
  /\ UNCHANGED <<currentUser, userID, children, wishes, network, remote, lost>>

\* The save of a new Parent fails (Session's CreateParent): it resets the
\* context of the child the screens hold.
ContextReset ==
  /\ held \in children
  /\ held' = Detached
  /\ UNCHANGED <<currentUser, userID, children, wishes, network, remote, lost>>

-----------------------------------------------------------------------------
(* Accounts.  A sign-in may complete while other screens are open (the     *)
(* login button can be tapped twice), and a refused token refresh signs    *)
(* the user out at any time.                                               *)

ChangeUser(u) ==
  /\ u # currentUser
  /\ currentUser' = u
  /\ UNCHANGED <<userID, children, wishes, held, network, remote, lost>>

-----------------------------------------------------------------------------
(* The network and the process.                                            *)

\* A data task ends once and is not started again.
Ended(requests) == network' = network \ requests

\* The server applies a PUT.
Deliver(r) ==
  /\ r \in network
  /\ Ended({r})
  /\ remote' = Put(remote, r)
  /\ UNCHANGED <<currentUser, userID, children, wishes, held, lost>>

\* A PUT fails or is refused: the completion handler logs it, or takes the
\* HTTP error for success.
Drop(r) ==
  /\ r \in network
  /\ Ended({r})
  /\ lost' = lost \cup {r}
  /\ UNCHANGED <<currentUser, userID, children, wishes, held, remote>>

\* The app is killed, or crashes (a wish added to a Detached child does):
\* the controllers are new at the next launch and some PUTs are never sent.
Terminate ==
  /\ held' = NoChild
  /\ userID' = NoUser
  /\ \E unsent \in SUBSET network : Ended(unsent) /\ lost' = lost \cup unsent
  /\ UNCHANGED <<currentUser, children, wishes, remote>>

-----------------------------------------------------------------------------
Screens ==
  \/ \E id \in ChildId, name \in Text : AddChild(id, name)
  \/ \E id \in WishId, title \in Text : AddItem(id, title)
  \/ \E id \in WishId, title \in Text : AddLetter(id, title)
  \/ \E c \in children : OpenChild(c)
  \/ GoBack
  \/ ContextReset

Network == \E r \in network : Deliver(r) \/ Drop(r)

Next ==
  \/ Screens
  \/ \E u \in User : ChangeUser(u)
  \/ Network
  \/ Terminate

Spec == Init /\ [][Next]_vars

-----------------------------------------------------------------------------
(* What the screens and the server show of the two stores.                 *)

\* Mutant: the rows are fetched by the child object.
ItemsOfObject(c) == {w \in wishes : w.kind = "Items" /\ w.child = c}

\* The rows of the wish list of child c: fetched by the child's name, as it
\* was typed.
ItemsListed(c) ==
  {w \in wishes : w.kind = "Items" /\ w.child.name = c.name}

\* A dictionary of documents of one kind, decoded from the node at a place:
\* the bodies one key below it, or none at all when any key there is not such
\* a body (the decoder throws for the whole dictionary).
Decoded(place, kind) ==
  LET below == {e \in remote : IsPrefix(place, Path(e))}
      whole == {e \in below : e.doc.kind = kind /\ Len(Path(e)) = Len(place) + 1}
  IN IF \A e \in below : \E h \in whole : Covers(h, e)
     THEN {h.doc : h \in whole}
     ELSE {}

FetchKids(uid) == Decoded(<<uid>>, "child")

FetchItems(uid, c) == Decoded(KindPath(uid, c.name, "Items"), "Items")

-----------------------------------------------------------------------------
Saved == children \cup wishes

\* Every request on the wire, on the server or lost is the one request of a
\* document that is in Core Data, under the account that was signed in when it
\* was saved: a failed save sends nothing (CoreDataStack.save resets the
\* context and the PUT functions return), and the userID a controller cached
\* for an earlier user is never used.
NothingForeign ==
  \A r \in network \cup remote \cup lost :
    r.doc \in Saved /\ r = RequestOf(r.doc)

\* Another saved document's PUT covers the place of d.  The PUT of a wish's
\* own child counts only when the wish was saved before that PUT was answered.
Superseded(d) ==
  \E o \in Saved \ {d} :
    /\ o.by # NoUser
    /\ Covers(RequestOf(o), RequestOf(d))
    /\ (d \in wishes /\ o = d.child) => d.hasty

\* A document saved while somebody was signed in is on the server, on its
\* way or lost with its request, unless a namesake's PUT (or the late PUT of
\* its own child) replaced it: the app itself never takes it away.
EveryDocumentAccounted ==
  \A d \in Saved :
    d.by # NoUser =>
      \/ RequestOf(d) \in network \cup remote \cup lost
      \/ Superseded(d)

\* What keeps EveryDocumentAccounted true: a wish's child stays saved, and the
\* PUT of a child that had been answered when a wish was saved is never sent
\* again.
WishesOfSavedChildren ==
  \A w \in wishes : w.child \in children

PromptWishes ==
  \A w \in wishes : ~ w.hasty => RequestOf(w.child) \notin network

StoresInv ==
  /\ NothingForeign
  /\ WishesOfSavedChildren
  /\ PromptWishes
  /\ EveryDocumentAccounted

\* A name that no other child's name shares its place with but the very same
\* text: the server files by place, the list compares the texts.
OwnPlace(c) ==
  \A d \in children : Components[d.name] = Components[c.name] => d.name = c.name

\* What a fetch of a child's items returns is on that child's list on the
\* phone that saved it, whichever namesake the items were saved for, as long
\* as no child's name was typed differently for the same place.
FetchedItemsAreListed ==
  \A c \in children, uid \in Parent :
    OwnPlace(c) => FetchItems(uid, c) \subseteq ItemsListed(c)

\* When the PUTs of a parent's children have all been answered and none was
\* lost, the names are plain and the parent's wishes are for own children,
\* fetchKidsFromServer decodes one record at the place of each child saved
\* under the account and no other: no order of the other PUTs hides or breaks
\* a child's record.
FetchedKidsWhenQuiet ==
  \A uid \in Parent :
    LET mine == {c \in children : c.by = uid}
    IN /\ \A c \in mine :
            Len(Components[c.name]) = 1 /\ RequestOf(c) \notin network \cup lost
       /\ \A w \in wishes : w.by = uid => w.child.by = uid
       => {Components[c.name] : c \in FetchKids(uid)} = {Components[c.name] : c \in mine}

\* The stores keep the promises of the ledger.
Ledger == INSTANCE WishLedger WITH
            saved <- Saved, pending <- network, published <- remote

LedgerSpec == Ledger!Spec

=============================================================================
