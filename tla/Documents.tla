------------------------------ MODULE Documents ------------------------------
(***************************************************************************)
(* The documents of Santa I Wish and the places they have in the Firebase  *)
(* Realtime Database.  A child, an item of a wish list and a letter to     *)
(* Santa are Core Data objects; each is also written to the server with    *)
(* one HTTP PUT, at a path made of names the user typed.                   *)
(***************************************************************************)
EXTENDS Naturals, Sequences, SequencesExt

CONSTANTS
  Parent,    \* the Firebase accounts
  ChildId,   \* identities of Core Data Child objects
  WishId,    \* identities of Core Data Item and Letter objects
  Text,      \* what can be typed as a name or a title
  Components, \* the path components a text adds to a URL
  NoUser     \* Auth.auth().currentUser is nil

(***************************************************************************)
(* What appendingPathComponent makes of a text: "" adds no component, a    *)
(* slash makes two, and texts that differ may add the same ones.           *)
(***************************************************************************)
ASSUME ComponentsAssumption == Components \in [Text -> Seq(STRING)]

ASSUME UserAssumption == NoUser \notin Parent

User == Parent \cup {NoUser}

WishKind == {"Items", "LetterToSanta"}

(***************************************************************************)
(* `by' and `hasty' are history: the account that was signed in when the   *)
(* object was saved, and whether the PUT of the wish's child was still in  *)
(* flight then.  The program stores neither.                               *)
(***************************************************************************)
Child == [kind : {"child"}, id : ChildId, name : Text, by : User]

Wish == [kind : WishKind, id : WishId, child : Child, title : Text,
         by : User, hasty : BOOLEAN]

Document == Child \cup Wish

Request == [uid : Parent, doc : Document]

\* The PUT the program makes for a document saved under an account.
RequestOf(d) == [uid |-> d.by, doc |-> d]

\* Mutant: children are not filed under the account.
SharedChildPath(uid, name) == <<"children">> \o Components[name]

ChildPath(uid, name) == <<uid>> \o Components[name]

\* Mutant: wishes are filed beside the children.
KindPathOfParent(uid, name, kind) == <<uid, kind>>

KindPath(uid, name, kind) == ChildPath(uid, name) \o <<kind>>

WishPath(uid, w) == KindPath(uid, w.child.name, w.kind) \o Components[w.title]

Path(r) == IF r.doc.kind = "child" THEN ChildPath(r.uid, r.doc.name)
                                   ELSE WishPath(r.uid, r.doc)

\* Is the place of request r the place of e, or a node above it?
Covers(r, e) == IsPrefix(Path(r), Path(e))

\* The server under a PUT: the whole subtree at the path is replaced.
Put(store, r) == {e \in store : ~ Covers(r, e)} \cup {r}

=============================================================================
