------------------------------- MODULE Screens -------------------------------
(***************************************************************************)
(* The navigation stack above the profile: which screens are open, which   *)
(* rows and counts they show, and the letter form, whose Save closes it    *)
(* through a block queued on the main thread.  Core Data is a set of       *)
(* children and a set of wishes; a failed save resets the context under    *)
(* the open screens.                                                       *)
(***************************************************************************)
EXTENDS Naturals, Sequences, SequencesExt, FiniteSets

CONSTANTS
  ChildId,
  WishId,
  Name,      \* names in the order the lists are sorted in, 0 is ""
  NoChild,
  Detached,
  MaxForms   \* bound: letter forms opened

ASSUME ScreensAssumption ==
  /\ Name \subseteq Nat
  /\ MaxForms \in Nat

ASSUME NoChildAssumption ==
  /\ NoChild \notin [id : ChildId, name : Name]
  /\ Detached \notin [id : ChildId, name : Name]
  /\ Detached # NoChild

VARIABLES
  stack,     \* the navigation stack, the profile first
  children,  \* saved children
  wishes,    \* saved items and letters
  held,      \* the child the screens above the profile were given
  cells,     \* the profile's cells: the children they were made for
  rows,      \* the rows of the open list
  counts,    \* the two labels of the detail screen
  forms,     \* letter forms opened so far
  pops,      \* queued blocks that pop a letter form
  leaving,   \* popped letter forms whose animated transition has not ended
  sent       \* history: the letter forms whose Save was tapped

vars == <<stack, children, wishes, held, cells, rows, counts, forms, pops, leaving, sent>>

Child == [id : ChildId, name : Name]

Kind == {"items", "letters"}

Wish == [id : WishId, kind : Kind, child : Child]

\* Only letter forms are told apart.
Scene == {"profile", "childForm", "detail", "items", "itemForm", "letters"}
           \X {0} \cup {"letterForm"} \X (1 .. MaxForms)

Profile == <<"profile", 0>>
Plain(scene) == <<scene, 0>>

Top == Last(stack)

TypeOK ==
  /\ stack \in Seq(Scene) /\ stack # <<>>
  /\ children \subseteq Child
  /\ wishes \subseteq Wish
  /\ held \in Child \cup {NoChild, Detached}
  /\ cells \in Seq(Child)
  /\ rows \subseteq Wish
  /\ counts \in [Kind -> Nat]
  /\ forms \in 0 .. MaxForms
  /\ pops \in Seq(1 .. MaxForms)
  /\ leaving \subseteq 1 .. MaxForms
  /\ sent \subseteq 1 .. MaxForms

-----------------------------------------------------------------------------
(* What the screens fetch.                                                 *)

\* The profile's fetch: all children sorted by name, namesakes in any order.
Orders(saved) ==
  {s \in [1 .. Cardinality(saved) -> saved] :
     \A i, j \in DOMAIN s : i < j => s[i] # s[j] /\ s[i].name <= s[j].name}

\* getChildName: "" for a child whose context was reset.
NameOf(child) == IF child = Detached THEN 0 ELSE child.name

\* A list's fetch among the saved wishes, by the child's name.
ListRows(saved, kind, child) ==
  {w \in saved : w.kind = kind /\ w.child.name = NameOf(child)}

\* Mutant: each label counts both kinds.
CountsOfBoth(child) ==
  [kind \in Kind |-> Cardinality({w \in wishes : w.child = child})]

\* The labels of the detail screen count the child's own objects.
CountsOf(child) ==
  [kind \in Kind |-> Cardinality({w \in wishes : w.kind = kind /\ w.child = child})]

\* Mutants: a list loads its rows when it is pushed, the profile its cells
\* while it has none.
ListReloadsOnPush(s) == Last(s)[1] \in Kind /\ Len(s) > Len(stack)
ProfileReloadsIfEmpty(s) == Last(s) = Profile /\ cells = <<>>

\* viewWillAppear of the lists and of the profile.
ListReloads(s) == Last(s)[1] \in Kind
ProfileReloads(s) == Last(s) = Profile

\* The stack becomes s and its top screen appears.
Show(s) ==
  /\ stack' = s
  /\ rows' = IF ListReloads(s) THEN ListRows(wishes', Last(s)[1], held') ELSE rows
  /\ cells' \in IF ProfileReloads(s) THEN Orders(children') ELSE {cells}

Init ==
  /\ stack = <<Profile>>
  /\ children = {}
  /\ wishes = {}
  /\ held = NoChild
  /\ cells = <<>>
  /\ rows = {}
  /\ counts = [kind \in Kind |-> 0]
  /\ forms = 0
  /\ pops = <<>>
  /\ leaving = {}
  /\ sent = {}

-----------------------------------------------------------------------------
Push(scene) == Show(Append(stack, scene))
Pop == Show(Front(stack))

\* popViewController(animated: true) takes the top screen, whichever it is:
\* the profile gives the detail screen's child up, and a letter form keeps its
\* navigation controller until its transition has ended.
PopTop ==
  /\ Top # Profile
  /\ held' = IF Top[1] = "detail" THEN NoChild ELSE held
  /\ leaving' = leaving \cup {form \in 1 .. MaxForms : Top = <<"letterForm", form>>}
  /\ UNCHANGED <<children, wishes, counts, forms, sent>>
  /\ Pop

Back == PopTop /\ UNCHANGED pops

\* The transition of a popped letter form ends, and the form has no navigation
\* controller any more.
TransitionEnds(form) ==
  /\ form \in leaving
  /\ leaving' = leaving \ {form}
  /\ UNCHANGED <<stack, children, wishes, held, cells, rows, counts, forms, pops, sent>>

OpenChildForm ==
  /\ Top = Profile
  /\ UNCHANGED <<children, wishes, held, counts, forms, pops, leaving, sent>>
  /\ Push(Plain("childForm"))

\* Done: the child is saved, or the save failed; the form closes.
ChildDone(id, name) ==
  /\ Top[1] = "childForm"
  /\ \A c \in children : c.id # id
  /\ children' \in {children, children \cup {[id |-> id, name |-> name]}}
  /\ UNCHANGED <<wishes, held, counts, forms, pops, leaving, sent>>
  /\ Pop

\* A tap on cell i: the child at i of a fetch made now, not the cell's child.
TapCell(i) ==
  /\ Top = Profile
  /\ \E order \in Orders(children) :
       /\ i \in DOMAIN order
       /\ held' = order[i]
       /\ counts' = CountsOf(order[i])
  /\ UNCHANGED <<children, wishes, forms, pops, leaving, sent>>
  /\ Push(Plain("detail"))

OpenList(kind) ==
  /\ Top[1] = "detail"
  /\ UNCHANGED <<children, wishes, held, counts, forms, pops, leaving, sent>>
  /\ Push(Plain(kind))

OpenItemForm ==
  /\ Top[1] = "items"
  /\ UNCHANGED <<children, wishes, held, counts, forms, pops, leaving, sent>>
  /\ Push(Plain("itemForm"))

OpenLetterForm ==
  /\ Top[1] = "letters"
  /\ forms < MaxForms
  /\ forms' = forms + 1
  /\ UNCHANGED <<children, wishes, held, counts, pops, leaving, sent>>
  /\ Push(<<"letterForm", forms + 1>>)

\* A wish of the held child is saved, or the save failed and the context was
\* reset.  Adding to a child of a context already reset is a crash (Relaunch).
Save(id, kind) ==
  /\ held \in children
  /\ \A w \in wishes : w.id # id
  /\ \/ /\ wishes' = wishes \cup {[id |-> id, kind |-> kind, child |-> held]}
        /\ UNCHANGED held
     \/ /\ held' = Detached
        /\ UNCHANGED wishes

SaveItem(id) ==
  /\ Top[1] = "itemForm"
  /\ Save(id, "items")
  /\ UNCHANGED <<children, counts, forms, pops, leaving, sent>>
  /\ Pop

\* Mutant: the form is told of a save that succeeded only.
PopsAfterSuccess == IF held' = Detached THEN pops ELSE Append(pops, Top[2])

\* addLetterToChild calls its completion at once, whatever came of the save.
PopsAfterSave == Append(pops, Top[2])

SaveLetter(id) ==
  /\ Top[1] = "letterForm"
  /\ Save(id, "letters")
  /\ pops' = PopsAfterSave
  /\ sent' = sent \cup {Top[2]}
  /\ UNCHANGED <<stack, children, cells, rows, counts, forms, leaving>>

\* The save of a new Parent fails (Session's CreateParent): it too resets the
\* context, under whatever screens are open.
ContextReset ==
  /\ held \in children
  /\ held' = Detached
  /\ UNCHANGED <<stack, children, wishes, cells, rows, counts, forms, pops, leaving, sent>>

OnStack(form) == <<"letterForm", form>> \in ToSet(stack)

\* Mutant: the block keeps the navigation controller.
PopsTop(form) == TRUE

\* self.navigationController: nil once the form has gone, but the form that is
\* on its way out still has it, and pops what is on top by then.
PopsForm(form) == OnStack(form) \/ form \in leaving

RunPop ==
  /\ pops # <<>>
  /\ pops' = Tail(pops)
  /\ \/ PopsForm(Head(pops)) /\ PopTop
     \/ /\ PopsForm(Head(pops)) => Top = Profile
        /\ UNCHANGED <<stack, children, wishes, held, cells, rows, counts, forms, leaving, sent>>

\* A kill, or the crash of adding a wish to a child whose context was reset.
Relaunch ==
  /\ held' = NoChild
  /\ pops' = <<>>
  /\ leaving' = {}
  /\ UNCHANGED <<children, wishes, counts, forms, sent>>
  /\ Show(<<Profile>>)

Next ==
  \/ Back
  \/ OpenChildForm
  \/ \E id \in ChildId, name \in Name : ChildDone(id, name)
  \/ \E i \in 1 .. Len(cells) : TapCell(i)
  \/ \E kind \in Kind : OpenList(kind)
  \/ OpenItemForm
  \/ OpenLetterForm
  \/ \E id \in WishId : SaveItem(id)
  \/ \E id \in WishId : SaveLetter(id)
  \/ RunPop
  \/ \E form \in leaving : TransitionEnds(form)
  \/ ContextReset
  \/ Relaunch

\* The main thread runs what is queued.
Spec == Init /\ [][Next]_vars /\ WF_vars(RunPop)

-----------------------------------------------------------------------------
\* The list on the screen shows what is saved under the name of its child,
\* although only viewWillAppear reloads it: everything that changes the rows
\* happens on a screen above it.  (The rows of a child whose context was reset
\* are those of no child.)
ListIsFresh ==
  Top[1] \in Kind /\ held # Detached => rows = ListRows(wishes, Top[1], held)

\* A label of the detail screen, written when the screen opened and never
\* again, promises no more than the list behind it shows, although one counts
\* the child's own wishes and the other fetches by name.
LabelWithinList ==
  Top[1] \in Kind /\ held # Detached => counts[Top[1]] <= Cardinality(rows)

\* A tap opens a child of the name the cell shows, although prepare fetches
\* again and asks for the cell's index.
TapOpensCell ==
  [][\A i \in 1 .. Len(cells) :
       TapCell(i) => held'.name = cells[i].name]_vars

\* A queued pop closes its own letter form.  It closes another screen only
\* during the transition of that form, which Back or the pop of an earlier tap
\* on Save has closed; once the transition is over it does nothing.
PopClosesItsForm ==
  [][RunPop /\ stack' # stack =>
       Top = <<"letterForm", Head(pops)>> \/ Head(pops) \in leaving]_vars

\* A letter form whose Save was tapped closes.
LetterFormCloses == \A form \in 1 .. MaxForms : form \in sent ~> ~ OnStack(form)

=============================================================================
