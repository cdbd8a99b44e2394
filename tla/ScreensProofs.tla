---------------------------- MODULE ScreensProofs ----------------------------
(***************************************************************************)
(* Theorems about Screens, for every set of children, wishes and names and *)
(* any number of letter forms.                                             *)
(***************************************************************************)
EXTENDS Screens, FiniteSetTheorems, TLAPS

USE ScreensAssumption

-----------------------------------------------------------------------------
(* The navigation stack.                                                   *)

\* A stack starts at the profile, which is nowhere else.
ProfileFirst(s) ==
  /\ s \in Seq(Scene) /\ s # <<>> /\ s[1] = Profile
  /\ \A i \in 2 .. Len(s) : s[i] # Profile

\* Nothing is opened above a letter form.
FormsOnTop(s) == \A i \in 1 .. Len(s) : s[i][1] = "letterForm" => i = Len(s)

\* The profile below, the letter forms above.
WellStacked(s) == ProfileFirst(s) /\ FormsOnTop(s)

\* A letter form has a number, other screens have none.
LEMMA SceneTypes ==
  ASSUME NEW scene \in Scene
  PROVE  /\ scene = <<scene[1], scene[2]>>
         /\ scene[1] = "letterForm" => scene[2] \in 1 .. MaxForms
         /\ scene[1] # "letterForm" => scene[2] = 0
BY DEF Scene

\* The screens the actions push.
LEMMA PlainScenes ==
  /\ Profile \in Scene
  /\ \A scene \in {"childForm", "detail", "items", "itemForm", "letters"} :
       Plain(scene) \in Scene /\ Plain(scene) # Profile /\ Plain(scene)[1] = scene
  /\ \A form \in 1 .. MaxForms :
       <<"letterForm", form>> \in Scene /\ <<"letterForm", form>> # Profile
BY DEF Profile, Plain, Scene

\* The profile alone.
LEMMA ProfileAlone == WellStacked(<<Profile>>)
BY PlainScenes DEF WellStacked, ProfileFirst, FormsOnTop, Profile

\* A screen is pushed on one that is not a letter form.
LEMMA PushKeeps ==
  ASSUME NEW s, WellStacked(s), Last(s)[1] # "letterForm",
         NEW scene \in Scene, scene # Profile
  PROVE  WellStacked(Append(s, scene))
<1> DEFINE t == Append(s, scene)
<1>1. /\ s \in Seq(Scene) /\ s # <<>> /\ s[1] = Profile
      /\ \A i \in 2 .. Len(s) : s[i] # Profile
      /\ \A i \in 1 .. Len(s) : s[i][1] # "letterForm"
  BY DEF WellStacked, ProfileFirst, FormsOnTop, Last
<1>2. /\ t \in Seq(Scene) /\ Len(t) = Len(s) + 1 /\ t[Len(t)] = scene
      /\ \A i \in 1 .. Len(s) : t[i] = s[i]
  BY <1>1
<1> HIDE DEF t
<1>3. t # <<>> /\ t[1] = Profile /\ \A i \in 2 .. Len(t) : t[i] # Profile
  BY <1>1, <1>2
<1>4. \A i \in 1 .. Len(t) : t[i][1] = "letterForm" => i = Len(t)
  BY <1>1, <1>2
<1>5. WellStacked(t)
  BY <1>2, <1>3, <1>4 DEF WellStacked, ProfileFirst, FormsOnTop
<1>6. QED
  BY <1>5 DEF t

\* Whatever is above the profile can be popped.
LEMMA PopKeeps ==
  ASSUME NEW s, WellStacked(s), Last(s) # Profile
  PROVE  WellStacked(Front(s))
<1>1. /\ s \in Seq(Scene) /\ s # <<>> /\ s[1] = Profile /\ s[Len(s)] # Profile
      /\ \A i \in 2 .. Len(s) : s[i] # Profile
      /\ \A i \in 1 .. Len(s) : s[i][1] = "letterForm" => i = Len(s)
  BY DEF WellStacked, ProfileFirst, FormsOnTop, Last
<1>2. Len(s) \in Nat /\ Len(s) >= 2
  BY <1>1
<1>3. /\ Front(s) \in Seq(Scene) /\ Len(Front(s)) = Len(s) - 1
      /\ \A i \in 1 .. Len(s) - 1 : Front(s)[i] = s[i]
  BY <1>1, <1>2 DEF Front
<1>4. QED
  BY <1>1, <1>2, <1>3 DEF WellStacked, ProfileFirst, FormsOnTop

-----------------------------------------------------------------------------
(* Type correctness                                                        *)

\* What was saved is finite.
Finite == IsFiniteSet(children) /\ IsFiniteSet(wishes)

\* The inductive invariant of the stack.
ScreensInv == TypeOK /\ Finite /\ WellStacked(stack)

\* A fetch returns the children in some order.
LEMMA OrdersType ==
  ASSUME NEW saved \in SUBSET Child, IsFiniteSet(saved)
  PROVE  \A order \in Orders(saved) : order \in Seq(Child) /\ DOMAIN order = 1 .. Len(order)
<1>1. Cardinality(saved) \in Nat
  BY FS_CardinalityType
<1>2. QED
  BY <1>1 DEF Orders

\* What a screen that appears loads has the type of what it shows.
LEMMA ShowKeeps ==
  ASSUME ScreensInv, NEW s, WellStacked(s), Show(s),
         children' \in SUBSET Child, IsFiniteSet(children'), wishes' \in SUBSET Wish
  PROVE  stack' = s /\ rows' \in SUBSET Wish /\ cells' \in Seq(Child)
<1>1. rows' \in SUBSET Wish
  BY DEF Show, ListRows, ScreensInv, TypeOK
<1>2. cells' \in Seq(Child)
  BY OrdersType DEF Show, ScreensInv, TypeOK
<1>3. QED
  BY <1>1, <1>2 DEF Show

\* Labels are numbers.
LEMMA CountsType ==
  ASSUME IsFiniteSet(wishes), NEW child
  PROVE  CountsOf(child) \in [Kind -> Nat]
<1>1. ASSUME NEW kind \in Kind
      PROVE  Cardinality({w \in wishes : w.kind = kind /\ w.child = child}) \in Nat
  <2>1. {w \in wishes : w.kind = kind /\ w.child = child} \in SUBSET wishes
    OBVIOUS
  <2>2. QED
    BY <2>1, FS_Subset, FS_CardinalityType
<1>2. QED
  BY <1>1 DEF CountsOf

\* A save leaves a wish more, or a context that was reset.
LEMMA SaveKeeps ==
  ASSUME ScreensInv, NEW id \in WishId, NEW kind \in Kind, Save(id, kind)
  PROVE  /\ wishes' \in SUBSET Wish /\ IsFiniteSet(wishes')
         /\ held' \in Child \cup {NoChild, Detached}
<1>1. [id |-> id, kind |-> kind, child |-> held] \in Wish
  BY DEF Save, ScreensInv, TypeOK, Wish
<1>2. IsFiniteSet(wishes \cup {[id |-> id, kind |-> kind, child |-> held]})
  BY FS_AddElement DEF ScreensInv, Finite
<1>3. QED
  BY <1>1, <1>2 DEF Save, ScreensInv, TypeOK, Finite

\* The disjuncts of a step, one by one.
LEMMA Steps ==
  ASSUME NEW P, Next,
         Back => P,
         OpenChildForm => P,
         \A id \in ChildId, name \in Name : ChildDone(id, name) => P,
         \A i \in 1 .. Len(cells) : TapCell(i) => P,
         \A kind \in Kind : OpenList(kind) => P,
         OpenItemForm => P,
         OpenLetterForm => P,
         \A id \in WishId : SaveItem(id) => P,
         \A id \in WishId : SaveLetter(id) => P,
         RunPop => P,
         \A form \in leaving : TransitionEnds(form) => P,
         ContextReset => P,
         Relaunch => P
  PROVE  P
BY DEF Next

\* The screens the top one can be.
LEMMA TopTypes ==
  ASSUME WellStacked(stack)
  PROVE  /\ Top \in Scene
         /\ Top[1] = "letterForm" => Top[2] \in 1 .. MaxForms
         /\ Top = Profile <=> Top[1] = "profile"
<1>1. Top \in Scene
  BY DEF WellStacked, ProfileFirst, Top, Last
<1>2. Top = Profile <=> Top[1] = "profile"
  BY <1>1 DEF Scene, Profile
<1>3. QED
  BY <1>1, <1>2, SceneTypes

\* A form on the stack is the top screen.
LEMMA FormIsTop ==
  ASSUME WellStacked(stack), NEW form \in 1 .. MaxForms, OnStack(form)
  PROVE  Top = <<"letterForm", form>>
<1>1. PICK i \in 1 .. Len(stack) : stack[i] = <<"letterForm", form>>
  BY DEF OnStack, ToSet, WellStacked, ProfileFirst
<1>2. i = Len(stack)
  BY <1>1 DEF WellStacked, FormsOnTop
<1>3. QED
  BY <1>1, <1>2 DEF Top, Last

\* Every step keeps the invariant.
LEMMA ScreensInvStep == ScreensInv /\ [Next]_vars => ScreensInv'
<1> SUFFICES ASSUME ScreensInv, [Next]_vars PROVE ScreensInv'
  OBVIOUS
<1>t. TypeOK /\ Finite /\ WellStacked(stack) /\ children \in SUBSET Child /\ wishes \in SUBSET Wish
      /\ IsFiniteSet(children) /\ IsFiniteSet(wishes)
  BY DEF ScreensInv, TypeOK, Finite
\* What a screen that appears on a well-formed stack leaves to show.
<1>s. ASSUME NEW s, WellStacked(s), Show(s),
             children' \in SUBSET Child, IsFiniteSet(children'),
             wishes' \in SUBSET Wish, IsFiniteSet(wishes'),
             held' \in Child \cup {NoChild, Detached},
             counts' \in [Kind -> Nat], forms' \in 0 .. MaxForms,
             pops' \in Seq(1 .. MaxForms), leaving' \subseteq 1 .. MaxForms,
             sent' \subseteq 1 .. MaxForms
      PROVE  ScreensInv'
  BY <1>s, ShowKeeps DEF ScreensInv, TypeOK, Finite, WellStacked, ProfileFirst
<1>0. CASE UNCHANGED vars
  BY <1>0, <1>t DEF ScreensInv, TypeOK, Finite, vars
<1>p. ASSUME PopTop, pops' \in Seq(1 .. MaxForms) PROVE ScreensInv'
  <2>1. WellStacked(Front(stack))
    BY <1>p, <1>t, PopKeeps DEF PopTop, Top
  <2>2. held' \in Child \cup {NoChild, Detached} /\ leaving' \subseteq 1 .. MaxForms
    BY <1>p, <1>t DEF PopTop, TypeOK
  <2>3. QED
    BY <1>p, <1>s, <1>t, <2>1, <2>2 DEF PopTop, Pop, TypeOK
<1>1. ASSUME Back PROVE ScreensInv'
  BY <1>1, <1>p, <1>t DEF Back, TypeOK
<1>2. ASSUME OpenChildForm PROVE ScreensInv'
  <2>1. WellStacked(Append(stack, Plain("childForm")))
    BY <1>2, <1>t, PushKeeps, PlainScenes DEF OpenChildForm, Top, Profile
  <2>2. QED
    BY <1>2, <1>s, <1>t, <2>1 DEF OpenChildForm, Push, TypeOK
<1>3. ASSUME NEW id \in ChildId, NEW name \in Name, ChildDone(id, name) PROVE ScreensInv'
  <2>1. WellStacked(Front(stack))
    BY <1>3, <1>t, PopKeeps DEF ChildDone, Top, Profile
  <2>2. [id |-> id, name |-> name] \in Child
    BY DEF Child
  <2>3. IsFiniteSet(children \cup {[id |-> id, name |-> name]})
    BY <1>t, FS_AddElement
  <2>4. children' \in SUBSET Child /\ IsFiniteSet(children')
    BY <1>3, <1>t, <2>2, <2>3 DEF ChildDone
  <2>5. QED
    BY <1>3, <1>s, <1>t, <2>1, <2>4 DEF ChildDone, Pop, TypeOK
<1>4. ASSUME NEW i \in 1 .. Len(cells), TapCell(i) PROVE ScreensInv'
  <2>1. WellStacked(Append(stack, Plain("detail")))
    BY <1>4, <1>t, PushKeeps, PlainScenes DEF TapCell, Top, Profile
  <2>2. held' \in Child \cup {NoChild, Detached} /\ counts' \in [Kind -> Nat]
    <3>1. PICK order \in Orders(children) :
             i \in DOMAIN order /\ held' = order[i] /\ counts' = CountsOf(order[i])
      BY <1>4 DEF TapCell
    <3>2. order[i] \in Child
      BY <1>t, <3>1, OrdersType
    <3>3. QED
      BY <1>t, <3>1, <3>2, CountsType
  <2>3. QED
    BY <1>4, <1>s, <1>t, <2>1, <2>2 DEF TapCell, Push, TypeOK
<1>5. ASSUME NEW kind \in Kind, OpenList(kind) PROVE ScreensInv'
  <2>1. WellStacked(Append(stack, Plain(kind)))
    BY <1>5, <1>t, PushKeeps, PlainScenes DEF OpenList, Top, Kind
  <2>2. QED
    BY <1>5, <1>s, <1>t, <2>1 DEF OpenList, Push, TypeOK
<1>6. ASSUME OpenItemForm PROVE ScreensInv'
  <2>1. WellStacked(Append(stack, Plain("itemForm")))
    BY <1>6, <1>t, PushKeeps, PlainScenes DEF OpenItemForm, Top
  <2>2. QED
    BY <1>6, <1>s, <1>t, <2>1 DEF OpenItemForm, Push, TypeOK
<1>7. ASSUME OpenLetterForm PROVE ScreensInv'
  <2>1. forms \in Nat /\ forms + 1 \in 1 .. MaxForms /\ forms' = forms + 1
    BY <1>7, <1>t DEF OpenLetterForm, TypeOK
  <2>2. WellStacked(Append(stack, <<"letterForm", forms + 1>>))
    BY <1>7, <1>t, <2>1, PushKeeps, PlainScenes DEF OpenLetterForm, Top
  <2>3. forms' \in 0 .. MaxForms
    BY <2>1
  <2>4. QED
    BY <1>7, <1>s, <1>t, <2>2, <2>3 DEF OpenLetterForm, Push, TypeOK
<1>8. ASSUME NEW id \in WishId, SaveItem(id) PROVE ScreensInv'
  <2>1. WellStacked(Front(stack))
    BY <1>8, <1>t, PopKeeps DEF SaveItem, Top, Profile
  <2>2. /\ wishes' \in SUBSET Wish /\ IsFiniteSet(wishes')
        /\ held' \in Child \cup {NoChild, Detached}
    BY <1>8, SaveKeeps DEF SaveItem, Kind
  <2>3. QED
    BY <1>8, <1>s, <1>t, <2>1, <2>2 DEF SaveItem, Pop, TypeOK
<1>9. ASSUME NEW id \in WishId, SaveLetter(id) PROVE ScreensInv'
  <2>1. Top[2] \in 1 .. MaxForms
    BY <1>9, <1>t, TopTypes DEF SaveLetter
  <2>2. pops' \in Seq(1 .. MaxForms) /\ sent' \subseteq 1 .. MaxForms
    <3>1. pops \in Seq(1 .. MaxForms) /\ sent \subseteq 1 .. MaxForms
      BY <1>t DEF TypeOK
    <3>2. pops' = Append(pops, Top[2]) /\ sent' = sent \cup {Top[2]}
      BY <1>9 DEF SaveLetter, PopsAfterSave
    <3>3. \A form \in 1 .. MaxForms : Append(pops, form) \in Seq(1 .. MaxForms)
      BY <3>1
    <3>4. QED
      BY <2>1, <3>1, <3>2, <3>3
  <2>3. /\ wishes' \in SUBSET Wish /\ IsFiniteSet(wishes')
        /\ held' \in Child \cup {NoChild, Detached}
    BY <1>9, SaveKeeps DEF SaveLetter, Kind
  <2>4. QED
    BY <1>9, <1>t, <2>2, <2>3 DEF SaveLetter, ScreensInv, TypeOK, Finite
<1>10. ASSUME RunPop PROVE ScreensInv'
  <2>1. Head(pops) \in 1 .. MaxForms /\ pops' \in Seq(1 .. MaxForms)
    BY <1>10, <1>t DEF RunPop, TypeOK
  <2>2. CASE PopTop
    BY <1>p, <2>1, <2>2
  <2>3. CASE ~ PopTop
    BY <1>10, <1>t, <2>1, <2>3 DEF RunPop, ScreensInv, TypeOK, Finite
  <2>4. QED
    BY <2>2, <2>3
<1>e. ASSUME NEW form \in leaving, TransitionEnds(form) PROVE ScreensInv'
  BY <1>e, <1>t DEF TransitionEnds, ScreensInv, TypeOK, Finite
<1>r. ASSUME ContextReset PROVE ScreensInv'
  BY <1>r, <1>t DEF ContextReset, ScreensInv, TypeOK, Finite
<1>11. ASSUME Relaunch PROVE ScreensInv'
  <2>1. WellStacked(<<Profile>>)
    BY ProfileAlone
  <2>2. pops' \in Seq(1 .. MaxForms)
    BY <1>11 DEF Relaunch
  <2>3. QED
    BY <1>11, <1>s, <1>t, <2>1, <2>2 DEF Relaunch, TypeOK
<1>12. QED
  BY <1>0, <1>1, <1>2, <1>3, <1>4, <1>5, <1>6, <1>7, <1>8, <1>9, <1>10, <1>e, <1>r, <1>11, Steps

\* The program starts with the profile.
LEMMA ScreensInvInit == Init => ScreensInv
<1> SUFFICES ASSUME Init PROVE ScreensInv
  OBVIOUS
<1>1. WellStacked(stack)
  BY ProfileAlone DEF Init
<1>2. Finite
  BY FS_EmptySet DEF Init, Finite
<1>3. TypeOK
  BY <1>1 DEF Init, TypeOK, WellStacked, ProfileFirst, Kind
<1>4. QED
  BY <1>1, <1>2, <1>3 DEF ScreensInv

\* However screens are opened, closed, popped and reset, the stack starts at the
\* profile, which is nowhere else, and a letter form is never below another screen.
THEOREM Invariance == Spec => []ScreensInv
BY ScreensInvInit, ScreensInvStep, PTL DEF Spec

\* The variables of Screens keep their types: in particular nothing is ever popped
\* from a stack that has only the profile.
THEOREM TypeCorrect == Spec => []TypeOK
<1>1. ScreensInv => TypeOK
  BY DEF ScreensInv
<1>2. QED
  BY <1>1, Invariance, PTL

-----------------------------------------------------------------------------
(* The lists and the queued pops                                           *)

\* Whatever is saved, failed, queued and closed above it, the list on the
\* screen shows what is saved under the name of its child.
THEOREM ListIsFreshHolds == Spec => []ListIsFresh
<1>1. Init => ListIsFresh
  BY DEF Init, ListIsFresh, Top, Last, Profile, Kind
<1>s. ASSUME NEW s, Show(s) PROVE ListIsFresh'
  BY <1>s DEF Show, ListReloads, ListIsFresh, Top
<1>2. ScreensInv /\ ListIsFresh /\ [Next]_vars => ListIsFresh'
  <2> SUFFICES ASSUME ScreensInv, ListIsFresh, [Next]_vars PROVE ListIsFresh'
    OBVIOUS
  <2>0. CASE UNCHANGED vars
    BY <2>0 DEF vars, ListIsFresh, Top
  <2>1. Back \/ OpenChildForm \/ OpenItemForm \/ OpenLetterForm \/ Relaunch => ListIsFresh'
    BY <1>s DEF Back, PopTop, OpenChildForm, OpenItemForm, OpenLetterForm, Relaunch, Push, Pop
  <2>2. ASSUME NEW id \in ChildId, NEW name \in Name, ChildDone(id, name) PROVE ListIsFresh'
    BY <1>s, <2>2 DEF ChildDone, Pop
  <2>3. ASSUME NEW i \in 1 .. Len(cells), TapCell(i) PROVE ListIsFresh'
    BY <1>s, <2>3 DEF TapCell, Push
  <2>4. ASSUME NEW kind \in Kind, OpenList(kind) PROVE ListIsFresh'
    BY <1>s, <2>4 DEF OpenList, Push
  <2>5. ASSUME NEW id \in WishId, SaveItem(id) PROVE ListIsFresh'
    BY <1>s, <2>5 DEF SaveItem, Pop
  <2>6. ASSUME NEW id \in WishId, SaveLetter(id) PROVE ListIsFresh'
    BY <2>6 DEF SaveLetter, ListIsFresh, Top, Kind
  <2>7. RunPop => ListIsFresh'
    BY <1>s DEF RunPop, PopTop, Pop, ListIsFresh, Top
  <2>8. ASSUME NEW form \in leaving, TransitionEnds(form) PROVE ListIsFresh'
    BY <2>8 DEF TransitionEnds, ListIsFresh, Top
  <2>9. ContextReset => ListIsFresh'
    BY DEF ContextReset, ListIsFresh
  <2>10. QED
    BY <2>0, <2>1, <2>2, <2>3, <2>4, <2>5, <2>6, <2>7, <2>8, <2>9, Steps
<1>3. QED
  BY <1>1, <1>2, Invariance, PTL DEF Spec

\* After any double taps, backs and new forms, a queued pop closes the form that
\* queued it, or another screen while the transition of that form has not ended.
THEOREM PopClosesItsFormHolds == Spec => PopClosesItsForm
<1> DEFINE Closes == RunPop /\ stack' # stack =>
                       Top = <<"letterForm", Head(pops)>> \/ Head(pops) \in leaving
<1>1. ScreensInv => Closes
  <2> SUFFICES ASSUME ScreensInv, RunPop, stack' # stack
               PROVE  Top = <<"letterForm", Head(pops)>> \/ Head(pops) \in leaving
    OBVIOUS
  <2>1. pops \in Seq(1 .. MaxForms) /\ WellStacked(stack)
    BY DEF ScreensInv, TypeOK
  <2>2. Head(pops) \in 1 .. MaxForms /\ (OnStack(Head(pops)) \/ Head(pops) \in leaving)
    BY <2>1 DEF RunPop, PopsForm
  <2>3. QED
    BY <2>1, <2>2, FormIsTop
<1>2. QED
  BY <1>1, Invariance, PTL DEF Spec, PopClosesItsForm

-----------------------------------------------------------------------------
(* The labels of the detail screen                                         *)

\* The detail screen and the child form are opened on the profile, all others above
\* the detail screen; nothing is opened above the child form.
Placed(s) == \A i \in 2 .. Len(s) :
  /\ s[i][1] \in {"detail", "childForm"} <=> i = 2
  /\ s[i][1] = "childForm" => i = Len(s)

\* The screens above the profile have a child, but for the child form.
HasChild == held = NoChild => Top[1] \in {"profile", "childForm"}

\* A label is never ahead of the child's own wishes: they only grow, until the child is
\* given up.
LabelsBehind ==
  held \in Child => \A kind \in Kind : counts[kind] <= CountsOf(held)[kind]

\* The detail screen is where the profile put it, has a child, and promises no more
\* than was saved.
LabelInv == Placed(stack) /\ HasChild /\ LabelsBehind

\* The screen below one that the profile opened is the profile.
LEMMA BelowIsProfile ==
  ASSUME WellStacked(stack), Placed(stack), Top[1] \in {"detail", "childForm"}
  PROVE  Len(stack) = 2 /\ Front(stack) = <<Profile>>
<1>1. /\ stack \in Seq(Scene) /\ stack # <<>> /\ stack[1] = Profile
      /\ Top = stack[Len(stack)] /\ Len(stack) \in Nat
  BY DEF WellStacked, ProfileFirst, Top, Last
<1>2. Len(stack) = 2
  <2>1. stack[Len(stack)] # Profile
    BY <1>1 DEF Profile
  <2>2. Len(stack) \in 2 .. Len(stack)
    BY <1>1, <2>1
  <2>3. QED
    BY <1>1, <2>2 DEF Placed
<1>3. Front(stack) \in Seq(Scene) /\ Len(Front(stack)) = 1 /\ Front(stack)[1] = Profile
  BY <1>1, <1>2 DEF Front
<1>4. QED
  BY <1>2, <1>3

\* Going back leaves the detail screen on the profile.
LEMMA PoppedIsPlaced ==
  ASSUME WellStacked(stack), Placed(stack), Top # Profile
  PROVE  Placed(Front(stack))
<1>1. /\ stack \in Seq(Scene) /\ Len(stack) \in Nat /\ stack # <<>> /\ stack[1] = Profile
      /\ stack[Len(stack)] # Profile
  BY DEF WellStacked, ProfileFirst, Top, Last
<1>2. Len(stack) >= 2
  BY <1>1
<1>3. Len(Front(stack)) = Len(stack) - 1 /\ \A i \in 1 .. Len(stack) - 1 : Front(stack)[i] = stack[i]
  BY <1>1, <1>2 DEF Front
<1>4. \A i \in 2 .. Len(stack) - 1 : stack[i][1] # "childForm"
  BY <1>1 DEF Placed
<1>5. QED
  BY <1>1, <1>3, <1>4 DEF Placed

\* The profile on top is alone.
LEMMA OnlyProfile ==
  ASSUME WellStacked(stack), Top = Profile
  PROVE  Len(stack) = 1
<1>1. /\ stack \in Seq(Scene) /\ stack # <<>> /\ stack[1] = Profile
      /\ stack[Len(stack)] = Profile
      /\ \A i \in 2 .. Len(stack) : stack[i] # Profile
  BY DEF WellStacked, ProfileFirst, Top, Last
<1>2. Len(stack) \in Nat /\ Len(stack) >= 1
  BY DEF WellStacked, ProfileFirst
<1>3. ASSUME Len(stack) >= 2 PROVE FALSE
  BY <1>1, <1>3
<1>4. QED
  BY <1>2, <1>3

\* So does opening a screen.
LEMMA PushedIsPlaced ==
  ASSUME WellStacked(stack), Placed(stack), NEW scene \in Scene,
         \/ Top = Profile /\ scene[1] \in {"detail", "childForm"}
         \/ Top[1] \notin {"profile", "childForm"} /\ scene[1] \notin {"detail", "childForm"}
  PROVE  Placed(Append(stack, scene))
<1> DEFINE t == Append(stack, scene)
<1>0. stack \in Seq(Scene) /\ Len(stack) \in Nat /\ Len(stack) >= 1
  BY DEF WellStacked, ProfileFirst
<1>1. /\ Top = stack[Len(stack)] /\ stack[1] = Profile
      /\ \A i \in 2 .. Len(stack) : stack[i] # Profile
  BY DEF WellStacked, ProfileFirst, Top, Last
<1>2. Len(t) = Len(stack) + 1 /\ t[Len(t)] = scene /\ \A i \in 1 .. Len(stack) : t[i] = stack[i]
  BY <1>0
<1> HIDE DEF t
<1>3. CASE Top = Profile /\ scene[1] \in {"detail", "childForm"}
  <2>1. Len(stack) = 1
    BY <1>3, OnlyProfile
  <2>2. Len(t) = 2 /\ t[2] = scene
    BY <1>2, <2>1
  <2>3. Placed(t)
    BY <1>3, <2>2 DEF Placed
  <2>4. QED
    BY <2>3 DEF t
<1>4. CASE Top[1] \notin {"profile", "childForm"} /\ scene[1] \notin {"detail", "childForm"}
  <2>1. Len(stack) >= 2
    BY <1>0, <1>1, <1>4 DEF Profile
  <2>2. \A i \in 2 .. Len(stack) : stack[i][1] # "childForm"
    BY <1>0, <1>1, <1>4 DEF Placed
  <2>3. \A i \in 2 .. Len(t) : /\ t[i][1] \in {"detail", "childForm"} <=> i = 2
                               /\ t[i][1] # "childForm"
    BY <1>0, <1>2, <1>4, <2>1, <2>2 DEF Placed
  <2>4. Placed(t)
    BY <2>3 DEF Placed
  <2>5. QED
    BY <2>4 DEF t
<1>5. QED
  BY <1>3, <1>4

\* A child's own wishes of a kind are among those of its name.
LEMMA OwnAreRows ==
  ASSUME IsFiniteSet(wishes), NEW kind \in Kind, NEW child \in Child
  PROVE  /\ CountsOf(child)[kind] \in Nat
         /\ CountsOf(child)[kind] <= Cardinality(ListRows(wishes, kind, child))
<1> DEFINE own == {w \in wishes : w.kind = kind /\ w.child = child}
           all == ListRows(wishes, kind, child)
<1>1. own \subseteq all
  BY NoChildAssumption DEF ListRows, NameOf, Child
<1>2. IsFiniteSet(all)
  <2>1. all \subseteq wishes
    BY DEF ListRows
  <2>2. QED
    BY <2>1, FS_Subset
<1>3. Cardinality(own) <= Cardinality(all) /\ Cardinality(own) \in Nat
  BY <1>1, <1>2, FS_Subset, FS_CardinalityType
<1>4. QED
  BY <1>3 DEF CountsOf

\* Wishes that are added leave no label ahead.
LEMMA MoreWishes ==
  ASSUME ScreensInv, LabelsBehind, wishes \subseteq wishes', IsFiniteSet(wishes'),
         counts' = counts, held' \in {held, NoChild, Detached}
  PROVE  LabelsBehind'
<1> SUFFICES ASSUME held' \in Child, NEW kind \in Kind
             PROVE  counts[kind] <= CountsOf(held)'[kind]
  BY DEF LabelsBehind
<1>1. held' = held
  BY NoChildAssumption DEF Child
<1> DEFINE old == {w \in wishes : w.kind = kind /\ w.child = held}
           new == {w \in wishes' : w.kind = kind /\ w.child = held}
<1>2. old \subseteq new /\ IsFiniteSet(new)
  <2>1. new \subseteq wishes'
    OBVIOUS
  <2>2. QED
    BY <2>1, FS_Subset
<1>3. Cardinality(old) <= Cardinality(new) /\ Cardinality(old) \in Nat /\ Cardinality(new) \in Nat
  BY <1>2, FS_Subset, FS_CardinalityType
<1>4. counts[kind] <= Cardinality(old) /\ counts[kind] \in Nat
  BY <1>1 DEF LabelsBehind, CountsOf, ScreensInv, TypeOK
<1>5. CountsOf(held)'[kind] = Cardinality(new)
  BY <1>1 DEF CountsOf
<1>6. QED
  BY <1>3, <1>4, <1>5

\* Every step keeps the labels behind the lists.
LEMMA LabelInvStep == ScreensInv /\ ScreensInv' /\ LabelInv /\ [Next]_vars => LabelInv'
<1> SUFFICES ASSUME ScreensInv, ScreensInv', LabelInv, [Next]_vars PROVE LabelInv'
  OBVIOUS
<1>t. /\ WellStacked(stack) /\ Placed(stack) /\ HasChild /\ LabelsBehind
      /\ IsFiniteSet(wishes) /\ IsFiniteSet(wishes')
  BY DEF ScreensInv, LabelInv, Finite
<1>n. NoChild \notin Child /\ Detached \notin Child /\ Detached # NoChild
  BY NoChildAssumption DEF Child
\* Wishes stay or grow; the child stays or is given up.
<1>w. ASSUME wishes' = wishes \/ \E id \in WishId, kind \in Kind : Save(id, kind),
             counts' = counts,
             held' \in {held, NoChild, Detached}
      PROVE  LabelsBehind'
  BY <1>t, <1>w, MoreWishes DEF Save
<1>0. CASE UNCHANGED vars
  BY <1>0, <1>t, <1>w DEF vars, LabelInv, HasChild, Top
\* A screen above a child's is closed or opened, or one of the profile's closed.
<1>p. ASSUME stack' = Front(stack), Top # Profile, LabelsBehind',
             held' = NoChild => held = NoChild \/ Top[1] = "detail"
      PROVE  LabelInv'
  <2>1. Placed(stack')
    BY <1>p, <1>t, PoppedIsPlaced
  <2>2. CASE Top[1] \in {"detail", "childForm"}
    <3>1. stack' = <<Profile>>
      BY <1>p, <1>t, <2>2, BelowIsProfile
    <3>2. QED
      BY <1>p, <2>1, <3>1 DEF LabelInv, HasChild, Top, Last, Profile
  <2>3. CASE Top[1] \notin {"detail", "childForm"}
    <3>1. held' # NoChild
      BY <1>p, <1>t, <2>3, TopTypes DEF HasChild
    <3>2. QED
      BY <1>p, <2>1, <3>1 DEF LabelInv, HasChild
  <2>4. QED
    BY <2>2, <2>3
<1>q. ASSUME NEW scene \in Scene, stack' = Append(stack, scene), LabelsBehind',
             \/ Top = Profile /\ scene[1] = "childForm"
             \/ Top = Profile /\ scene[1] = "detail" /\ held' \in Child
             \/ /\ Top[1] \notin {"profile", "childForm"} /\ held' = held
                /\ scene[1] \notin {"detail", "childForm"}
      PROVE  LabelInv'
  <2>1. Placed(stack')
    BY <1>q, <1>t, PushedIsPlaced
  <2>2. Top' = scene
    BY <1>q, <1>t DEF Top, Last, WellStacked, ProfileFirst
  <2>3. HasChild'
    BY <1>q, <1>t, <1>n, <2>2 DEF HasChild
  <2>4. QED
    BY <1>q, <2>1, <2>3 DEF LabelInv
<1>b. ASSUME PopTop PROVE LabelInv'
  <2>1. LabelsBehind'
    BY <1>b, <1>w DEF PopTop
  <2>2. QED
    BY <1>b, <1>p, <2>1 DEF PopTop, Pop, Show
<1>1. ASSUME Back PROVE LabelInv'
  BY <1>1, <1>b DEF Back
<1>2. ASSUME OpenChildForm PROVE LabelInv'
  <2>1. LabelsBehind'
    BY <1>2, <1>w DEF OpenChildForm
  <2>2. QED
    BY <1>2, <1>q, <2>1, PlainScenes DEF OpenChildForm, Push, Show
<1>3. ASSUME NEW id \in ChildId, NEW name \in Name, ChildDone(id, name) PROVE LabelInv'
  <2>1. LabelsBehind'
    BY <1>3, <1>w DEF ChildDone
  <2>2. QED
    BY <1>3, <1>p, <2>1 DEF ChildDone, Pop, Show, Profile
<1>4. ASSUME NEW i \in 1 .. Len(cells), TapCell(i) PROVE LabelInv'
  <2>1. PICK order \in Orders(children) :
           i \in DOMAIN order /\ held' = order[i] /\ counts' = CountsOf(order[i])
    BY <1>4 DEF TapCell
  <2>2. held' \in Child /\ wishes' = wishes
    <3>1. children \in SUBSET Child /\ IsFiniteSet(children)
      BY DEF ScreensInv, TypeOK, Finite
    <3>2. order \in Seq(Child) /\ i \in 1 .. Len(order)
      BY <2>1, <3>1, OrdersType
    <3>3. QED
      BY <1>4, <2>1, <3>2 DEF TapCell
  <2>3. LabelsBehind'
    <3>1. counts' = CountsOf(held)'
      BY <2>1, <2>2 DEF CountsOf
    <3>2. \A kind \in Kind : counts'[kind] \in Nat
      BY DEF ScreensInv, TypeOK
    <3>3. QED
      BY <3>1, <3>2 DEF LabelsBehind
  <2>4. QED
    BY <1>4, <1>q, <2>2, <2>3, PlainScenes DEF TapCell, Push, Show
<1>5. ASSUME NEW kind \in Kind, OpenList(kind) PROVE LabelInv'
  <2>1. LabelsBehind'
    BY <1>5, <1>w DEF OpenList
  <2>2. QED
    BY <1>5, <1>q, <2>1, PlainScenes DEF OpenList, Push, Show, Kind
<1>6. ASSUME OpenItemForm PROVE LabelInv'
  <2>1. LabelsBehind'
    BY <1>6, <1>w DEF OpenItemForm
  <2>2. QED
    BY <1>6, <1>q, <2>1, PlainScenes DEF OpenItemForm, Push, Show
<1>7. ASSUME OpenLetterForm PROVE LabelInv'
  <2>1. LabelsBehind'
    BY <1>7, <1>w DEF OpenLetterForm
  <2>2. forms + 1 \in 1 .. MaxForms
    BY <1>7 DEF OpenLetterForm, ScreensInv, TypeOK
  <2>3. QED
    BY <1>7, <1>q, <2>1, <2>2, PlainScenes DEF OpenLetterForm, Push, Show
<1>8. ASSUME NEW id \in WishId, SaveItem(id) PROVE LabelInv'
  <2>1. LabelsBehind'
    BY <1>8, <1>w DEF SaveItem, Save, Kind
  <2>2. held # NoChild
    BY <1>8, <1>t DEF SaveItem, HasChild
  <2>3. held' # NoChild
    BY <1>8, <1>n, <2>2 DEF SaveItem, Save
  <2>4. QED
    BY <1>8, <1>p, <2>1, <2>3 DEF SaveItem, Pop, Show, Profile
<1>9. ASSUME NEW id \in WishId, SaveLetter(id) PROVE LabelInv'
  <2>1. LabelsBehind'
    BY <1>9, <1>w DEF SaveLetter, Save, Kind
  <2>2. held # NoChild /\ stack' = stack
    BY <1>9, <1>t DEF SaveLetter, HasChild
  <2>3. held' # NoChild
    BY <1>9, <1>n, <2>2 DEF SaveLetter, Save
  <2>4. QED
    BY <1>t, <2>1, <2>2, <2>3 DEF LabelInv, HasChild
<1>10. ASSUME RunPop PROVE LabelInv'
  <2>1. CASE PopTop
    BY <1>b, <2>1
  <2>2. CASE ~ PopTop
    <3>1. LabelsBehind' /\ UNCHANGED <<stack, held>>
      BY <1>10, <1>w, <2>2 DEF RunPop
    <3>2. QED
      BY <1>t, <3>1 DEF LabelInv, HasChild, Top
  <2>3. QED
    BY <2>1, <2>2
<1>e. ASSUME NEW form \in leaving, TransitionEnds(form) PROVE LabelInv'
  <2>1. LabelsBehind' /\ UNCHANGED <<stack, held>>
    BY <1>e, <1>w DEF TransitionEnds
  <2>2. QED
    BY <1>t, <2>1 DEF LabelInv, HasChild, Top
<1>r. ASSUME ContextReset PROVE LabelInv'
  <2>1. LabelsBehind' /\ stack' = stack /\ held' # NoChild
    BY <1>n, <1>r, <1>w DEF ContextReset
  <2>2. QED
    BY <1>t, <2>1 DEF LabelInv, HasChild
<1>11. ASSUME Relaunch PROVE LabelInv'
  <2>1. stack' = <<Profile>> /\ LabelsBehind'
    BY <1>11, <1>w DEF Relaunch, Show
  <2>2. QED
    BY <2>1 DEF LabelInv, Placed, HasChild, Top, Last, Profile
<1>12. QED
  BY <1>0, <1>1, <1>2, <1>3, <1>4, <1>5, <1>6, <1>7, <1>8, <1>9, <1>10, <1>e, <1>r, <1>11, Steps

\* With namesakes, failed saves and letters closed behind the parent's back, a label
\* never promises more wishes than the list it opens shows.
THEOREM LabelWithinListHolds == Spec => []LabelWithinList
<1>1. Init => LabelInv
  BY NoChildAssumption DEF Init, LabelInv, Placed, HasChild, LabelsBehind, Top, Last, Profile, Child
<1>2. Spec => []LabelInv
  BY <1>1, LabelInvStep, Invariance, PTL DEF Spec
<1>3. ScreensInv /\ LabelInv /\ ListIsFresh => LabelWithinList
  <2> SUFFICES ASSUME ScreensInv, LabelInv, ListIsFresh, Top[1] \in Kind, held # Detached
               PROVE  counts[Top[1]] <= Cardinality(rows)
    BY DEF LabelWithinList
  <2>1. held \in Child
    BY DEF LabelInv, HasChild, ScreensInv, TypeOK, Kind
  <2>2. rows = ListRows(wishes, Top[1], held) /\ IsFiniteSet(wishes)
    BY DEF ListIsFresh, ScreensInv, Finite
  <2>3. /\ CountsOf(held)[Top[1]] \in Nat
        /\ CountsOf(held)[Top[1]] <= Cardinality(rows)
    BY <2>1, <2>2, OwnAreRows
  <2>4. counts[Top[1]] <= CountsOf(held)[Top[1]] /\ counts[Top[1]] \in Nat
    BY <2>1 DEF LabelInv, LabelsBehind, ScreensInv, TypeOK
  <2>5. Cardinality(rows) \in Nat
    <3>1. rows \subseteq wishes
      BY <2>2 DEF ListRows
    <3>2. QED
      BY <2>2, <3>1, FS_Subset, FS_CardinalityType
  <2>6. QED
    BY <2>3, <2>4, <2>5
<1>4. QED
  BY <1>2, <1>3, Invariance, ListIsFreshHolds, PTL


-----------------------------------------------------------------------------
(* The cells of the profile                                                *)

\* An order of the children has each of them.
LEMMA OrderHasAll ==
  ASSUME NEW saved, IsFiniteSet(saved), NEW s \in Orders(saved)
  PROVE  /\ Cardinality(saved) \in Nat
         /\ s \in [1 .. Cardinality(saved) -> saved]
         /\ \A i, j \in 1 .. Cardinality(saved) : i # j => s[i] # s[j]
         /\ \A c \in saved : \E i \in 1 .. Cardinality(saved) : s[i] = c
<1> DEFINE n == Cardinality(saved)
<1>1. n \in Nat
  BY FS_CardinalityType
<1>2. s \in [1 .. n -> saved] /\ \A i, j \in 1 .. n : i < j => s[i] # s[j]
  BY DEF Orders
<1>3. \A i, j \in 1 .. n : i # j => s[i] # s[j]
  BY <1>1, <1>2
<1>4. s \in Injection(1 .. n, saved)
  BY <1>2, <1>3 DEF Injection, IsInjective
<1>5. IsFiniteSet(1 .. n) /\ Cardinality(1 .. n) = n
  BY <1>1, FS_Interval
<1>6. s \in Surjection(1 .. n, saved)
  BY <1>4, <1>5, FS_Injection
<1>7. QED
  BY <1>1, <1>2, <1>3, <1>6 DEF Surjection

\* No order has a later name at an index than another: the children from that index on
\* would not fit behind it in the other.
LEMMA NoLaterName ==
  ASSUME NEW saved \in SUBSET Child, IsFiniteSet(saved),
         NEW s \in Orders(saved), NEW t \in Orders(saved), NEW i \in 1 .. Cardinality(saved)
  PROVE  ~ (s[i].name < t[i].name)
<1> DEFINE n == Cardinality(saved)
           At(j) == CHOOSE k \in 1 .. n : s[k] = t[j]
           f == [j \in i .. n |-> At(j)]
<1> SUFFICES ASSUME s[i].name < t[i].name PROVE FALSE
  OBVIOUS
<1>1. /\ n \in Nat /\ s \in [1 .. n -> saved] /\ t \in [1 .. n -> saved]
      /\ \A j, k \in 1 .. n : j # k => t[j] # t[k]
      /\ \A c \in saved : \E k \in 1 .. n : s[k] = c
  BY OrderHasAll
<1>2. \A j, k \in 1 .. n : j < k => s[j].name <= s[k].name /\ t[j].name <= t[k].name
  BY DEF Orders
<1>3. \A c \in saved : c.name \in Nat
  BY DEF Child
<1>4. ASSUME NEW j \in i .. n PROVE At(j) \in i+1 .. n /\ s[At(j)] = t[j]
  <2>1. j \in 1 .. n
    BY <1>1
  <2>2. At(j) \in 1 .. n /\ s[At(j)] = t[j]
    BY <1>1, <2>1
  <2> HIDE DEF At
  <2>3. t[i].name <= t[j].name
    BY <1>1, <1>2, <1>3, <2>1
  <2>4. s[i].name \in Nat /\ t[i].name \in Nat /\ t[j].name \in Nat
    BY <1>1, <1>3, <2>1
  <2>5. At(j) > i
    <3>1. CASE At(j) = i
      BY <2>2, <2>3, <2>4, <3>1
    <3>2. CASE At(j) < i
      BY <1>2, <2>2, <2>3, <2>4, <3>2
    <3>3. QED
      BY <1>1, <2>2, <3>1, <3>2
  <2>6. QED
    BY <1>1, <2>2, <2>5
<1>5. f \in [i .. n -> i+1 .. n]
  BY <1>4
<1>6. /\ IsFiniteSet(i .. n) /\ Cardinality(i .. n) = n - i + 1
      /\ IsFiniteSet(i+1 .. n) /\ Cardinality(i+1 .. n) = n - i
  <2>1. i \in Int /\ i + 1 \in Int /\ n \in Int /\ i <= n
    BY <1>1
  <2>2. /\ IsFiniteSet(i .. n) /\ IsFiniteSet(i+1 .. n)
        /\ Cardinality(i .. n) = IF i > n THEN 0 ELSE n - i + 1
        /\ Cardinality(i+1 .. n) = IF i + 1 > n THEN 0 ELSE n - (i + 1) + 1
    <3> HIDE DEF n
    <3>1. QED
      BY <2>1, FS_Interval, Zenon
  <2>3. QED
    BY <2>1, <2>2
<1>7. PICK j, k \in i .. n : j # k /\ f[j] = f[k]
  <2> HIDE DEF f
  <2>1. Cardinality(i+1 .. n) < Cardinality(i .. n)
    BY <1>1, <1>6
  <2>2. QED
    BY <1>5, <1>6, <2>1, FS_PigeonHole
<1>8. t[j] = t[k]
  BY <1>4, <1>7
<1>9. QED
  BY <1>1, <1>7, <1>8

\* Two fetches of the same children differ in the order of namesakes alone.
LEMMA SameNames ==
  ASSUME NEW saved \in SUBSET Child, IsFiniteSet(saved),
         NEW s \in Orders(saved), NEW t \in Orders(saved), NEW i \in DOMAIN s
  PROVE  s[i].name = t[i].name
<1>1. i \in 1 .. Cardinality(saved)
  BY OrderHasAll
<1>2. s[i] \in saved /\ t[i] \in saved
  BY <1>1, OrderHasAll
<1>3. s[i].name \in Nat /\ t[i].name \in Nat
  BY <1>2 DEF Child
<1>4. QED
  BY <1>1, <1>3, NoLaterName

\* What the profile shows while it is on top was fetched from the children there are:
\* nothing saves a child but a form above it, and it appears anew when that closes.
CellsInv == Top = Profile => cells \in Orders(children)

\* Every step keeps the cells up to date.
LEMMA CellsInvStep == CellsInv /\ [Next]_vars => CellsInv'
<1> SUFFICES ASSUME CellsInv, [Next]_vars PROVE CellsInv'
  OBVIOUS
<1>s. ASSUME NEW s, Show(s) PROVE CellsInv'
  BY <1>s DEF Show, ProfileReloads, CellsInv, Top
<1>0. CASE UNCHANGED vars
  BY <1>0 DEF vars, CellsInv, Top
<1>1. Back \/ OpenChildForm \/ OpenItemForm \/ OpenLetterForm \/ Relaunch => CellsInv'
  BY <1>s DEF Back, PopTop, OpenChildForm, OpenItemForm, OpenLetterForm, Relaunch, Push, Pop
<1>2. ASSUME NEW id \in ChildId, NEW name \in Name, ChildDone(id, name) PROVE CellsInv'
  BY <1>s, <1>2 DEF ChildDone, Pop
<1>3. ASSUME NEW i \in 1 .. Len(cells), TapCell(i) PROVE CellsInv'
  BY <1>s, <1>3 DEF TapCell, Push
<1>4. ASSUME NEW kind \in Kind, OpenList(kind) PROVE CellsInv'
  BY <1>s, <1>4 DEF OpenList, Push
<1>5. ASSUME NEW id \in WishId, SaveItem(id) PROVE CellsInv'
  BY <1>s, <1>5 DEF SaveItem, Pop
<1>6. ASSUME NEW id \in WishId, SaveLetter(id) PROVE CellsInv'
  BY <1>6 DEF SaveLetter, CellsInv, Top
<1>7. RunPop => CellsInv'
  BY <1>s DEF RunPop, PopTop, Pop, CellsInv, Top
<1>8. ASSUME NEW form \in leaving, TransitionEnds(form) PROVE CellsInv'
  BY <1>8 DEF TransitionEnds, CellsInv, Top
<1>9. ContextReset => CellsInv'
  BY DEF ContextReset, CellsInv, Top
<1>10. QED
  BY <1>0, <1>1, <1>2, <1>3, <1>4, <1>5, <1>6, <1>7, <1>8, <1>9, Steps

\* A tap opens a child of the name the cell shows, although the child is fetched anew by
\* the cell's index and namesakes may come in another order.
THEOREM TapOpensCellHolds == Spec => TapOpensCell
<1> DEFINE Opens == \A i \in 1 .. Len(cells) : TapCell(i) => held'.name = cells[i].name
<1>1. Init => CellsInv
  <2> SUFFICES ASSUME Init PROVE <<>> \in Orders({}) /\ cells = <<>> /\ children = {}
    BY DEF CellsInv
  <2>1. 1 .. Cardinality({}) = {}
    BY FS_EmptySet
  <2>2. QED
    BY <2>1 DEF Init, Orders
<1>2. ScreensInv /\ CellsInv /\ [Next]_vars => [Opens]_vars
  <2> SUFFICES ASSUME ScreensInv, CellsInv, NEW i \in 1 .. Len(cells), TapCell(i)
               PROVE  held'.name = cells[i].name
    OBVIOUS
  <2>1. children \in SUBSET Child /\ IsFiniteSet(children)
    BY DEF ScreensInv, TypeOK, Finite
  <2>2. cells \in Orders(children)
    BY DEF CellsInv, TapCell
  <2>3. PICK order \in Orders(children) : i \in DOMAIN order /\ held' = order[i]
    BY DEF TapCell
  <2>4. QED
    BY <2>1, <2>2, <2>3, SameNames
<1>3. QED
  BY <1>1, <1>2, CellsInvStep, Invariance, PTL DEF Spec, TapOpensCell

=============================================================================
