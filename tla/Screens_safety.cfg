SPECIFICATION Spec
CONSTANTS
  ChildId = {c1, c2, c3}
  WishId = {w1, w2}
  Name = {0, 1}
  NoChild = NoChild
  Detached = Detached
  MaxForms = 2
SYMMETRY Symmetry
INVARIANTS ListIsFresh LabelWithinList
PROPERTIES TapOpensCell PopClosesItsForm
