SPECIFICATION Spec
CONSTANTS
  ChildId = {c1}
  WishId = {w1, w2}
  Name = {0, 1}
  NoChild = NoChild
  Detached = Detached
  MaxForms = 3
PROPERTY LetterFormCloses
