SPECIFICATION Spec
CONSTANTS
  Parent = {mum, dad}
  ChildId = {c1, c2}
  WishId = {w1}
  Text <- MCTwoTexts
  Components <- MCTwoComponents
  NoUser = NoUser
  NoChild = NoChild
  Detached = Detached
INVARIANTS NothingForeign FetchedKidsWhenQuiet
PROPERTY LedgerSpec
SYMMETRY Symmetry
