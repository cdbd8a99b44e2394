SPECIFICATION Spec
CONSTANTS
  Parent = {mum}
  ChildId = {c1, c2}
  WishId = {w1, w2}
  Text <- MCText
  Components <- MCComponents
  NoUser = NoUser
  NoChild = NoChild
  Detached = Detached
INVARIANTS EveryDocumentAccounted FetchedItemsAreListed
SYMMETRY Symmetry
