------------------------------ MODULE MCWishSync ------------------------------
EXTENDS WishSync, TLC

\* No path component, typed in two ways, and one.
MCText == {"", "/", "doll"}

\* One component and two.
MCTwoTexts == {"doll", "doll/red"}

WordsOf(text) ==
  CASE text \in {"", "/"} -> <<>>
    [] text = "doll"      -> <<"doll">>
    [] text = "doll/red"  -> <<"doll", "red">>

MCComponents == [text \in MCText |-> WordsOf(text)]
MCTwoComponents == [text \in MCTwoTexts |-> WordsOf(text)]

Symmetry ==
  Permutations(ChildId) \cup Permutations(WishId) \cup Permutations(Parent)

=============================================================================
