------------------------------ MODULE MCScreens ------------------------------
EXTENDS Screens, TLC

Symmetry == Permutations(ChildId) \cup Permutations(WishId)

=============================================================================
