------------------------------- MODULE MCLevelDb -------------------------------
EXTENDS LevelDb, TLC

Symmetry == Permutations(Writes \ Synced)

=============================================================================
