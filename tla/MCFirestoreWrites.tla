--------------------------- MODULE MCFirestoreWrites ---------------------------
EXTENDS FirestoreWrites, TLC

Symmetry == Permutations(Writes) \cup Permutations(Users)

=============================================================================
