---------------------------- MODULE MCMessagesAPI ----------------------------
EXTENDS MessagesAPI, TLC

Symmetry == Permutations(Readers) \cup Permutations(Writers)
=============================================================================
