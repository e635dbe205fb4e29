--------------------------- MODULE MCMessageStore ---------------------------
EXTENDS MessageStore, PreparedSql, TLC

Symmetry == Permutations(Requests) \cup Permutations(Threads)
            \cup Permutations(Ids)
=============================================================================
