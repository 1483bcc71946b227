--------------------------- MODULE MCSQLDomainStore ---------------------------
(* A small instance of the database stores: two registrations, two tokens    *)
(* and two requests at once.                                                 *)
EXTENDS SQLDomainStore, TLC

CONSTANTS i1, i2, n1, t1, t2, p1, p2

MCIds == {i1, i2}
MCNames == {n1}
MCTokens == {t1, t2}
MCProcs == {p1, p2}
Interchangeable ==
    Permutations(MCIds) \cup Permutations(MCTokens) \cup Permutations(MCProcs)
==============================================================================
