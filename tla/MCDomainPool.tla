----------------------------- MODULE MCDomainPool -----------------------------
(* A small instance of the domain pool: a name which is removed and added      *)
(* again, by two processes.                                                    *)
EXTENDS DomainPool, TLC

CONSTANTS n1, t1, t2, p1, p2

OneName == {n1}
MCTargets == {t1, t2}
TwoProcs == {p1, p2}
Interchangeable == Permutations(MCTargets) \cup Permutations(TwoProcs)
===============================================================================
