----------------------------- MODULE MCControlPlane -----------------------------
(* A small control plane: two registrations, of one name or of two, with       *)
(* records of one type or of two, and two callers that reconcile at the same   *)
(* time.                                                                       *)
EXTENDS ControlPlane, TLC

CONSTANTS i1, i2, n1, n2, t1, t2, c1, c2, typeA, typeAAAA, right, wrong

MCIds == {i1, i2}
MCNames == {n1, n2}
MCTokens == {t1, t2}
MCCallers == {c1, c2}
MCKinds == {typeA, typeAAAA}
MCRecords == 1 .. 2
SomeClients == {{}, {"cloudflare"}, {"cloudflare", "consul"}, AllClients}
Interchangeable ==
    Permutations(MCIds) \cup Permutations(MCNames) \cup Permutations(MCTokens)
        \cup Permutations(MCCallers) \cup Permutations(MCKinds)
================================================================================
