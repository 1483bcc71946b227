----------------------------- MODULE DomainRegistry -----------------------------
(***************************************************************************)
(* What the control plane's domain repository promises (the interface      *)
(* Repository of src/internal/controlplane/domain/domain.go), whichever of *)
(* the memory, SQLite and Postgres stores implements it: a domain name has *)
(* at most one live registration, a deleted registration stays deleted,    *)
(* and a registration becomes verified only after a token was issued for   *)
(* that very registration.                                                 *)
(***************************************************************************)
EXTENDS Naturals, DomainNames

VARIABLES
    registered, \* the name each id was registered for
    deleted,    \* the ids of deleted registrations
    issued,     \* the tokens issued for each id
    verified    \* the ids whose ownership_status is "verified"

vars == <<registered, deleted, issued, verified>>

\* The live registrations of a name.
Live(n) == {i \in Ids : registered[i] = n /\ i \notin deleted}

IsIssued(t) == \E i \in Ids : t \in issued[i]

Init ==
    /\ registered = [i \in Ids |-> NoName]
    /\ deleted = {}
    /\ issued = [i \in Ids |-> {}]
    /\ verified = {}

\* A request may carry a deleted_at of its own: that registration never lives.
Create(i, n, born) ==
    /\ registered[i] = NoName
    /\ born = "live" => Live(n) = {}
    /\ registered' = [registered EXCEPT ![i] = n]
    /\ deleted' = IF born = "live" THEN deleted ELSE deleted \cup {i}
    /\ UNCHANGED <<issued, verified>>

Delete(i) ==
    /\ registered[i] # NoName /\ i \notin deleted
    /\ deleted' = deleted \cup {i}
    /\ UNCHANGED <<registered, issued, verified>>

\* A token is new and belongs to one registration.
Issue(i, t) ==
    /\ registered[i] # NoName
    /\ ~IsIssued(t)
    /\ issued' = [issued EXCEPT ![i] = @ \cup {t}]
    /\ UNCHANGED <<registered, deleted, verified>>

\* A token of the registration was presented.
Verify(i) ==
    /\ issued[i] # {}
    /\ verified' = verified \cup {i}
    /\ UNCHANGED <<registered, deleted, issued>>

Next ==
    \E i \in Ids :
       \/ \E n \in Names, born \in {"live", "deleted"} : Create(i, n, born)
       \/ Delete(i)
       \/ \E t \in Tokens : Issue(i, t)
       \/ Verify(i)

Spec == Init /\ [][Next]_vars

------------------------------------------------------------------------------
\* The repository's state has its type (the Domain and Verification fields the
\* interface deals in).
TypeOK ==
    /\ registered \in [Ids -> Names \cup {NoName}]
    /\ deleted \subseteq Ids
    /\ issued \in [Ids -> SUBSET Tokens]
    /\ verified \subseteq Ids

\* No two live registrations of one name, however creations and deletions
\* alternate ("expected duplicate reject", domain_test.go:20).
OneLivePerName ==
    \A i, j \in Ids :
        (registered[i] \in Names /\ registered[i] = registered[j]
           /\ i \notin deleted /\ j \notin deleted) => i = j

\* A verified registration had a token, and no token serves two: ownership of
\* one registration of a name says nothing of an earlier or later one.
VerifiedByOwnToken ==
    /\ \A i \in verified : issued[i] # {}
    /\ \A i, j \in Ids : i # j => issued[i] \cap issued[j] = {}
==============================================================================
