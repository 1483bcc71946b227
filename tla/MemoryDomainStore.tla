--------------------------- MODULE MemoryDomainStore ---------------------------
(***************************************************************************)
(* The domain store of the control plane's development mode: Store of      *)
(* src/internal/controlplane/domain/domain.go, three maps behind a mutex.  *)
(* Every method holds the mutex from its first read to its last write, so  *)
(* each is one action.  List and Get change nothing.                       *)
(***************************************************************************)
EXTENDS Naturals, DomainNames

CONSTANTS
    NoId,     \* byDomain has no entry
    NoToken   \* verifications has no entry

ASSUME MemoryAssumption == NoId \notin Ids /\ NoToken \notin Tokens

VARIABLES
    domains,       \* the map from ids to domains, see Entries
    byDomain,      \* the map from names to the id last created for each
    verifications, \* the map from ids to the token last generated
    issued         \* history: all tokens generated for each id

vars == <<domains, byDomain, verifications, issued>>

\* The fields of Domain that the store itself reads or writes.
Entries ==
    [name : Names \cup {NoName}, life : {"live", "deleted"},
     ownership : {"pending", "verified"}, routing : {"pending", "disabled"}]

\* Mutant: Create sets no ownership status.
NoEntryUnset == [name |-> NoName, life |-> "live",
                 ownership |-> "", routing |-> "pending"]

\* No entry of the map, and what Create sets the fields to.
NoEntry == [name |-> NoName, life |-> "live",
            ownership |-> "pending", routing |-> "pending"]

Exists(i) == domains[i].name # NoName

Init ==
    /\ domains = [i \in Ids |-> NoEntry]
    /\ byDomain = [n \in Names |-> NoId]
    /\ verifications = [i \in Ids |-> NoToken]
    /\ issued = [i \in Ids |-> {}]

\* The duplicate check of Create: byDomain names the id last created for the
\* name, and that one is not deleted.
IsTaken(n) == byDomain[n] # NoId /\ domains[byDomain[n]].life = "live"

\* Mutant: an entry of byDomain is never replaced.
CreateIndexedOnce(i, n, born) ==
    /\ ~Exists(i)
    /\ ~IsTaken(n)
    /\ domains' = [domains EXCEPT ![i] =
                      [NoEntry EXCEPT !.name = n, !.life = born]]
    /\ byDomain' = [byDomain EXCEPT ![n] = IF @ = NoId THEN i ELSE @]
    /\ UNCHANGED <<verifications, issued>>

\* A valid name with its required fields is registered under a new random id.
\* The request's own deleted_at is kept: "deleted" registers a domain no Get
\* finds.
Create(i, n, born) ==
    /\ ~Exists(i)
    /\ ~IsTaken(n)
    /\ domains' = [domains EXCEPT ![i] =
                      [NoEntry EXCEPT !.name = n, !.life = born]]
    /\ byDomain' = [byDomain EXCEPT ![n] = i]
    /\ UNCHANGED <<verifications, issued>>

\* Mutant: a domain that is deleted again is restored.
DeleteOrRestore(i) ==
    /\ Exists(i)
    /\ domains' = [domains EXCEPT ![i].life = IF @ = "live" THEN "deleted" ELSE "live"]
    /\ UNCHANGED <<byDomain, verifications, issued>>

\* Delete only asks whether the id exists: a deleted domain is deleted again.
\* The verification token stays.
Delete(i) ==
    /\ Exists(i)
    /\ domains' = [domains EXCEPT ![i].life = "deleted",
                                  ![i].routing = "disabled"]
    /\ UNCHANGED <<byDomain, verifications, issued>>

\* A random token of 32 bytes replaces the one there was.
VerificationToken(i, t) ==
    /\ Exists(i) /\ domains[i].life = "live"
    /\ \A j \in Ids : t \notin issued[j]
    /\ verifications' = [verifications EXCEPT ![i] = t]
    /\ issued' = [issued EXCEPT ![i] = @ \cup {t}]
    /\ UNCHANGED <<domains, byDomain>>

\* The hash of the presented token is the stored one.
Matches(i, t) == verifications[i] = t

\* MarkVerified asks for a matching token, not whether the domain is deleted,
\* and the token can be used again.
MarkVerified(i, t) ==
    /\ Matches(i, t)
    /\ domains' = [domains EXCEPT ![i].ownership = "verified"]
    /\ UNCHANGED <<byDomain, verifications, issued>>

Next ==
    \E i \in Ids :
       \/ \E n \in Names, born \in {"live", "deleted"} : Create(i, n, born)
       \/ Delete(i)
       \/ \E t \in Tokens : VerificationToken(i, t) \/ MarkVerified(i, t)

Spec == Init /\ [][Next]_vars

------------------------------------------------------------------------------
(* The store implements the registry.                                      *)

Registry == INSTANCE DomainRegistry WITH
    registered <- [i \in Ids |-> domains[i].name],
    deleted    <- {i \in Ids : domains[i].life = "deleted"},
    issued     <- issued,
    verified   <- {i \in Ids : domains[i].ownership = "verified"}

\* Every step of the memory store is a step the registry allows: one live
\* registration per name, deletion for good, ownership only by a token issued
\* for that registration.
ImplementsRegistry == Registry!Spec

\* The three maps and the history have their types.
TypeOK ==
    /\ domains \in [Ids -> Entries]
    /\ byDomain \in [Names -> Ids \cup {NoId}]
    /\ verifications \in [Ids -> Tokens \cup {NoToken}]
    /\ issued \in [Ids -> SUBSET Tokens]

\* byDomain leads to the live domain of every name that has one: the duplicate
\* check of Create, which looks no further than byDomain, overlooks none.
ByDomainFindsLive ==
    \A i \in Ids :
        Exists(i) /\ domains[i].life = "live" => byDomain[domains[i].name] = i
==============================================================================
