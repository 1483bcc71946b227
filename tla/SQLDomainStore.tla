---------------------------- MODULE SQLDomainStore ----------------------------
(***************************************************************************)
(* The domain stores of a database: SQLiteStore and PostgresStore of       *)
(* src/internal/controlplane/domain.  Every statement is atomic and no     *)
(* method opens a transaction, so a method of several statements is a      *)
(* request that other requests interleave with between any two of them.    *)
(* Create and Delete are one statement each.  VerificationToken reads the  *)
(* domain and then writes the token; MarkVerified reads the domain, reads  *)
(* the token's hash, updates the domain and updates the token's row.       *)
(*                                                                         *)
(* A domain is looked up by its id or by the name it has while it is live; *)
(* a name leads to the one live row of that name, so requests here name    *)
(* the row.  The stores differ in the table of tokens: SQLite keeps one    *)
(* row for each domain and replaces it, Postgres adds a row for each token *)
(* and reads the one with the latest created_at.                           *)
(*                                                                         *)
(* Time is one clock that does not step back: the bound MaxTime stops it.  *)
(***************************************************************************)
EXTENDS Naturals

CONSTANTS
    Backends, \* the back ends a server may be configured with
    Ids, Names, Tokens,
    Procs,    \* requests the server handles at once
    NoName, NoId, NoToken,
    MaxTime

ASSUME BackendAssumption == Backends \subseteq {"sqlite", "postgres"}
ASSUME NothingAssumption ==
    NoName \notin Names /\ NoId \notin Ids /\ NoToken \notin Tokens
ASSUME MaxTimeAssumption == MaxTime \in Nat

VARIABLES
    backend,       \* the store the server opened: "sqlite" or "postgres"
    domains,       \* the table domains: a row for each id, see Rows
    verifications, \* the table domain_verifications, see Verifications
    req,           \* the request each process handles, see Requests
    now,           \* the clock
    issued         \* history: the tokens written, see Issues

vars == <<backend, domains, verifications, req, now, issued>>

Times == 0..MaxTime

Rows == [name : Names \cup {NoName}, life : {"live", "deleted"},
         ownership : {"pending", "verified"}]

Verifications ==
    [domain : Ids, token : Tokens, created : Times, verifiedAt : {"null", "set"}]

\* began is when the request that issued the token or presents it started.
Requests ==
    [at : {"idle", "issuing", "reading", "matched", "marked"},
     id : Ids \cup {NoId}, token : Tokens \cup {NoToken}, began : Times]

Issues == [domain : Ids, token : Tokens, began : Times, ended : Times]

\* No row, and what Create sets the columns to.
NoRow == [name |-> NoName, life |-> "live", ownership |-> "pending"]

Idle == [at |-> "idle", id |-> NoId, token |-> NoToken, began |-> 0]

\* The unique index domains_active_domain_unique lets a live row of n in.
NameIsFree(n) == ~\E i \in Ids : domains[i].name = n /\ domains[i].life = "live"

\* SELECT ... FROM domains WHERE deleted_at IS NULL finds row i.
Gets(i) == domains[i].name # NoName /\ domains[i].life = "live"

TokensOf(i) == {v \in verifications : v.domain = i}

\* Mutant: the first token of the domain is read.
OnFileOldest(i) ==
    {v \in TokensOf(i) : \A w \in TokensOf(i) : w.created >= v.created}

\* The rows MarkVerified may read, ORDER BY created_at DESC LIMIT 1 for
\* Postgres: of two rows with one created_at, it is either.
OnFile(i) ==
    {v \in TokensOf(i) : \A w \in TokensOf(i) : w.created <= v.created}

\* Mutant: a conflict on domain_id leaves the row there was.
WriteTokenOnce(v) ==
    verifications' =
        IF TokensOf(v.domain) # {}
        THEN verifications
        ELSE verifications \cup {v}

\* INSERT INTO domain_verifications ... ON CONFLICT.
WriteToken(v) ==
    verifications' =
        IF backend = "sqlite"
        THEN (verifications \ TokensOf(v.domain)) \cup {v}
        ELSE verifications \cup {v}

\* UPDATE domain_verifications SET verified_at WHERE domain_id: all its rows.
StampTokensOf(i) ==
    verifications' = (verifications \ TokensOf(i))
                        \cup {[v EXCEPT !.verifiedAt = "set"] : v \in TokensOf(i)}

------------------------------------------------------------------------------
Init ==
    /\ backend \in Backends
    /\ domains = [i \in Ids |-> NoRow]
    /\ verifications = {}
    /\ req = [p \in Procs |-> Idle]
    /\ now = 0
    /\ issued = {}

\* Postgres stores the request's own deleted_at, SQLite stores NULL.  Row i
\* is a new one: ids are random.
Create(i, n, born) ==
    /\ domains[i].name = NoName
    /\ born = "live" => NameIsFree(n)
    /\ born = "deleted" => backend = "postgres"
    /\ domains' = [domains EXCEPT ![i] =
                      [NoRow EXCEPT !.name = n, !.life = born]]
    /\ UNCHANGED <<backend, verifications, req, now, issued>>

Delete(i) ==
    /\ Gets(i)
    /\ domains' = [domains EXCEPT ![i].life = "deleted"]
    /\ UNCHANGED <<backend, verifications, req, now, issued>>

\* VerificationToken finds the domain.
AskToken(p, i) ==
    /\ req[p].at = "idle"
    /\ Gets(i)
    /\ req' = [req EXCEPT ![p] =
                  [at |-> "issuing", id |-> i, token |-> NoToken, began |-> now]]
    /\ UNCHANGED <<backend, domains, verifications, now, issued>>

\* It makes a new random token, reads the clock, and later writes the row: the
\* created_at of the row is a time between the two statements.
IssueToken(p, t) ==
    /\ req[p].at = "issuing"
    /\ \A s \in issued : s.token # t
    /\ \E c \in req[p].began..now :
          WriteToken([domain |-> req[p].id, token |-> t, created |-> c,
                      verifiedAt |-> "null"])
    /\ issued' = issued \cup {[domain |-> req[p].id, token |-> t,
                               began |-> req[p].began, ended |-> now]}
    /\ req' = [req EXCEPT ![p] = Idle]
    /\ UNCHANGED <<backend, domains, now>>

\* MarkVerified finds the domain; any token may be presented.
AskVerify(p, i, t) ==
    /\ req[p].at = "idle"
    /\ Gets(i)
    /\ req' = [req EXCEPT ![p] =
                  [at |-> "reading", id |-> i, token |-> t, began |-> now]]
    /\ UNCHANGED <<backend, domains, verifications, now, issued>>

\* The hash on file is the presented token's ...
ReadMatching(p) ==
    /\ req[p].at = "reading"
    /\ \E v \in OnFile(req[p].id) : v.token = req[p].token
    /\ req' = [req EXCEPT ![p].at = "matched"]
    /\ UNCHANGED <<backend, domains, verifications, now, issued>>

\* ... or another's, or there is none: the request ends with an error.
ReadOther(p) ==
    /\ req[p].at = "reading"
    /\ \/ OnFile(req[p].id) = {}
       \/ \E v \in OnFile(req[p].id) : v.token # req[p].token
    /\ req' = [req EXCEPT ![p] = Idle]
    /\ UNCHANGED <<backend, domains, verifications, now, issued>>

\* Mutant: the row is looked up by name again.
MarkDomainByName(p) ==
    /\ req[p].at = "matched"
    /\ domains' = [i \in Ids |->
                      IF domains[i].name = domains[req[p].id].name
                      THEN [domains[i] EXCEPT !.ownership = "verified"]
                      ELSE domains[i]]
    /\ req' = [req EXCEPT ![p].at = "marked"]
    /\ UNCHANGED <<backend, verifications, now, issued>>

\* UPDATE domains ... WHERE id: deleted or not.
MarkDomain(p) ==
    /\ req[p].at = "matched"
    /\ domains' = [domains EXCEPT ![req[p].id].ownership = "verified"]
    /\ req' = [req EXCEPT ![p].at = "marked"]
    /\ UNCHANGED <<backend, verifications, now, issued>>

\* Mutant: the rows of the token are updated before the domain.
MarkVerificationEarly(p) ==
    /\ req[p].at \in {"matched", "marked"}
    /\ StampTokensOf(req[p].id)
    /\ req' = [req EXCEPT ![p] = Idle]
    /\ UNCHANGED <<backend, domains, now, issued>>

\* The request ends with success whether or not this last update fails, see
\* Abandon.
MarkVerification(p) ==
    /\ req[p].at = "marked"
    /\ StampTokensOf(req[p].id)
    /\ req' = [req EXCEPT ![p] = Idle]
    /\ UNCHANGED <<backend, domains, now, issued>>

\* The next statement fails, or the server dies: what was done stays.
Abandon(p) ==
    /\ req[p].at # "idle"
    /\ req' = [req EXCEPT ![p] = Idle]
    /\ UNCHANGED <<backend, domains, verifications, now, issued>>

Tick ==
    /\ now < MaxTime
    /\ now' = now + 1
    /\ UNCHANGED <<backend, domains, verifications, req, issued>>

Next ==
    \/ \E i \in Ids :
          \/ \E n \in Names, born \in {"live", "deleted"} : Create(i, n, born)
          \/ Delete(i)
    \/ \E p \in Procs :
          \/ \E i \in Ids : AskToken(p, i)
          \/ \E t \in Tokens : IssueToken(p, t)
          \/ \E i \in Ids, t \in Tokens : AskVerify(p, i, t)
          \/ ReadMatching(p)
          \/ ReadOther(p)
          \/ MarkDomain(p)
          \/ MarkVerification(p)
          \/ Abandon(p)
    \/ Tick

Spec == Init /\ [][Next]_vars

------------------------------------------------------------------------------
\* The tables, the requests and the history have their types.
TypeOK ==
    /\ backend \in Backends
    /\ domains \in [Ids -> Rows]
    /\ verifications \subseteq Verifications
    /\ req \in [Procs -> Requests]
    /\ now \in Times
    /\ issued \subseteq Issues

Registry == INSTANCE DomainRegistry WITH
    registered <- [i \in Ids |-> domains[i].name],
    deleted    <- {i \in Ids : domains[i].life = "deleted"},
    issued     <- [i \in Ids |-> {s.token : s \in {r \in issued : r.domain = i}}],
    verified   <- {i \in Ids : domains[i].ownership = "verified"}

\* Requests that interleave between their statements, and fail between them,
\* still do nothing the registry does not allow: one live registration of a
\* name, and a domain verified by a token of its own row even when the name
\* was deleted and registered anew while the request was under way.
ImplementsRegistry == Registry!Spec

\* verified_at is set only for tokens of verified domains, also when a request
\* dies between the two updates of MarkVerified.
StampedMeansVerified ==
    \A v \in verifications :
        v.verifiedAt = "set" => domains[v.domain].ownership = "verified"

\* A token asked for after another one of its domain was handed out retires
\* that one: it is never on file again, whichever requests overlap.
RotationRetires ==
    \A s, r \in issued :
        s.domain = r.domain /\ s.ended < r.began =>
           \A v \in OnFile(s.domain) : v.token # s.token

\* A request that began when a newer token had been handed out is not
\* satisfied by a token retired by it.
RetiredTokenNeverVerifies ==
    \A p \in Procs : req[p].at \in {"matched", "marked"} =>
        ~\E s, r \in issued :
            /\ s.domain = r.domain /\ s.token = req[p].token
            /\ s.ended < r.began /\ r.ended < req[p].began
==============================================================================
