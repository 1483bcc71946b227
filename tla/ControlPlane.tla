------------------------------ MODULE ControlPlane ------------------------------
(***************************************************************************)
(* The control plane in one process: the HTTP server                       *)
(* (src/internal/controlplane/http/server.go) over the memory store, and   *)
(* reconcile.DomainWithClients, which makes a DNS record and a route of a  *)
(* domain (src/internal/controlplane/reconcile/reconcile.go).              *)
(*                                                                         *)
(* A method of the store is atomic.  A reconcile is not: it works on the   *)
(* Domain value it was given, call by call, while other requests delete    *)
(* that domain, register its name anew and reconcile the new registration. *)
(*                                                                         *)
(* The server passes no clients, so that its reconciles end at the check   *)
(* for them; the package's callers may pass some of the three or all.  The *)
(* endpoints "dns apply" and "routing apply" answer and change nothing.    *)
(*                                                                         *)
(* A record and a route hold the target of the domain they were made of:   *)
(* here, the id of that registration.  A registration is free to name the  *)
(* type of its record and its zone.  No method of the store changes them,  *)
(* so that they are fixed here for an id before it is registered.          *)
(***************************************************************************)
EXTENDS MemoryDomainStore

CONSTANTS
    AdminKeys,   \* the keys the server was configured with
    Headers,     \* what the Authorization headers of requests hold
    Callers,     \* requests and callers that reconcile at the same time
    ClientSets,  \* the sets of clients that are passed
    Kinds,       \* what UpsertRecord looks for beside the name: type and zone
    RecordIds,   \* bound: the records of the zones, in the order they list them
    MaxFaults    \* bound: calls that fail

AllClients == {"cloudflare", "consul", "nomad"}

ASSUME ControlPlaneAssumption ==
    /\ AdminKeys # {}    \* serve refuses to start without
    /\ \A c \in ClientSets : c \subseteq AllClients
    /\ MaxFaults \in Nat

VARIABLES
    kind,     \* of each registration: DNSRecordType, and ProviderZoneID or the
              \* zone of RootDomain
    run,      \* the reconcile of each caller, see Runs
    records,  \* the zones at Cloudflare: for each record its name and target
    routes,   \* stackforge/routes/NAME in Consul: the target, or NoId
    outcome,  \* history: of each name's last reconcile, the domain it reported
              \* reconciled; NoId from the first change of a reconcile on
    ensured,  \* history: the records UpsertRecord found or made
    started,  \* history: the domains that were live when a caller read them
    overlap,  \* history: "yes" once two reconciles were under way together
    faults    \* spent of MaxFaults

reconcileVars == <<run, records, routes, outcome, ensured, started, overlap, faults>>
allVars == <<vars, kind, reconcileVars>>

Record(n, i) == [name |-> n, target |-> i]
NoRecord == Record(NoName, NoId)
Records == [name : Names \cup {NoName}, target : Ids \cup {NoId}]

Places == {"idle", "next", "zone", "list", "create", "update", "route", "job"}

\* Where a caller is, the domain it works on, the clients it passes, the record
\* to update, and the domains reconcile-all has still to turn to, of those it
\* read those that were verified then.
Runs == [at : Places, domain : Ids \cup {NoId}, clients : SUBSET AllClients,
         record : RecordIds \cup {0}, todo : SUBSET Ids]

Turn(at, domain, clients, record, todo) ==
    [at |-> at, domain |-> domain, clients |-> clients, record |-> record, todo |-> todo]

Idle == Turn("idle", NoId, {}, 0, {})

\* auth.Middleware: the header holds one of the keys.
Authorized(h) == h \in AdminKeys

\* Get: the domain exists and is not deleted.
IsLive(i) == Exists(i) /\ domains[i].life = "live"

ControlPlaneInit ==
    /\ Init
    /\ kind \in [Ids -> Kinds]
    /\ run = [c \in Callers |-> Idle]
    /\ records = [r \in RecordIds |-> NoRecord]
    /\ routes = [n \in Names |-> NoId]
    /\ outcome = [n \in Names |-> NoId]
    /\ ensured = {}
    /\ started = {}
    /\ overlap = "no"
    /\ faults = 0

------------------------------------------------------------------------------
(* Requests.                                                               *)

\* createDomain, deleteDomain, verificationToken and verifyDomain call one
\* method of the store each.  Only verifyDomain is not told that a domain is
\* deleted.
StoreRequest(h) ==
    /\ Authorized(h)
    /\ Next
    /\ UNCHANGED reconcileVars

\* A caller begins to reconcile domains that it read from the store.
Begins(c, read, clients, todo) ==
    /\ run[c].at = "idle"
    /\ run' = [run EXCEPT ![c] = Turn("next", NoId, clients, 0, todo)]
    /\ started' = started \cup read
    /\ overlap' = IF \E d \in Callers : run[d].at # "idle" THEN "yes" ELSE overlap
    /\ UNCHANGED <<vars, records, routes, outcome, ensured, faults>>

\* Mutant: a token that was asked for is taken for one that was presented.
IsVerifiedSoon(i) == verifications[i] # NoToken

\* The check of ownership.
IsVerified(i) == domains[i].ownership = "verified"

\* reconcileDomain: a domain of that id, if it is live and verified.
ReconcileDomain(h, c, i, clients) ==
    /\ Authorized(h)
    /\ IsLive(i)
    /\ IsVerified(i)
    /\ Begins(c, {i}, clients, {i})

\* reconcileAll: all live domains, as List returned them; the verified ones
\* get past the check of ownership.
ReconcileAll(h, c, clients) ==
    /\ Authorized(h)
    /\ \E i \in Ids : IsLive(i)
    /\ Begins(c, {i \in Ids : IsLive(i)}, clients,
              {i \in Ids : IsLive(i) /\ IsVerified(i)})

------------------------------------------------------------------------------
(* DomainWithClients.                                                      *)

Working(c) == run[c].domain
NameOf(c) == domains[Working(c)].name

\* The caller goes on to a place, or is done with the domain.
Goes(c, place) ==
    run' = [run EXCEPT ![c] = Turn(place, @.domain, @.clients, @.record, @.todo)]
Ends(c) ==
    run' = [run EXCEPT ![c] = IF @.todo = {} THEN Idle
                              ELSE Turn("next", NoId, @.clients, 0, @.todo)]

Fault == faults < MaxFaults /\ faults' = faults + 1

\* The next domain, in the order of a Go map: any.  Without clients, and
\* without one for Cloudflare, that is all there is to it.
NextDomain(c) ==
    /\ run[c].at = "next"
    /\ \/ run[c].todo = {} /\ run' = [run EXCEPT ![c] = Idle]
       \/ \E i \in run[c].todo :
            run' = [run EXCEPT ![c] =
                       IF "cloudflare" \in @.clients
                       THEN Turn("zone", i, @.clients, 0, @.todo \ {i})
                       ELSE Turn("next", NoId, @.clients, 0, @.todo \ {i})]
    /\ UNCHANGED <<vars, records, routes, outcome, ensured, started, overlap,
                   faults>>

\* The zone is known, or LookupZone finds it.  From here on the name is being
\* changed.
Zone(c) ==
    /\ run[c].at = "zone"
    /\ \/ Goes(c, "list") /\ UNCHANGED faults
       \/ Ends(c) /\ Fault
    /\ outcome' = [outcome EXCEPT ![NameOf(c)] = NoId]
    /\ UNCHANGED <<vars, records, routes, ensured, started, overlap>>

\* Record r is of the name n, in the zone and of the type that registration i
\* asks for.  A record has those of the registration it was made of: an update
\* puts it in the same zone and with the same type.
IsOfKind(r, n, i) == records[r].name = n /\ kind[records[r].target] = kind[i]

\* The records that ListRecords returns for the name, of the type wanted.
Listed(c) == {r \in RecordIds : IsOfKind(r, NameOf(c), Working(c))}

\* UpsertRecord is done: the record is there.
Ensured(c) == ensured' = ensured \cup {Record(NameOf(c), Working(c))}

\* What comes after the record, if there is a client for it.
AfterRecord(c) == IF "consul" \in run[c].clients THEN Goes(c, "route") ELSE Ends(c)

\* UpsertRecord lists the records of the name and looks at the first one of the
\* type it is to have: one of another type stays beside it.
List(c) ==
    /\ run[c].at = "list"
    /\ \/ \E r \in Listed(c) :
            /\ \A q \in Listed(c) : r <= q
            /\ \/ /\ records[r].target = Working(c)
                  /\ Ensured(c)
                  /\ AfterRecord(c)
               \/ /\ records[r].target # Working(c)
                  /\ run' = [run EXCEPT ![c] =
                               Turn("update", @.domain, @.clients, r, @.todo)]
                  /\ UNCHANGED ensured
       \/ /\ Listed(c) = {}
          /\ Goes(c, "create")
          /\ UNCHANGED ensured
    /\ UNCHANGED <<vars, records, routes, outcome, started, overlap, faults>>

\* The record is written at Cloudflare; the answer arrives, or is lost and the
\* reconcile ends with an error.
Puts(c, r) ==
    /\ records' = [records EXCEPT ![r] = Record(NameOf(c), Working(c))]
    /\ \/ AfterRecord(c) /\ Ensured(c) /\ UNCHANGED faults
       \/ Ends(c) /\ Fault /\ UNCHANGED ensured
    /\ UNCHANGED <<vars, routes, outcome, started, overlap>>

CreateRecord(c) ==
    /\ run[c].at = "create"
    /\ \E r \in RecordIds :
         /\ records[r] = NoRecord
         /\ \A q \in RecordIds : q < r => records[q] # NoRecord
         /\ Puts(c, r)

UpdateRecord(c) == run[c].at = "update" /\ Puts(c, run[c].record)

\* Mutant: the route is written before the record is.
RouteFirst(c) ==
    /\ run[c].at \in {"list", "route"}
    /\ routes' = [routes EXCEPT ![NameOf(c)] = Working(c)]
    /\ Ends(c)
    /\ UNCHANGED <<vars, records, outcome, ensured, started, overlap, faults>>

\* WriteRoute puts the route; an answer that is lost ends the reconcile.
WriteRoute(c) ==
    /\ run[c].at = "route"
    /\ routes' = [routes EXCEPT ![NameOf(c)] = Working(c)]
    /\ \/ /\ IF "nomad" \in run[c].clients THEN Goes(c, "job") ELSE Ends(c)
          /\ UNCHANGED faults
       \/ Ends(c) /\ Fault
    /\ UNCHANGED <<vars, records, outcome, ensured, started, overlap>>

\* A call fails before it has had an effect: the result is an error.
CallFails(c) ==
    /\ run[c].at \in {"list", "create", "update", "route", "job"}
    /\ Ends(c)
    /\ Fault
    /\ UNCHANGED <<vars, records, routes, outcome, ensured, started, overlap>>

\* Mutant: the job is looked at, and the result given, without the route.
JobStatusUnrouted(c) ==
    /\ run[c].at \in {"route", "job"}
    /\ outcome' = [outcome EXCEPT ![NameOf(c)] = Working(c)]
    /\ Ends(c)
    /\ UNCHANGED <<vars, records, routes, ensured, started, overlap, faults>>

\* Nomad knows the job: the only result without an error.
JobStatus(c) ==
    /\ run[c].at = "job"
    /\ outcome' = [outcome EXCEPT ![NameOf(c)] = Working(c)]
    /\ Ends(c)
    /\ UNCHANGED <<vars, records, routes, ensured, started, overlap, faults>>

ControlPlaneNext ==
    /\ UNCHANGED kind
    /\ \/ \E h \in Headers :
            \/ StoreRequest(h)
            \/ \E c \in Callers, clients \in ClientSets :
                 \/ \E i \in Ids : ReconcileDomain(h, c, i, clients)
                 \/ ReconcileAll(h, c, clients)
       \/ \E c \in Callers :
            \/ NextDomain(c) \/ Zone(c) \/ List(c) \/ CreateRecord(c)
            \/ UpdateRecord(c) \/ WriteRoute(c) \/ CallFails(c) \/ JobStatus(c)

ControlPlaneSpec == ControlPlaneInit /\ [][ControlPlaneNext]_allVars

------------------------------------------------------------------------------
(* Properties.                                                             *)

\* Store, reconciles, zone, routes and history have their types.
ControlPlaneTypeOK ==
    /\ TypeOK
    /\ kind \in [Ids -> Kinds]
    /\ run \in [Callers -> Runs]
    /\ records \in [RecordIds -> Records]
    /\ routes \in [Names -> Ids \cup {NoId}]
    /\ outcome \in [Names -> Ids \cup {NoId}]
    /\ ensured \subseteq Records
    /\ started \subseteq Ids
    /\ overlap \in {"no", "yes"}
    /\ faults \in 0 .. MaxFaults

\* What the world sees of a name: the targets of its records and its route.
Reached(n) ==
    {i \in Ids : routes[n] = i \/ \E r \in RecordIds : records[r] = Record(n, i)}

\* What the world sees of a name: a name leads only to registrations of that
\* very name, each of them live when the reconcile read it, and verified by a
\* token of its own.  So a later registration of the name never gets the
\* traffic by the verification of an earlier one, however reconciles, deletions
\* and registrations overlap.
TrafficByOwnToken ==
    \A n \in Names : \A i \in Reached(n) :
        /\ domains[i].name = n
        /\ i \in started
        /\ domains[i].ownership = "verified"
        /\ issued[i] # {}

\* No route without its DNS record before it: Consul routes a name to a domain
\* only when UpsertRecord had returned without an error for that domain, even
\* when calls fail in between and reconciles of one name overlap.
RouteAfterRecord ==
    \A n \in Names : routes[n] # NoId => Record(n, routes[n]) \in ensured

\* A result without an error is no pretence (reconcile.go:35): as long as
\* reconciles do not overlap, the name's route and its one record of the type
\* and in the zone the domain asks for have then the domain's target, and that
\* lasts until the next reconcile of the name.  (A record of another type, of an
\* earlier registration, may stay beside it: nothing takes it away.)
SuccessIsWhole ==
    overlap = "no" =>
        \A n \in Names : outcome[n] # NoId =>
            /\ routes[n] = outcome[n]
            /\ \E r \in RecordIds :
                  /\ records[r] = Record(n, outcome[n])
                  /\ \A q \in RecordIds : IsOfKind(q, n, outcome[n]) => q = r
==============================================================================
