--------------------------- MODULE ControlPlaneProofs ---------------------------
(***************************************************************************)
(* Proofs about the control plane over the memory store, for any sets of   *)
(* ids, names, tokens, callers, clients and records.                       *)
(*                                                                         *)
(* The store first.  It implements the domain registry: the duplicate      *)
(* check of Create reads byDomain and not the map of domains, so the proof *)
(* needs that byDomain leads to the live domain of every name that has     *)
(* one; MarkVerified reads the token on file, so it needs that this token  *)
(* was generated for the same id.                                          *)
(*                                                                         *)
(* Then the reconciles: what a caller works on, and what it has made       *)
(* visible, is owned (CInv); and while reconciles do not overlap, what a   *)
(* caller has found or made still holds when it goes on (Alone).           *)
(***************************************************************************)
EXTENDS ControlPlane, TLAPS

\* The token on file for an id was generated for it.
TokensAreIssued ==
    \A i \in Ids : verifications[i] # NoToken => verifications[i] \in issued[i]

\* An id that names no domain has no field set and no token.
UnusedIsBlank ==
    \A i \in Ids :
        ~Exists(i) => domains[i] = NoEntry /\ verifications[i] = NoToken

\* The inductive invariant of the store.
IInv == TypeOK /\ ByDomainFindsLive /\ TokensAreIssued /\ UnusedIsBlank

LEMMA InitIInv == Init => IInv
<1> SUFFICES ASSUME Init PROVE IInv
  OBVIOUS
<1>1. NoEntry \in Entries
  BY DEF NoEntry, Entries
<1>2. TypeOK
  BY <1>1 DEF Init, TypeOK
<1>3. ByDomainFindsLive
  BY DEF Init, ByDomainFindsLive, NoEntry, Exists
<1>4. TokensAreIssued
  BY DEF Init, TokensAreIssued
<1>5. UnusedIsBlank
  BY DEF Init, UnusedIsBlank
<1> QED
  BY <1>2, <1>3, <1>4, <1>5 DEF IInv

\* A step that gives one entry of the map of domains a new value.
Becomes(i, e) ==
    /\ domains' \in [Ids -> Entries]
    /\ domains'[i] = e
    /\ \A j \in Ids : j # i => domains'[j] = domains[j]

Created(n, born) == [name |-> n, life |-> born, ownership |-> "pending",
                     routing |-> "pending"]

AfterDelete(e) == [name |-> e.name, life |-> "deleted",
                   ownership |-> e.ownership, routing |-> "disabled"]

AfterVerify(e) == [name |-> e.name, life |-> e.life,
                   ownership |-> "verified", routing |-> e.routing]

LEMMA CreateEntry ==
  ASSUME TypeOK, NEW i \in Ids, NEW n \in Names, NEW born \in {"live", "deleted"},
         Create(i, n, born)
  PROVE  Becomes(i, Created(n, born))
  BY DEF TypeOK, Create, NoEntry, Entries, Becomes, Created

LEMMA DeleteEntry ==
  ASSUME TypeOK, NEW i \in Ids, Delete(i)
  PROVE  Becomes(i, AfterDelete(domains[i]))
  BY DEF TypeOK, Delete, Entries, Becomes, AfterDelete

LEMMA MarkVerifiedEntry ==
  ASSUME TypeOK, NEW i \in Ids, NEW t \in Tokens, MarkVerified(i, t)
  PROVE  Becomes(i, AfterVerify(domains[i]))
  BY DEF TypeOK, MarkVerified, Entries, Becomes, AfterVerify

\* A step that keeps the names, and brings no domain back, keeps byDomain right.
LEMMA ByDomainKept ==
  ASSUME ByDomainFindsLive, byDomain' = byDomain,
         \A j \in Ids : /\ domains'[j].name = domains[j].name
                        /\ domains'[j].life = "live" => domains[j].life = "live"
  PROVE  ByDomainFindsLive'
  BY DEF ByDomainFindsLive, Exists

LEMMA CreateKeeps ==
  ASSUME IInv, NEW i \in Ids, NEW n \in Names, NEW born \in {"live", "deleted"},
         Create(i, n, born)
  PROVE  IInv'
<1>1. TypeOK
  BY DEF IInv
<1>2. Becomes(i, Created(n, born))
  BY <1>1, CreateEntry
<1>3. TypeOK'
  BY <1>1, <1>2 DEF Becomes, Created, Create, TypeOK
<1>4. ByDomainFindsLive'
  <2> SUFFICES ASSUME NEW j \in Ids, domains'[j].name # NoName,
                      domains'[j].life = "live"
               PROVE  byDomain'[domains'[j].name] = j
    BY DEF ByDomainFindsLive, Exists
  <2>1. byDomain' = [byDomain EXCEPT ![n] = i]
    BY DEF Create
  <2>2. CASE j = i
    BY <1>1, <1>2, <2>1, <2>2 DEF Becomes, Created, TypeOK
  <2>3. CASE j # i
    <3>1. domains'[j] = domains[j] /\ domains[j].name # NoName
      BY <1>2, <2>3 DEF Becomes, Created
    <3>2. byDomain[domains[j].name] = j /\ domains[j].name \in Names
      BY <3>1 DEF IInv, ByDomainFindsLive, Exists, TypeOK, Entries
    <3>3. domains[j].name # n
      BY <3>1, <3>2, MemoryAssumption, NoNameAssumption DEF Create, IsTaken
    <3> QED
      BY <2>1, <3>1, <3>2, <3>3 DEF TypeOK
  <2> QED
    BY <2>2, <2>3
<1>5. TokensAreIssued'
  BY DEF Create, IInv, TokensAreIssued
<1>6. UnusedIsBlank'
  BY <1>1, <1>2, MemoryAssumption, NoNameAssumption
  DEF Becomes, Created, Create, IInv, UnusedIsBlank, Exists, TypeOK
<1> QED
  BY <1>3, <1>4, <1>5, <1>6 DEF IInv

LEMMA DeleteKeeps ==
  ASSUME IInv, NEW i \in Ids, Delete(i)
  PROVE  IInv'
<1>1. TypeOK
  BY DEF IInv
<1>2. Becomes(i, AfterDelete(domains[i]))
  BY <1>1, DeleteEntry
<1>3. TypeOK'
  BY <1>1, <1>2 DEF Becomes, AfterDelete, Delete, TypeOK
<1>4. ByDomainFindsLive'
  <2>1. \A j \in Ids : /\ domains'[j].name = domains[j].name
                       /\ domains'[j].life = "live" => domains[j].life = "live"
    BY <1>1, <1>2 DEF Becomes, AfterDelete
  <2> QED
    BY <2>1, ByDomainKept DEF Delete, IInv
<1>5. TokensAreIssued'
  BY DEF Delete, IInv, TokensAreIssued
<1>6. UnusedIsBlank'
  BY <1>1, <1>2
  DEF Becomes, AfterDelete, Delete, IInv, UnusedIsBlank, Exists, TypeOK
<1> QED
  BY <1>3, <1>4, <1>5, <1>6 DEF IInv

LEMMA VerificationTokenKeeps ==
  ASSUME IInv, NEW i \in Ids, NEW t \in Tokens, VerificationToken(i, t)
  PROVE  IInv'
<1>1. TypeOK'
  BY DEF VerificationToken, IInv, TypeOK
<1>2. ByDomainFindsLive'
  BY DEF VerificationToken, IInv, ByDomainFindsLive, Exists
<1>3. TokensAreIssued'
  BY DEF VerificationToken, IInv, TypeOK, TokensAreIssued
<1>4. UnusedIsBlank'
  BY DEF VerificationToken, IInv, UnusedIsBlank, Exists, TypeOK
<1> QED
  BY <1>1, <1>2, <1>3, <1>4 DEF IInv

LEMMA MarkVerifiedKeeps ==
  ASSUME IInv, NEW i \in Ids, NEW t \in Tokens, MarkVerified(i, t)
  PROVE  IInv'
<1>1. TypeOK
  BY DEF IInv
<1>2. Becomes(i, AfterVerify(domains[i]))
  BY <1>1, MarkVerifiedEntry
<1>3. TypeOK'
  BY <1>1, <1>2 DEF Becomes, AfterVerify, MarkVerified, TypeOK
<1>4. ByDomainFindsLive'
  BY <1>1, <1>2, ByDomainKept DEF Becomes, AfterVerify, MarkVerified, IInv
<1>5. TokensAreIssued'
  BY DEF MarkVerified, IInv, TokensAreIssued
<1>6. UnusedIsBlank'
  <2>1. Exists(i)
    BY MemoryAssumption, NoNameAssumption DEF MarkVerified, Matches, IInv, UnusedIsBlank
  <2> QED
    BY <1>2, <2>1
    DEF Becomes, AfterVerify, MarkVerified, IInv, UnusedIsBlank, Exists
<1> QED
  BY <1>3, <1>4, <1>5, <1>6 DEF IInv

LEMMA NextIInv == IInv /\ [Next]_vars => IInv'
<1> SUFFICES ASSUME IInv, [Next]_vars PROVE IInv'
  OBVIOUS
<1>1. CASE UNCHANGED vars
  BY <1>1 DEF vars, IInv, TypeOK, ByDomainFindsLive, TokensAreIssued,
             UnusedIsBlank, Exists
<1> QED
  BY <1>1, CreateKeeps, DeleteKeeps, VerificationTokenKeeps, MarkVerifiedKeeps
  DEF Next

\* The three maps of the store have their types in every reachable state.
THEOREM TypeCorrect == Spec => []TypeOK
<1>1. IInv => TypeOK
  BY DEF IInv
<1> QED
  BY <1>1, InitIInv, NextIInv, PTL DEF Spec

\* byDomain leads to the live domain of every name that has one, so the
\* duplicate check of Create overlooks none.
THEOREM ByDomainIsRight == Spec => []ByDomainFindsLive
<1>1. IInv => ByDomainFindsLive
  BY DEF IInv
<1> QED
  BY <1>1, InitIInv, NextIInv, PTL DEF Spec

------------------------------------------------------------------------------
\* The variables of the registry as the store shows them.
Registered == [i \in Ids |-> domains[i].name]
Deleted == {i \in Ids : domains[i].life = "deleted"}
Verified == {i \in Ids : domains[i].ownership = "verified"}

LEMMA InitMaps == Init => Registry!Init
  BY DEF Init, NoEntry, Registry!Init

LEMMA CreateMaps ==
  ASSUME IInv, NEW i \in Ids, NEW n \in Names, NEW born \in {"live", "deleted"},
         Create(i, n, born)
  PROVE  Registry!Create(i, n, born)
<1>1. TypeOK
  BY DEF IInv
<1>2. Becomes(i, Created(n, born))
  BY <1>1, CreateEntry
<1>3. domains[i] = NoEntry
  BY DEF Create, IInv, UnusedIsBlank
<1>4. Registered' = [Registered EXCEPT ![i] = n]
  <2>1. \A j \in Ids :
           domains'[j].name = IF j = i THEN n ELSE domains[j].name
    BY <1>2 DEF Becomes, Created
  <2> QED
    BY <2>1 DEF Registered
<1>5. Deleted' = IF born = "live" THEN Deleted ELSE Deleted \cup {i}
  BY <1>3, <1>1, <1>2 DEF Becomes, Created, Deleted, NoEntry
<1>6. Verified' = Verified
  BY <1>3, <1>1, <1>2 DEF Becomes, Created, Verified, NoEntry
<1>7. \A j \in Ids : ~(domains[j].name = n /\ j \notin Deleted)
  BY MemoryAssumption, NoNameAssumption
  DEF Create, IsTaken, IInv, ByDomainFindsLive, Exists, Deleted, TypeOK, Entries
<1> QED
  BY <1>3, <1>4, <1>5, <1>6, <1>7
  DEF Registry!Create, Registry!Live, Registered, Deleted, Verified, Create,
      NoEntry

LEMMA DeleteMaps ==
  ASSUME IInv, NEW i \in Ids, Delete(i)
  PROVE  Registry!Delete(i) \/ UNCHANGED Registry!vars
<1>1. TypeOK
  BY DEF IInv
<1>2. Becomes(i, AfterDelete(domains[i]))
  BY <1>1, DeleteEntry
<1>3. /\ Registered' = Registered
      /\ Verified' = Verified
      /\ Deleted' = Deleted \cup {i}
  BY <1>1, <1>2 DEF Becomes, AfterDelete, Registered, Verified, Deleted
<1>4. CASE i \in Deleted
  BY <1>3, <1>4 DEF Registry!vars, Registered, Verified, Deleted, Delete
<1>5. CASE i \notin Deleted
  BY <1>3, <1>5
  DEF Registry!Delete, Registered, Verified, Deleted, Delete, Exists
<1> QED
  BY <1>4, <1>5

LEMMA VerificationTokenMaps ==
  ASSUME IInv, NEW i \in Ids, NEW t \in Tokens, VerificationToken(i, t)
  PROVE  Registry!Issue(i, t)
  BY DEF VerificationToken, Registry!Issue, Registry!IsIssued, Exists

LEMMA MarkVerifiedMaps ==
  ASSUME IInv, NEW i \in Ids, NEW t \in Tokens, MarkVerified(i, t)
  PROVE  Registry!Verify(i)
<1>1. TypeOK
  BY DEF IInv
<1>2. Becomes(i, AfterVerify(domains[i]))
  BY <1>1, MarkVerifiedEntry
<1>3. /\ Registered' = Registered
      /\ Verified' = Verified \cup {i}
      /\ Deleted' = Deleted
  BY <1>1, <1>2 DEF Becomes, AfterVerify, Registered, Verified, Deleted
<1>4. issued[i] # {}
  BY MemoryAssumption, NoNameAssumption DEF MarkVerified, Matches, IInv, TokensAreIssued
<1> QED
  BY <1>3, <1>4 DEF Registry!Verify, Registered, Verified, Deleted, MarkVerified

\* Every behaviour of the memory store is one the domain registry allows: the
\* two maps agree, so a name has one live domain at a time, deletion is final
\* and a domain is verified only by a token generated for it.
THEOREM Implements == Spec => ImplementsRegistry
<1>1. IInv /\ [Next]_vars => [Registry!Next]_Registry!vars
  <2> SUFFICES ASSUME IInv, [Next]_vars PROVE [Registry!Next]_Registry!vars
    OBVIOUS
  <2>1. CASE UNCHANGED vars
    BY <2>1 DEF vars, Registry!vars
  <2> QED
    BY <2>1, CreateMaps, DeleteMaps, VerificationTokenMaps, MarkVerifiedMaps
    DEF Next, Registry!Next
<1> QED
  BY <1>1, InitMaps, InitIInv, NextIInv, PTL
  DEF Spec, ImplementsRegistry, Registry!Spec

------------------------------------------------------------------------------
(* Reconciles.                                                             *)

Others(c) == \A d \in Callers : d # c => run'[d] = run[d]

\* Where a caller works on a domain.
AtWork == Places \ {"idle", "next"}

\* The domains a reconcile may make visible: read from the store when they were
\* live, and verified by a token issued for them.
Owned ==
    {i \in started : /\ domains[i].name \in Names
                     /\ domains[i].ownership = "verified"
                     /\ issued[i] # {}}

\* A verified registration had a token issued.
VerifiedHadToken ==
    \A i \in Ids : domains[i].ownership = "verified" => issued[i] # {}

\* What a caller works on is owned; past the record, the record was ensured.
CallersWork ==
    \A c \in Callers :
        /\ run[c].todo \subseteq Owned
        /\ run[c].at \in AtWork => run[c].domain \in Owned
        /\ run[c].at \in {"route", "job"} =>
              Record(domains[run[c].domain].name, run[c].domain) \in ensured

\* What the zone and Consul hold is owned and has its own name.
Visible ==
    /\ \A r \in RecordIds : records[r] # NoRecord =>
          records[r].target \in Owned /\ records[r].name = domains[records[r].target].name
    /\ \A n \in Names : routes[n] # NoId =>
          routes[n] \in Owned /\ domains[routes[n]].name = n

\* The inductive invariant of the reconciles.
CInv ==
    /\ ControlPlaneTypeOK /\ IInv /\ VerifiedHadToken
    /\ CallersWork /\ Visible /\ RouteAfterRecord

CallerNext(c) ==
    \/ NextDomain(c) \/ Zone(c) \/ List(c) \/ CreateRecord(c)
    \/ UpdateRecord(c) \/ WriteRoute(c) \/ CallFails(c) \/ JobStatus(c)

\* A caller goes on to a place.
LEMMA GoesOn ==
    ASSUME run \in [Callers -> Runs], NEW c \in Callers, NEW place \in Places,
           Goes(c, place)
    PROVE  /\ run' \in [Callers -> Runs] /\ Others(c)
           /\ run'[c].at = place
           /\ run'[c].domain = run[c].domain
           /\ run'[c].todo = run[c].todo
           /\ run'[c].record = run[c].record
BY DEF Goes, Runs, Others, Turn

\* A caller is done with its domain.
LEMMA IsDone ==
    ASSUME run \in [Callers -> Runs], NEW c \in Callers, Ends(c)
    PROVE  /\ run' \in [Callers -> Runs] /\ Others(c)
           /\ run'[c].at \in {"idle", "next"}
           /\ run'[c].todo \subseteq run[c].todo
BY DEF Ends, Runs, Others, Idle, Places, Turn

\* A caller turns to its next domain, or is through.
LEMMA TurnsTo ==
    ASSUME run \in [Callers -> Runs], NEW c \in Callers, NextDomain(c)
    PROVE  /\ run' \in [Callers -> Runs] /\ Others(c)
           /\ run'[c].todo \subseteq run[c].todo
           /\ \/ run'[c].at \in {"idle", "next"}
              \/ run'[c].at = "zone" /\ run'[c].domain \in run[c].todo
BY DEF Runs, Others, Idle, Places, Turn, NextDomain

LEMMA Begun ==
    ASSUME run \in [Callers -> Runs], NEW c \in Callers, NEW read \in SUBSET Ids,
           NEW clients \in SUBSET AllClients, NEW todo \in SUBSET Ids,
           Begins(c, read, clients, todo)
    PROVE  /\ run' \in [Callers -> Runs] /\ Others(c)
           /\ run'[c].todo = todo /\ run'[c].at = "next"
BY DEF Runs, Others, Idle, Places, Begins, Turn

LEMMA ToUpdate ==
    ASSUME run \in [Callers -> Runs], NEW c \in Callers, NEW r \in RecordIds,
           run' = [run EXCEPT ![c] =
                      Turn("update", @.domain, @.clients, r, @.todo)]
    PROVE  /\ run' \in [Callers -> Runs] /\ Others(c)
           /\ run'[c].at = "update" /\ run'[c].record = r
           /\ run'[c].domain = run[c].domain /\ run'[c].todo = run[c].todo
BY DEF Runs, Others, Idle, Places, Turn

\* What a step of a caller may do to its run.
CallerStep(c) ==
    /\ run' \in [Callers -> Runs] /\ Others(c)
    /\ run'[c].todo \subseteq run[c].todo
    /\ \/ run'[c].at \in {"idle", "next"}
       \/ run'[c].at = "zone" /\ run'[c].domain \in run[c].todo
       \/ /\ run[c].at \in AtWork /\ run'[c].domain = run[c].domain
          /\ run'[c].at \in {"route", "job"} =>
                \/ run[c].at \in {"route", "job"}
                \/ Record(NameOf(c), Working(c)) \in ensured'

LEMMA AfterRecordSteps ==
    ASSUME run \in [Callers -> Runs], NEW c \in Callers, run[c].at \in AtWork,
           AfterRecord(c), Ensured(c)
    PROVE  CallerStep(c)
<1>1. Record(NameOf(c), Working(c)) \in ensured'
  BY DEF Ensured
<1>2. CASE Goes(c, "route")
  BY <1>1, <1>2, GoesOn DEF CallerStep, Places
<1>3. CASE Ends(c)
  BY <1>3, IsDone DEF CallerStep
<1> QED
  BY <1>2, <1>3 DEF AfterRecord

LEMMA PutsSteps ==
    ASSUME run \in [Callers -> Runs], NEW c \in Callers, run[c].at \in AtWork,
           NEW r, Puts(c, r)
    PROVE  CallerStep(c)
<1>1. CASE Ends(c)
  BY <1>1, IsDone DEF CallerStep
<1> QED
  BY <1>1, AfterRecordSteps DEF Puts

LEMMA CallerSteps ==
    ASSUME run \in [Callers -> Runs], NEW c \in Callers, CallerNext(c)
    PROVE  CallerStep(c)
<1>0. CASE Ends(c)
  BY <1>0, IsDone DEF CallerStep
<1>1. CASE NextDomain(c)
  BY <1>1, TurnsTo DEF CallerStep
<1>2. CASE Zone(c)
  <2>1. CASE Goes(c, "list")
    BY <1>2, <2>1, GoesOn DEF Zone, CallerStep, AtWork, Places
  <2> QED
    BY <1>0, <1>2, <2>1 DEF Zone
<1>3. CASE List(c)
  <2>1. run[c].at \in AtWork
    BY <1>3 DEF List, AtWork, Places
  <2>2. CASE Ensured(c) /\ AfterRecord(c)
    BY <2>1, <2>2, AfterRecordSteps
  <2>3. ASSUME NEW r \in RecordIds,
               run' = [run EXCEPT ![c] =
                          Turn("update", @.domain, @.clients, r, @.todo)]
        PROVE  CallerStep(c)
    BY <2>1, <2>3, ToUpdate DEF CallerStep
  <2>4. CASE Goes(c, "create")
    BY <2>1, <2>4, GoesOn DEF CallerStep, Places
  <2> QED
    BY <1>3, <2>2, <2>3, <2>4 DEF List, Listed
<1>4. CASE CreateRecord(c) \/ UpdateRecord(c)
  BY <1>4, PutsSteps DEF CreateRecord, UpdateRecord, AtWork, Places
<1>5. CASE WriteRoute(c)
  <2>1. CASE Goes(c, "job")
    BY <1>5, <2>1, GoesOn DEF WriteRoute, CallerStep, AtWork, Places
  <2> QED
    BY <1>0, <1>5, <2>1 DEF WriteRoute
<1>6. CASE CallFails(c) \/ JobStatus(c)
  BY <1>0, <1>6 DEF CallFails, JobStatus
<1> QED
  BY <1>1, <1>2, <1>3, <1>4, <1>5, <1>6 DEF CallerNext

LEMMA FaultsBounded ==
    ASSUME faults \in 0 .. MaxFaults, NEW c \in Callers, CallerNext(c)
    PROVE  faults' \in 0 .. MaxFaults
<1>1. Fault \/ UNCHANGED faults
  BY DEF CallerNext, NextDomain, Zone, List, CreateRecord, UpdateRecord, Puts,
         WriteRoute, CallFails, JobStatus
<1> QED
  BY <1>1, ControlPlaneAssumption DEF Fault

\* A step of a caller leaves the store alone, and forgets no record it ensured.
LEMMA CallerKeeps ==
    ASSUME NEW c \in Callers, CallerNext(c)
    PROVE  /\ UNCHANGED <<domains, byDomain, verifications, issued>>
           /\ started' = started /\ overlap' = overlap
BY DEF vars, CallerNext, NextDomain, Zone, List, CreateRecord, UpdateRecord, Puts,
       WriteRoute, CallFails, JobStatus

LEMMA EnsuredEffect ==
    ASSUME NEW c \in Callers, CallerNext(c)
    PROVE  \/ ensured' = ensured
           \/ /\ run[c].at \in {"list", "create", "update"}
              /\ ensured' = ensured \cup {Record(NameOf(c), Working(c))}
BY DEF CallerNext, NextDomain, Zone, List, CreateRecord, UpdateRecord, Puts,
       WriteRoute, CallFails, JobStatus, Ensured

\* The only record a caller writes is one of its domain.
LEMMA RecordsEffect ==
    ASSUME NEW c \in Callers, CallerNext(c), records \in [RecordIds -> Records]
    PROVE  \/ records' = records
           \/ /\ run[c].at \in {"create", "update"}
              /\ \E r : records' = [records EXCEPT ![r] = Record(NameOf(c), Working(c))]
<1>1. CASE CreateRecord(c)
  BY <1>1 DEF CreateRecord, Puts
<1>2. CASE UpdateRecord(c)
  BY <1>2 DEF UpdateRecord, Puts
<1> QED
  BY <1>1, <1>2 DEF CallerNext, NextDomain, Zone, List, WriteRoute, CallFails, JobStatus

LEMMA RoutesEffect ==
    ASSUME NEW c \in Callers, CallerNext(c)
    PROVE  \/ routes' = routes
           \/ /\ run[c].at = "route"
              /\ routes' = [routes EXCEPT ![NameOf(c)] = Working(c)]
<1>1. CASE WriteRoute(c)
  BY <1>1 DEF WriteRoute
<1> QED
  BY <1>1 DEF CallerNext, NextDomain, Zone, List, CreateRecord, UpdateRecord, Puts,
              CallFails, JobStatus

LEMMA OutcomeEffect ==
    ASSUME NEW c \in Callers, CallerNext(c)
    PROVE  \/ outcome' = outcome
           \/ /\ run[c].at = "zone"
              /\ outcome' = [outcome EXCEPT ![NameOf(c)] = NoId]
           \/ /\ JobStatus(c)
              /\ outcome' = [outcome EXCEPT ![NameOf(c)] = Working(c)]
<1>1. CASE Zone(c)
  BY <1>1 DEF Zone
<1>2. CASE JobStatus(c)
  BY <1>2 DEF JobStatus
<1> QED
  BY <1>1, <1>2 DEF CallerNext, NextDomain, List, CreateRecord, UpdateRecord, Puts,
              WriteRoute, CallFails

\* A caller at work has a verified domain with a name.
LEMMA WorkedOn ==
    ASSUME ControlPlaneTypeOK, CallersWork, NEW c \in Callers, run[c].at \in AtWork
    PROVE  /\ Working(c) \in Owned /\ Working(c) \in Ids
           /\ NameOf(c) \in Names
           /\ Record(NameOf(c), Working(c)) \in Records
<1>1. Working(c) \in Owned
  BY DEF CallersWork, Working
<1>2. Working(c) \in Ids /\ NameOf(c) \in Names
  BY <1>1 DEF Owned, NameOf, ControlPlaneTypeOK
<1> QED
  BY <1>1, <1>2 DEF Record, Records

LEMMA OwnedKept ==
    ASSUME UNCHANGED <<domains, issued>>, started \subseteq started'
    PROVE  Owned \subseteq Owned'
BY DEF Owned

LEMMA CallerTypes ==
    ASSUME ControlPlaneTypeOK, CallersWork, NEW c \in Callers, CallerNext(c),
           kind' = kind
    PROVE  ControlPlaneTypeOK'
<1>1. TypeOK'
  BY CallerKeeps DEF ControlPlaneTypeOK, TypeOK
<1>2. run' \in [Callers -> Runs]
  BY CallerSteps DEF CallerStep, ControlPlaneTypeOK
<1>3. records' \in [RecordIds -> Records]
  <2>1. records \in [RecordIds -> Records]
    BY DEF ControlPlaneTypeOK
  <2>2. CASE run[c].at \in {"create", "update"}
    <3>1. Record(NameOf(c), Working(c)) \in Records
      BY <2>2, WorkedOn DEF AtWork, Places
    <3> QED
      BY <2>1, <3>1, RecordsEffect
  <2> QED
    BY <2>1, <2>2, RecordsEffect
<1>4. routes' \in [Names -> Ids \cup {NoId}]
  <2>1. routes \in [Names -> Ids \cup {NoId}]
    BY DEF ControlPlaneTypeOK
  <2>2. CASE run[c].at = "route"
    <3>1. Working(c) \in Ids
      BY <2>2, WorkedOn DEF AtWork, Places
    <3> QED
      BY <2>1, <3>1, RoutesEffect
  <2> QED
    BY <2>1, <2>2, RoutesEffect
<1>5. outcome' \in [Names -> Ids \cup {NoId}]
  <2>1. outcome \in [Names -> Ids \cup {NoId}]
    BY DEF ControlPlaneTypeOK
  <2>2. CASE JobStatus(c)
    <3>1. Working(c) \in Ids
      BY <2>2, WorkedOn DEF AtWork, Places, JobStatus
    <3> QED
      BY <2>1, <3>1, OutcomeEffect
  <2> QED
    BY <2>1, <2>2, OutcomeEffect
<1>6. ensured' \subseteq Records
  <2>1. ensured \subseteq Records
    BY DEF ControlPlaneTypeOK
  <2>2. CASE run[c].at \in {"list", "create", "update"}
    <3>1. Record(NameOf(c), Working(c)) \in Records
      BY <2>2, WorkedOn DEF AtWork, Places
    <3> QED
      BY <2>1, <3>1, EnsuredEffect
  <2> QED
    BY <2>1, <2>2, EnsuredEffect
<1>7. started' \subseteq Ids /\ overlap' \in {"no", "yes"}
  BY CallerKeeps DEF ControlPlaneTypeOK
<1>8. faults' \in 0 .. MaxFaults
  BY FaultsBounded DEF ControlPlaneTypeOK
<1> QED
  BY <1>1, <1>2, <1>3, <1>4, <1>5, <1>6, <1>7, <1>8 DEF ControlPlaneTypeOK

\* The caller keeps to what it owns.
LEMMA CallerWorks ==
    ASSUME ControlPlaneTypeOK, CallersWork, NEW c \in Callers, CallerNext(c)
    PROVE  CallersWork'
<1>1. CallerStep(c) /\ UNCHANGED <<domains, issued, started>>
  BY CallerSteps, CallerKeeps DEF ControlPlaneTypeOK
<1>2. Owned \subseteq Owned' /\ ensured \subseteq ensured'
  BY <1>1, OwnedKept, EnsuredEffect
<1>3. ASSUME NEW d \in Callers
      PROVE  /\ run'[d].todo \subseteq Owned'
             /\ run'[d].at \in AtWork => run'[d].domain \in Owned'
             /\ run'[d].at \in {"route", "job"} =>
                   Record(domains'[run'[d].domain].name, run'[d].domain) \in ensured'
  <2>0. /\ run[d].todo \subseteq Owned
        /\ run[d].at \in AtWork => run[d].domain \in Owned
        /\ run[d].at \in {"route", "job"} =>
              Record(domains[run[d].domain].name, run[d].domain) \in ensured
    BY DEF CallersWork
  <2>1. CASE d # c
    <3>1. run'[d] = run[d]
      BY <1>1, <2>1 DEF CallerStep, Others
    <3> QED
      BY <1>1, <1>2, <2>0, <3>1
  <2>2. CASE d = c
    <3>1. run'[c].todo \subseteq Owned'
      BY <1>1, <1>2, <2>0, <2>2 DEF CallerStep
    <3>2. run'[c].at \in AtWork => run'[c].domain \in Owned'
      BY <1>1, <1>2, <2>0, <2>2 DEF CallerStep, AtWork
    <3>3. ASSUME run'[c].at \in {"route", "job"}
          PROVE  Record(domains'[run'[c].domain].name, run'[c].domain) \in ensured'
      <4>1. /\ run'[c].domain = run[c].domain
            /\ \/ run[c].at \in {"route", "job"}
               \/ Record(NameOf(c), Working(c)) \in ensured'
        BY <1>1, <3>3 DEF CallerStep
      <4> QED
        BY <1>1, <1>2, <2>0, <2>2, <4>1 DEF NameOf, Working
    <3> QED
      BY <2>2, <3>1, <3>2, <3>3
  <2> QED
    BY <2>1, <2>2
<1> QED
  BY <1>3 DEF CallersWork, AtWork

\* What it makes visible, and in which order.
LEMMA CallerShows ==
    ASSUME ControlPlaneTypeOK, CallersWork, Visible, NEW c \in Callers, CallerNext(c)
    PROVE  Visible'
<1>1. UNCHANGED <<domains, issued, started>> /\ Owned \subseteq Owned'
  BY CallerKeeps, OwnedKept
<1>2. ASSUME NEW r \in RecordIds, records'[r] # NoRecord
      PROVE  /\ records'[r].target \in Owned'
             /\ records'[r].name = domains'[records'[r].target].name
  <2>1. CASE records'[r] = records[r]
    BY <1>1, <1>2, <2>1 DEF Visible
  <2>2. CASE records'[r] # records[r]
    <3>1. run[c].at \in AtWork /\ records'[r] = Record(NameOf(c), Working(c))
      BY <2>2, RecordsEffect DEF AtWork, Places, ControlPlaneTypeOK
    <3>2. Working(c) \in Owned
      BY <3>1, WorkedOn
    <3> QED
      BY <1>1, <3>1, <3>2 DEF Record, NameOf
  <2> QED
    BY <2>1, <2>2
<1>3. ASSUME NEW n \in Names, routes'[n] # NoId
      PROVE  routes'[n] \in Owned' /\ domains'[routes'[n]].name = n
  <2>1. CASE routes'[n] = routes[n]
    BY <1>1, <1>3, <2>1 DEF Visible
  <2>2. CASE routes'[n] # routes[n]
    <3>1. run[c].at \in AtWork /\ n = NameOf(c) /\ routes'[n] = Working(c)
      BY <2>2, RoutesEffect DEF AtWork, Places, ControlPlaneTypeOK
    <3>2. Working(c) \in Owned
      BY <3>1, WorkedOn
    <3> QED
      BY <1>1, <3>1, <3>2 DEF NameOf
  <2> QED
    BY <2>1, <2>2
<1> QED
  BY <1>2, <1>3 DEF Visible, NoRecord, Record

LEMMA CallerRoutes ==
    ASSUME ControlPlaneTypeOK, CallersWork, RouteAfterRecord, NEW c \in Callers,
           CallerNext(c)
    PROVE  RouteAfterRecord'
<1> SUFFICES ASSUME NEW n \in Names, routes'[n] # NoId
             PROVE  Record(n, routes'[n]) \in ensured'
  BY DEF RouteAfterRecord, Record
<1>1. ensured \subseteq ensured'
  BY EnsuredEffect
<1>2. CASE routes'[n] = routes[n]
  BY <1>1, <1>2 DEF RouteAfterRecord
<1>3. CASE routes'[n] # routes[n]
  <2>1. run[c].at = "route" /\ n = NameOf(c) /\ routes'[n] = Working(c)
    BY <1>3, RoutesEffect DEF ControlPlaneTypeOK
  <2> QED
    BY <1>1, <2>1 DEF CallersWork, NameOf, Working
<1> QED
  BY <1>2, <1>3

\* A step of the store keeps the name, the verification and the tokens of every
\* domain there is.
LEMMA StoreKeeps ==
    ASSUME IInv, VerifiedHadToken, Next
    PROVE  /\ \A i \in Ids : domains[i].name \in Names =>
                 /\ domains'[i].name = domains[i].name
                 /\ domains[i].ownership = "verified" =>
                       domains'[i].ownership = "verified"
           /\ \A i \in Ids : issued[i] \subseteq issued'[i]
           /\ VerifiedHadToken'
<1>0. TypeOK
  BY DEF IInv
<1>1. ASSUME NEW k \in Ids, NEW n \in Names, NEW born \in {"live", "deleted"},
             Create(k, n, born)
      PROVE  /\ \A i \in Ids : domains[i].name \in Names => domains'[i] = domains[i]
             /\ issued' = issued /\ VerifiedHadToken'
  <2>1. Becomes(k, Created(n, born)) /\ domains[k].name = NoName /\ issued' = issued
    BY <1>0, <1>1, CreateEntry DEF Create, Exists
  <2>2. \A i \in Ids : domains'[i].ownership = "verified" =>
           domains[i].ownership = "verified"
    BY <2>1 DEF Becomes, Created
  <2> QED
    BY <2>1, <2>2, NoNameAssumption DEF Becomes, VerifiedHadToken
<1>2. ASSUME NEW k \in Ids, Delete(k)
      PROVE  /\ \A i \in Ids : /\ domains'[i].name = domains[i].name
                               /\ domains'[i].ownership = domains[i].ownership
             /\ issued' = issued /\ VerifiedHadToken'
  <2>1. Becomes(k, AfterDelete(domains[k])) /\ issued' = issued
    BY <1>0, <1>2, DeleteEntry DEF Delete
  <2>2. \A i \in Ids : /\ domains'[i].name = domains[i].name
                       /\ domains'[i].ownership = domains[i].ownership
    BY <2>1 DEF Becomes, AfterDelete
  <2> QED
    BY <2>1, <2>2 DEF VerifiedHadToken
<1>3. ASSUME NEW k \in Ids, NEW t \in Tokens, VerificationToken(k, t)
      PROVE  /\ domains' = domains
             /\ \A i \in Ids : issued[i] \subseteq issued'[i]
             /\ VerifiedHadToken'
  <2>1. domains' = domains /\ \A i \in Ids : issued[i] \subseteq issued'[i]
    BY <1>0, <1>3 DEF VerificationToken, TypeOK
  <2> QED
    BY <2>1 DEF VerifiedHadToken
<1>4. ASSUME NEW k \in Ids, NEW t \in Tokens, MarkVerified(k, t)
      PROVE  /\ \A i \in Ids : /\ domains'[i].name = domains[i].name
                               /\ domains[i].ownership = "verified" =>
                                     domains'[i].ownership = "verified"
             /\ issued' = issued /\ VerifiedHadToken'
  <2>1. Becomes(k, AfterVerify(domains[k])) /\ issued' = issued
    BY <1>0, <1>4, MarkVerifiedEntry DEF MarkVerified
  <2>2. issued[k] # {}
    BY <1>4, MemoryAssumption DEF MarkVerified, Matches, IInv, TokensAreIssued
  <2>3. \A i \in Ids : /\ domains'[i].name = domains[i].name
                       /\ i # k => domains'[i] = domains[i]
                       /\ domains[i].ownership = "verified" =>
                             domains'[i].ownership = "verified"
    BY <2>1 DEF Becomes, AfterVerify
  <2> QED
    BY <2>1, <2>2, <2>3 DEF VerifiedHadToken
<1> QED
  BY <1>1, <1>2, <1>3, <1>4 DEF Next

\* The requests of others leave what a reconcile has done as it is.
LEMMA StoreRequestKeeps ==
    ASSUME CInv, NEW h, StoreRequest(h), kind' = kind
    PROVE  CInv' /\ \A i \in Owned : domains'[i].name = domains[i].name
<1>0. ControlPlaneTypeOK /\ IInv /\ Next
      /\ UNCHANGED <<run, records, routes, outcome, ensured, started, overlap, faults>>
  BY DEF CInv, StoreRequest, reconcileVars
<1>1. IInv'
  BY <1>0, NextIInv
<1>2. VerifiedHadToken'
  BY <1>0, StoreKeeps DEF CInv
<1>3. ControlPlaneTypeOK'
  BY <1>0, <1>1 DEF ControlPlaneTypeOK, IInv
<1>4. started \subseteq Ids /\ started' = started
  BY <1>0 DEF ControlPlaneTypeOK
<1>5. \A i \in Owned : i \in Owned' /\ domains'[i].name = domains[i].name
  BY <1>0, <1>4, StoreKeeps DEF Owned, CInv
<1>6. CallersWork'
  <2> SUFFICES ASSUME NEW d \in Callers
               PROVE  /\ run[d].todo \subseteq Owned'
                      /\ run[d].at \in AtWork => run[d].domain \in Owned'
                      /\ run[d].at \in {"route", "job"} =>
                            Record(domains'[run[d].domain].name, run[d].domain)
                               \in ensured
    BY <1>0 DEF CallersWork, AtWork
  <2>1. /\ run[d].todo \subseteq Owned
        /\ run[d].at \in AtWork => run[d].domain \in Owned
        /\ run[d].at \in {"route", "job"} =>
              Record(domains[run[d].domain].name, run[d].domain) \in ensured
    BY DEF CInv, CallersWork
  <2>2. run[d].at \in {"route", "job"} => run[d].at \in AtWork
    BY DEF AtWork, Places
  <2> QED
    BY <1>5, <2>1, <2>2
<1>7. Visible'
  <2>1. \A r \in RecordIds : records[r] # NoRecord =>
          records[r].target \in Owned' /\ records[r].name = domains'[records[r].target].name
    BY <1>5 DEF CInv, Visible
  <2>2. \A n \in Names : routes[n] # NoId =>
          routes[n] \in Owned' /\ domains'[routes[n]].name = n
    BY <1>5 DEF CInv, Visible
  <2> QED
    BY <1>0, <2>1, <2>2 DEF Visible, NoRecord, Record
<1>8. RouteAfterRecord'
  BY <1>0 DEF CInv, RouteAfterRecord, Record
<1> QED
  BY <1>1, <1>2, <1>3, <1>5, <1>6, <1>7, <1>8 DEF CInv

\* A request to reconcile that gets past its checks.
BeginNext(c) ==
    \E clients \in ClientSets :
        \E read \in SUBSET Ids : \E todo \in SUBSET read :
            /\ Begins(c, read, clients, todo)
            /\ \A i \in todo : Exists(i) /\ IsVerified(i)

LEMMA RequestsBegin ==
    ASSUME NEW h, NEW c \in Callers, NEW clients \in ClientSets,
           ReconcileAll(h, c, clients) \/ \E i \in Ids : ReconcileDomain(h, c, i, clients)
    PROVE  BeginNext(c)
<1>1. CASE ReconcileAll(h, c, clients)
  <2> DEFINE read == {i \in Ids : IsLive(i)}
             todo == {i \in Ids : IsLive(i) /\ IsVerified(i)}
  <2>1. read \in SUBSET Ids /\ todo \in SUBSET read /\ Begins(c, read, clients, todo)
    BY <1>1 DEF ReconcileAll
  <2>2. \A i \in todo : Exists(i) /\ IsVerified(i)
    BY DEF IsLive
  <2> QED
    BY <2>1, <2>2 DEF BeginNext
<1>2. ASSUME NEW i \in Ids, ReconcileDomain(h, c, i, clients) PROVE BeginNext(c)
  <2>1. Begins(c, {i}, clients, {i}) /\ Exists(i) /\ IsVerified(i)
    BY <1>2 DEF ReconcileDomain, IsLive
  <2> QED
    BY <2>1 DEF BeginNext
<1> QED
  BY <1>1, <1>2

LEMMA BeginKeeps ==
    ASSUME CInv, NEW c \in Callers, BeginNext(c), kind' = kind
    PROVE  CInv'
<1>1. PICK clients \in ClientSets, read \in SUBSET Ids : \E todo \in SUBSET read :
         /\ Begins(c, read, clients, todo)
         /\ \A i \in todo : Exists(i) /\ IsVerified(i)
  BY DEF BeginNext
<1>2. PICK todo \in SUBSET read :
         /\ Begins(c, read, clients, todo)
         /\ \A i \in todo : Exists(i) /\ IsVerified(i)
  BY <1>1
<1>3. /\ UNCHANGED <<domains, byDomain, verifications, issued>>
      /\ UNCHANGED <<records, routes, outcome, ensured, faults>>
      /\ started' = started \cup read /\ overlap' \in {overlap, "yes"}
  BY <1>2 DEF Begins, vars
<1>4. ControlPlaneTypeOK /\ clients \in SUBSET AllClients /\ todo \in SUBSET Ids
  BY ControlPlaneAssumption DEF CInv
<1>5. /\ run' \in [Callers -> Runs] /\ Others(c)
      /\ run'[c].todo = todo /\ run'[c].at = "next"
  BY <1>2, <1>4, Begun DEF ControlPlaneTypeOK
<1>6. IInv'
  BY <1>3 DEF CInv, IInv, TypeOK, ByDomainFindsLive, TokensAreIssued, UnusedIsBlank, Exists
<1>7. VerifiedHadToken'
  BY <1>3 DEF CInv, VerifiedHadToken
<1>8. ControlPlaneTypeOK'
  BY <1>3, <1>4, <1>5, <1>6 DEF ControlPlaneTypeOK, IInv
<1>9. Owned \subseteq Owned'
  BY <1>3, OwnedKept
<1>10. todo \subseteq Owned'
  <2>1. \A i \in todo : domains[i].name \in Names
    BY <1>2, <1>4 DEF Exists, ControlPlaneTypeOK, TypeOK, Entries
  <2> QED
    BY <1>2, <1>3, <1>4, <2>1 DEF Owned, IsVerified, CInv, VerifiedHadToken
<1>11. CallersWork'
  <2> SUFFICES ASSUME NEW d \in Callers
               PROVE  /\ run'[d].todo \subseteq Owned'
                      /\ run'[d].at \in AtWork => run'[d].domain \in Owned'
                      /\ run'[d].at \in {"route", "job"} =>
                            Record(domains[run'[d].domain].name, run'[d].domain)
                               \in ensured
    BY <1>3 DEF CallersWork, AtWork
  <2>1. CASE d = c
    BY <1>5, <1>10, <2>1 DEF AtWork
  <2>2. CASE d # c
    <3>1. run'[d] = run[d]
      BY <1>5, <2>2 DEF Others
    <3> QED
      BY <1>9, <3>1 DEF CInv, CallersWork
  <2> QED
    BY <2>1, <2>2
<1>12. Visible' /\ RouteAfterRecord'
  BY <1>3, <1>9 DEF CInv, Visible, RouteAfterRecord, NoRecord, Record
<1> QED
  BY <1>6, <1>7, <1>8, <1>11, <1>12 DEF CInv

LEMMA CallerKeepsCInv ==
    ASSUME CInv, NEW c \in Callers, CallerNext(c), kind' = kind
    PROVE  CInv'
<1>1. IInv' /\ VerifiedHadToken'
  BY CallerKeeps DEF CInv, IInv, TypeOK, ByDomainFindsLive, TokensAreIssued,
     UnusedIsBlank, Exists, VerifiedHadToken
<1> QED
  BY <1>1, CallerTypes, CallerWorks, CallerShows, CallerRoutes DEF CInv

\* A step of the control plane: of the store, the beginning of a reconcile, or a
\* step of one.
LEMMA StepCases ==
    ASSUME ControlPlaneNext
    PROVE  /\ kind' = kind
           /\ \/ \E h \in Headers : StoreRequest(h)
              \/ \E c \in Callers : BeginNext(c) \/ CallerNext(c)
BY RequestsBegin DEF ControlPlaneNext, CallerNext

LEMMA CInvInit == ControlPlaneInit => CInv
<1> SUFFICES ASSUME ControlPlaneInit PROVE CInv
  OBVIOUS
<1>1. IInv
  BY InitIInv DEF ControlPlaneInit
<1>2. VerifiedHadToken
  BY DEF ControlPlaneInit, Init, VerifiedHadToken, NoEntry
<1>3. Idle \in Runs /\ NoRecord \in Records
  BY DEF Idle, Turn, Runs, Places, NoRecord, Record, Records
<1>4. ControlPlaneTypeOK
  BY <1>1, <1>3, ControlPlaneAssumption DEF ControlPlaneInit, ControlPlaneTypeOK, IInv
<1>5. CallersWork
  BY DEF ControlPlaneInit, CallersWork, Idle, Turn, AtWork
<1>6. Visible /\ RouteAfterRecord
  BY DEF ControlPlaneInit, Visible, RouteAfterRecord
<1> QED
  BY <1>1, <1>2, <1>4, <1>5, <1>6 DEF CInv

LEMMA CInvNext == CInv /\ [ControlPlaneNext]_allVars => CInv'
<1> SUFFICES ASSUME CInv, [ControlPlaneNext]_allVars PROVE CInv'
  OBVIOUS
<1>1. CASE UNCHANGED allVars
  <2>1. UNCHANGED <<domains, byDomain, verifications, issued>>
    BY <1>1 DEF allVars, vars
  <2>2. UNCHANGED <<run, records, routes, outcome, ensured, started, overlap, faults>>
    BY <1>1 DEF allVars, reconcileVars
  <2>3. IInv' /\ VerifiedHadToken'
    BY <2>1 DEF CInv, IInv, TypeOK, ByDomainFindsLive, TokensAreIssued, UnusedIsBlank,
       Exists, VerifiedHadToken
  <2>4. ControlPlaneTypeOK'
    BY <1>1, <2>2, <2>3 DEF allVars, CInv, ControlPlaneTypeOK, IInv
  <2>5. CallersWork' /\ Visible' /\ RouteAfterRecord'
    BY <2>1, <2>2 DEF CInv, CallersWork, Visible, RouteAfterRecord, Owned, AtWork
  <2> QED
    BY <2>3, <2>4, <2>5 DEF CInv
<1> QED
  BY <1>1, StepCases, StoreRequestKeeps, BeginKeeps, CallerKeepsCInv

LEMMA CInvHolds == ControlPlaneSpec => []CInv
BY CInvInit, CInvNext, PTL DEF ControlPlaneSpec

\* The store, the reconciles under way, the zone, the routes and the history
\* keep their types however requests and reconciles overlap.
THEOREM ControlPlaneTypes == ControlPlaneSpec => []ControlPlaneTypeOK
<1>1. CInv => ControlPlaneTypeOK
  BY DEF CInv
<1> QED
  BY <1>1, CInvHolds, PTL

\* Whatever reconciles, deletions and new registrations overlap, what Cloudflare
\* and Consul show of a name is a registration of that name, read when it was
\* live and verified by a token of its own (reconcile.go:35-73).
THEOREM OwnTraffic == ControlPlaneSpec => []TrafficByOwnToken
<1>1. CInv => TrafficByOwnToken
  <2> SUFFICES ASSUME CInv, NEW n \in Names, NEW i \in Reached(n)
               PROVE  i \in Owned /\ domains[i].name = n
    BY DEF TrafficByOwnToken, Owned
  <2>0. i \in Ids /\ i # NoId
    BY MemoryAssumption DEF Reached
  <2>1. CASE routes[n] = i
    BY <2>0, <2>1 DEF CInv, Visible
  <2>2. ASSUME NEW r \in RecordIds, records[r] = Record(n, i)
        PROVE  i \in Owned /\ domains[i].name = n
    <3>1. records[r] # NoRecord /\ records[r].target = i /\ records[r].name = n
      BY <2>0, <2>2 DEF NoRecord, Record
    <3> QED
      BY <3>1 DEF CInv, Visible
  <2> QED
    BY <2>1, <2>2 DEF Reached
<1> QED
  BY <1>1, CInvHolds, PTL

\* Consul gets a route only after UpsertRecord had returned without an error for
\* that domain (reconcile.go:52-63), even when calls fail and reconciles of one
\* name overlap.
THEOREM RoutesFollowRecords == ControlPlaneSpec => []RouteAfterRecord
<1>1. CInv => RouteAfterRecord
  BY DEF CInv
<1> QED
  BY <1>1, CInvHolds, PTL

------------------------------------------------------------------------------
(* Results, as long as reconciles do not overlap.                          *)

\* One caller at a time is not idle.
OneAtWork ==
    \A c, d \in Callers : run[c].at # "idle" /\ run[d].at # "idle" => c = d

\* No name has two records of one kind.
OneRecordEach ==
    \A n \in Names, i \in Ids : \A q, r \in RecordIds :
        IsOfKind(q, n, i) /\ IsOfKind(r, n, i) => q = r

HasRecord(n, i) == \E r \in RecordIds : records[r] = Record(n, i)

\* What a caller that works on domain i of name n has found or made holds while
\* it goes on, and the name has no result meanwhile.
Holds(c, n, i) ==
    /\ run[c].at = "create" => \A r \in RecordIds : ~IsOfKind(r, n, i)
    /\ run[c].at = "update" =>
          run[c].record \in RecordIds /\ IsOfKind(run[c].record, n, i)
    /\ run[c].at \in {"route", "job"} => HasRecord(n, i)
    /\ run[c].at = "job" => routes[n] = i
    /\ run[c].at \in {"list", "create", "update", "route", "job"} => outcome[n] = NoId

Unfinished ==
    \A c \in Callers : Holds(c, domains[run[c].domain].name, run[c].domain)

\* What was reported reconciled is.
Whole ==
    \A n \in Names : outcome[n] # NoId =>
        routes[n] = outcome[n] /\ HasRecord(n, outcome[n])

Alone == overlap = "no" => OneAtWork /\ OneRecordEach /\ Unfinished /\ Whole

\* While one caller works, the others are idle.
LEMMA OthersIdle ==
    ASSUME CInv, OneAtWork, NEW c \in Callers, CallerNext(c)
    PROVE  OneAtWork' /\ \A d \in Callers : d # c => run'[d].at = "idle"
<1>1. run[c].at # "idle"
  BY DEF CallerNext, NextDomain, Zone, List, CreateRecord, UpdateRecord, WriteRoute,
         CallFails, JobStatus
<1>2. Others(c)
  BY CallerSteps DEF CallerStep, CInv, ControlPlaneTypeOK
<1>3. \A d \in Callers : d # c => run'[d].at = "idle"
  BY <1>1, <1>2 DEF OneAtWork, Others
<1> QED
  BY <1>3 DEF OneAtWork

\* So it is enough to look at that one.
LEMMA OneUnfinished ==
    ASSUME NEW c \in Callers, \A d \in Callers : d # c => run'[d].at = "idle",
           run'[c].at \in AtWork \ {"zone"} =>
              /\ run'[c].domain = run[c].domain /\ domains' = domains
              /\ outcome'[NameOf(c)] = NoId
              /\ run'[c].at = "create" =>
                    /\ UNCHANGED <<records, kind>>
                    /\ \A r \in RecordIds : ~IsOfKind(r, NameOf(c), Working(c))
              /\ run'[c].at = "update" =>
                    /\ UNCHANGED <<records, kind>>
                    /\ run'[c].record \in RecordIds
                    /\ IsOfKind(run'[c].record, NameOf(c), Working(c))
              /\ run'[c].at \in {"route", "job"} =>
                    \E q \in RecordIds : records'[q] = Record(NameOf(c), Working(c))
              /\ run'[c].at = "job" => routes'[NameOf(c)] = Working(c)
    PROVE  Unfinished'
<1>1. \A d \in Callers : d # c =>
         Holds(d, domains[run[d].domain].name, run[d].domain)'
  BY DEF Holds
<1>2. Holds(c, domains[run[c].domain].name, run[c].domain)'
  <2>1. CASE run'[c].at \in AtWork \ {"zone"}
    BY <2>1 DEF Holds, HasRecord, NameOf, Working, Record, IsOfKind
  <2>2. CASE run'[c].at \notin AtWork \ {"zone"}
    BY <2>2 DEF Holds, AtWork, Places
  <2> QED
    BY <2>1, <2>2
<1> QED
  BY <1>1, <1>2 DEF Unfinished

\* A caller that is done, or has yet to find the zone, holds nothing.
LEMMA NothingHeld ==
    ASSUME NEW c \in Callers, \A d \in Callers : d # c => run'[d].at = "idle",
           run'[c].at \in {"idle", "next", "zone"}
    PROVE  Unfinished'
BY OneUnfinished DEF AtWork, Places

\* A record is written for the name that has no other, nor a result.
LEMMA PutsKeeps ==
    ASSUME CInv, OneRecordEach, Whole, NEW c \in Callers, NEW r \in RecordIds,
           run[c].at \in AtWork, outcome[NameOf(c)] = NoId,
           kind' = kind, records[r] = NoRecord \/ IsOfKind(r, NameOf(c), Working(c)),
           \A q \in RecordIds : q # r => ~IsOfKind(q, NameOf(c), Working(c)),
           Puts(c, r)
    PROVE  /\ OneRecordEach' /\ Whole'
           /\ \E q \in RecordIds : records'[q] = Record(NameOf(c), Working(c))
<1>0. NameOf(c) \in Names /\ Working(c) \in Ids
  BY WorkedOn DEF CInv
<1>1. /\ \A q \in RecordIds : q # r => records'[q] = records[q]
      /\ records'[r] = Record(NameOf(c), Working(c))
      /\ records'[r].name = NameOf(c) /\ records'[r].target = Working(c)
      /\ UNCHANGED <<routes, outcome>>
  BY DEF Puts, CInv, ControlPlaneTypeOK, Record
<1>2. OneRecordEach'
  <2> SUFFICES ASSUME NEW n \in Names, NEW i \in Ids,
                      NEW p \in RecordIds, NEW q \in RecordIds,
                      IsOfKind(p, n, i)', IsOfKind(q, n, i)'
               PROVE  p = q
    BY DEF OneRecordEach
  <2>1. IsOfKind(r, n, i)' => n = NameOf(c) /\ kind[Working(c)] = kind[i]
    BY <1>1 DEF IsOfKind
  <2>2. \A o \in RecordIds : o # r /\ IsOfKind(o, n, i)' => IsOfKind(o, n, i)
    BY <1>1 DEF IsOfKind
  <2>3. \A o \in RecordIds :
           o # r /\ IsOfKind(o, n, i) => ~(n = NameOf(c) /\ kind[Working(c)] = kind[i])
    BY DEF IsOfKind
  <2> QED
    BY <2>1, <2>2, <2>3 DEF OneRecordEach
<1>3. \E q \in RecordIds : records'[q] = Record(NameOf(c), Working(c))
  BY <1>1
<1>4. Whole'
  <2> SUFFICES ASSUME NEW m \in Names, outcome[m] # NoId
               PROVE  routes[m] = outcome[m]
                      /\ \E q \in RecordIds : records'[q] = Record(m, outcome[m])
    BY <1>1 DEF Whole, HasRecord, Record
  <2>1. m # NameOf(c) /\ m # NoName
    BY NoNameAssumption
  <2>2. PICK q \in RecordIds : records[q] = Record(m, outcome[m])
    BY DEF Whole, HasRecord
  <2>3. q # r
    BY <2>1, <2>2 DEF Record, NoRecord, IsOfKind
  <2> QED
    BY <1>1, <2>2, <2>3 DEF Whole
<1> QED
  BY <1>2, <1>3, <1>4

\* After the record, the caller goes on to the route or is done.
LEMMA AfterRecordHolds ==
    ASSUME CInv, NEW c \in Callers, AfterRecord(c), domains' = domains,
           \A d \in Callers : d # c => run'[d].at = "idle",
           outcome'[NameOf(c)] = NoId,
           \E q \in RecordIds : records'[q] = Record(NameOf(c), Working(c))
    PROVE  Unfinished'
<1>0. run \in [Callers -> Runs]
  BY DEF CInv, ControlPlaneTypeOK
<1>1. CASE Goes(c, "route")
  <2>1. run'[c].at = "route" /\ run'[c].domain = run[c].domain
    BY <1>0, <1>1, GoesOn DEF Places
  <2> QED
    BY <2>1, OneUnfinished
<1>2. CASE Ends(c)
  BY <1>0, <1>2, IsDone, NothingHeld
<1> QED
  BY <1>1, <1>2 DEF AfterRecord

LEMMA PutsAlone ==
    ASSUME CInv, OneRecordEach, Whole, NEW c \in Callers, NEW r \in RecordIds,
           \A d \in Callers : d # c => run'[d].at = "idle",
           run[c].at \in AtWork, outcome[NameOf(c)] = NoId,
           kind' = kind, records[r] = NoRecord \/ IsOfKind(r, NameOf(c), Working(c)),
           \A q \in RecordIds : q # r => ~IsOfKind(q, NameOf(c), Working(c)),
           Puts(c, r)
    PROVE  OneRecordEach' /\ Whole' /\ Unfinished'
<1>1. /\ OneRecordEach' /\ Whole'
      /\ \E q \in RecordIds : records'[q] = Record(NameOf(c), Working(c))
  BY PutsKeeps
<1>2. domains' = domains /\ outcome' = outcome
  BY DEF Puts, vars
<1>3. CASE AfterRecord(c)
  BY <1>1, <1>2, <1>3, AfterRecordHolds
<1>4. CASE Ends(c)
  <2>1. run \in [Callers -> Runs]
    BY DEF CInv, ControlPlaneTypeOK
  <2>2. run'[c].at \in {"idle", "next", "zone"}
    BY <1>4, <2>1, IsDone
  <2> QED
    BY <1>1, <2>2, NothingHeld
<1> QED
  BY <1>1, <1>3, <1>4 DEF Puts

LEMMA CallerAlone ==
    ASSUME CInv, Alone, overlap = "no", NEW c \in Callers, CallerNext(c), kind' = kind
    PROVE  Alone'
<1>0. OneAtWork /\ OneRecordEach /\ Whole
      /\ Holds(c, NameOf(c), Working(c))
  BY DEF Alone, Unfinished, NameOf, Working
<1>1. OneAtWork' /\ \A d \in Callers : d # c => run'[d].at = "idle"
  BY <1>0, OthersIdle
<1>2. run \in [Callers -> Runs] /\ domains' = domains
      /\ outcome \in [Names -> Ids \cup {NoId}] /\ routes \in [Names -> Ids \cup {NoId}]
      /\ records \in [RecordIds -> Records]
  BY CallerKeeps DEF CInv, ControlPlaneTypeOK
<1>3. run[c].at \in AtWork => NameOf(c) \in Names /\ Working(c) \in Ids
  BY WorkedOn DEF CInv
<1>4. ASSUME Ends(c) PROVE Unfinished'
  BY <1>1, <1>2, <1>4, IsDone, NothingHeld
<1>5. CASE NextDomain(c)
  <2>1. Unfinished'
    BY <1>1, <1>2, <1>5, TurnsTo, NothingHeld
  <2>2. UNCHANGED <<records, routes, outcome>>
    BY <1>5 DEF NextDomain
  <2> QED
    BY <1>0, <1>1, <2>1, <2>2 DEF Alone, OneRecordEach, Whole, HasRecord, Record, IsOfKind
<1>6. CASE Zone(c)
  <2>1. outcome' = [outcome EXCEPT ![NameOf(c)] = NoId] /\ UNCHANGED <<records, routes>>
        /\ NameOf(c) \in Names
    BY <1>3, <1>6 DEF Zone, AtWork, Places
  <2>2. CASE Goes(c, "list")
    <3>1. run'[c].at = "list" /\ run'[c].domain = run[c].domain
      BY <1>2, <2>2, GoesOn DEF Places
    <3>2. Unfinished'
      BY <1>1, <1>2, <2>1, <3>1, OneUnfinished
    <3> QED
      BY <1>0, <1>1, <1>2, <2>1, <3>2 DEF Alone, OneRecordEach, Whole, HasRecord, Record, IsOfKind
  <2>3. CASE Ends(c)
    BY <1>0, <1>1, <1>2, <1>4, <2>1, <2>3
       DEF Alone, OneRecordEach, Whole, HasRecord, Record, IsOfKind
  <2> QED
    BY <1>6, <2>2, <2>3 DEF Zone
<1>7. CASE List(c)
  <2>1. UNCHANGED <<records, routes, outcome>> /\ outcome[NameOf(c)] = NoId
        /\ run[c].at \in AtWork
    BY <1>0, <1>7 DEF List, Holds, AtWork, Places
  <2>2. ASSUME \E r \in Listed(c) : records[r].target = Working(c) /\ AfterRecord(c)
        PROVE  Unfinished'
    <3>1. PICK r \in Listed(c) : records[r].target = Working(c) /\ AfterRecord(c)
      BY <2>2
    <3>2. records[r] = Record(NameOf(c), Working(c)) /\ r \in RecordIds
      BY <1>2, <3>1 DEF Listed, IsOfKind, Record, Records
    <3>3. outcome'[NameOf(c)] = NoId
          /\ \E q \in RecordIds : records'[q] = Record(NameOf(c), Working(c))
      BY <2>1, <3>2
    <3> QED
      BY <1>1, <1>2, <3>1, <3>3, AfterRecordHolds
  <2>3. ASSUME NEW r \in Listed(c),
               run' = [run EXCEPT ![c] =
                          Turn("update", @.domain, @.clients, r, @.todo)]
        PROVE  Unfinished'
    <3>1. r \in RecordIds /\ IsOfKind(r, NameOf(c), Working(c))
      BY DEF Listed
    <3>2. run'[c].at = "update" /\ run'[c].record = r /\ run'[c].domain = run[c].domain
      BY <1>2, <2>3, <3>1, ToUpdate
    <3> QED
      BY <1>1, <1>2, <2>1, <3>1, <3>2, OneUnfinished
  <2>4. ASSUME Listed(c) = {}, Goes(c, "create") PROVE Unfinished'
    <3>1. run'[c].at = "create" /\ run'[c].domain = run[c].domain
      BY <1>2, <2>4, GoesOn DEF Places
    <3> QED
      BY <1>1, <1>2, <2>1, <2>4, <3>1, OneUnfinished DEF Listed
  <2>5. Unfinished'
    BY <1>7, <2>2, <2>3, <2>4 DEF List
  <2> QED
    BY <1>0, <1>1, <2>1, <2>5 DEF Alone, OneRecordEach, Whole, HasRecord, Record, IsOfKind
<1>8. CASE CreateRecord(c)
  <2>1. PICK r \in RecordIds : records[r] = NoRecord /\ Puts(c, r)
    BY <1>8 DEF CreateRecord
  <2>2. /\ \A q \in RecordIds : ~IsOfKind(q, NameOf(c), Working(c))
        /\ outcome[NameOf(c)] = NoId /\ run[c].at \in AtWork
    BY <1>0, <1>8 DEF CreateRecord, Holds, AtWork, Places
  <2> QED
    BY <1>0, <1>1, <2>1, <2>2, PutsAlone DEF Alone
<1>9. CASE UpdateRecord(c)
  <2>1. /\ run[c].record \in RecordIds
        /\ IsOfKind(run[c].record, NameOf(c), Working(c))
        /\ outcome[NameOf(c)] = NoId /\ run[c].at \in AtWork
        /\ Puts(c, run[c].record)
    BY <1>0, <1>9 DEF UpdateRecord, Holds, AtWork, Places
  <2>2. \A q \in RecordIds :
           q # run[c].record => ~IsOfKind(q, NameOf(c), Working(c))
    BY <1>0, <1>3, <2>1 DEF OneRecordEach
  <2> QED
    BY <1>0, <1>1, <2>1, <2>2, PutsAlone DEF Alone
<1>10. CASE WriteRoute(c)
  <2>1. /\ routes' = [routes EXCEPT ![NameOf(c)] = Working(c)]
        /\ UNCHANGED <<records, outcome>> /\ NameOf(c) \in Names
        /\ outcome[NameOf(c)] = NoId
    BY <1>0, <1>3, <1>10 DEF WriteRoute, Holds, AtWork, Places
  <2>2. OneRecordEach' /\ Whole'
    BY <1>0, <1>2, <2>1 DEF OneRecordEach, Whole, HasRecord, Record, IsOfKind
  <2>3. CASE Goes(c, "job")
    <3>1. run'[c].at = "job" /\ run'[c].domain = run[c].domain
      BY <1>2, <2>3, GoesOn DEF Places
    <3>2. \E q \in RecordIds : records'[q] = Record(NameOf(c), Working(c))
      BY <1>0, <1>10, <2>1 DEF WriteRoute, Holds, HasRecord
    <3>3. routes'[NameOf(c)] = Working(c)
      BY <1>2, <2>1
    <3> QED
      BY <1>1, <1>2, <2>1, <2>2, <3>1, <3>2, <3>3, OneUnfinished DEF Alone
  <2> QED
    BY <1>1, <1>4, <1>10, <2>2, <2>3 DEF WriteRoute, Alone
<1>11. CASE CallFails(c)
  <2>1. UNCHANGED <<records, routes, outcome>> /\ Unfinished'
    BY <1>4, <1>11 DEF CallFails
  <2> QED
    BY <1>0, <1>1, <2>1 DEF Alone, OneRecordEach, Whole, HasRecord, Record, IsOfKind
<1>12. CASE JobStatus(c)
  <2>1. /\ outcome' = [outcome EXCEPT ![NameOf(c)] = Working(c)]
        /\ UNCHANGED <<records, routes>> /\ Unfinished' /\ NameOf(c) \in Names
        /\ routes[NameOf(c)] = Working(c) /\ HasRecord(NameOf(c), Working(c))
    BY <1>0, <1>3, <1>4, <1>12 DEF JobStatus, Holds, AtWork, Places
  <2>2. OneRecordEach'
    BY <1>0, <2>1 DEF OneRecordEach, IsOfKind
  <2>3. Whole'
    <3> SUFFICES ASSUME NEW m \in Names, outcome'[m] # NoId
                 PROVE  routes[m] = outcome'[m] /\ HasRecord(m, outcome'[m])
      BY <2>1 DEF Whole, HasRecord, Record
    <3>1. CASE m = NameOf(c)
      BY <1>2, <2>1, <3>1
    <3>2. CASE m # NameOf(c)
      BY <1>0, <1>2, <2>1, <3>2 DEF Whole
    <3> QED
      BY <3>1, <3>2
  <2> QED
    BY <1>1, <2>1, <2>2, <2>3 DEF Alone
<1> QED
  BY <1>5, <1>6, <1>7, <1>8, <1>9, <1>10, <1>11, <1>12 DEF CallerNext

LEMMA StoreRequestAlone ==
    ASSUME CInv, Alone, NEW h, StoreRequest(h), kind' = kind
    PROVE  Alone'
<1>1. UNCHANGED <<run, records, routes, outcome, overlap>>
  BY DEF StoreRequest, reconcileVars
<1>2. \A i \in Owned : domains'[i].name = domains[i].name
  BY StoreRequestKeeps
<1>3. ASSUME Unfinished PROVE Unfinished'
  <2> SUFFICES ASSUME NEW c \in Callers
               PROVE  Holds(c, domains[run[c].domain].name, run[c].domain)'
    BY DEF Unfinished
  <2>1. CASE run[c].at \in AtWork
    <3>1. domains'[run[c].domain].name = domains[run[c].domain].name
      BY <1>2, <2>1 DEF CInv, CallersWork
    <3> QED
      BY <1>1, <1>3, <3>1 DEF Unfinished, Holds, HasRecord, Record, IsOfKind
  <2>2. CASE run[c].at \notin AtWork
    BY <1>1, <2>2 DEF Holds, AtWork, Places
  <2> QED
    BY <2>1, <2>2
<1> QED
  BY <1>1, <1>3 DEF Alone, OneAtWork, OneRecordEach, Whole, HasRecord, Record, IsOfKind

LEMMA BeginAlone ==
    ASSUME CInv, Alone, NEW c \in Callers, BeginNext(c), kind' = kind
    PROVE  Alone'
<1> SUFFICES ASSUME overlap' = "no" PROVE Alone'
  BY DEF Alone
<1>1. PICK clients \in ClientSets, read \in SUBSET Ids : \E todo \in SUBSET read :
         Begins(c, read, clients, todo)
  BY DEF BeginNext
<1>2. PICK todo \in SUBSET read : Begins(c, read, clients, todo)
  BY <1>1
<1>3. /\ UNCHANGED <<records, routes, outcome>> /\ overlap = "no"
      /\ \A d \in Callers : run[d].at = "idle"
  BY <1>2 DEF Begins
<1>4. Others(c) /\ run'[c].at = "next"
  BY <1>2, Begun, ControlPlaneAssumption DEF CInv, ControlPlaneTypeOK
<1>5. \A d \in Callers : d # c => run'[d].at = "idle"
  BY <1>3, <1>4 DEF Others
<1>6. Unfinished'
  BY <1>4, <1>5, NothingHeld
<1>7. OneAtWork'
  BY <1>5 DEF OneAtWork
<1> QED
  BY <1>3, <1>6, <1>7 DEF Alone, OneRecordEach, Whole, HasRecord, Record, IsOfKind

LEMMA AloneInit == ControlPlaneInit => Alone
<1> SUFFICES ASSUME ControlPlaneInit PROVE Alone
  OBVIOUS
<1>1. \A c \in Callers : run[c].at = "idle"
  BY DEF ControlPlaneInit, Idle, Turn
<1>2. OneRecordEach
  BY NoNameAssumption DEF ControlPlaneInit, OneRecordEach, NoRecord, Record, IsOfKind
<1>3. Whole
  BY DEF ControlPlaneInit, Whole
<1> QED
  BY <1>1, <1>2, <1>3 DEF Alone, OneAtWork, Unfinished, Holds

LEMMA AloneNext == CInv /\ Alone /\ [ControlPlaneNext]_allVars => Alone'
<1> SUFFICES ASSUME CInv, Alone, [ControlPlaneNext]_allVars PROVE Alone'
  OBVIOUS
<1>1. ASSUME NEW c \in Callers, CallerNext(c), kind' = kind PROVE Alone'
  <2>1. overlap' = overlap
    BY <1>1, CallerKeeps
  <2> QED
    BY <1>1, <2>1, CallerAlone DEF Alone
<1>2. CASE UNCHANGED allVars
  BY <1>2 DEF allVars, vars, reconcileVars, Alone, OneAtWork, OneRecordEach, Unfinished,
              Whole, Holds, HasRecord, Record, IsOfKind
<1> QED
  BY <1>1, <1>2, StepCases, StoreRequestAlone, BeginAlone

\* A result without an error is no pretence (reconcile.go:35): as long as
\* reconciles do not overlap, the route of the name and its one record of the
\* type and in the zone that the domain asks for are the domain's, until the next
\* reconcile of the name.
THEOREM SuccessWhole == ControlPlaneSpec => []SuccessIsWhole
<1>1. CInv /\ Alone => SuccessIsWhole
  <2> SUFFICES ASSUME CInv, OneRecordEach, Whole, NEW n \in Names, outcome[n] # NoId
               PROVE  /\ routes[n] = outcome[n]
                      /\ \E r \in RecordIds :
                            /\ records[r] = Record(n, outcome[n])
                            /\ \A q \in RecordIds : IsOfKind(q, n, outcome[n]) => q = r
    BY DEF Alone, SuccessIsWhole
  <2>1. PICK r \in RecordIds : records[r] = Record(n, outcome[n])
    BY DEF Whole, HasRecord
  <2>2. outcome[n] \in Ids /\ IsOfKind(r, n, outcome[n])
    BY <2>1 DEF CInv, ControlPlaneTypeOK, Record, IsOfKind
  <2>3. \A q \in RecordIds : IsOfKind(q, n, outcome[n]) => q = r
    BY <2>2 DEF OneRecordEach
  <2> QED
    BY <2>1, <2>3 DEF Whole
<1> QED
  BY <1>1, AloneInit, AloneNext, CInvHolds, PTL DEF ControlPlaneSpec

------------------------------------------------------------------------------
(* The server's store is the memory store.                                 *)

LEMMA StoreInside ==
    [ControlPlaneNext]_allVars => [Next]_vars
BY DEF ControlPlaneNext, StoreRequest, ReconcileDomain, ReconcileAll, Begins, NextDomain,
       Zone, List, CreateRecord, UpdateRecord, Puts, WriteRoute, CallFails, JobStatus,
       allVars

\* What the memory store does for itself it does under the server and its
\* reconciles: the duplicate check of Create overlooks no live domain ...
THEOREM ServedByDomain == ControlPlaneSpec => []ByDomainFindsLive
<1>1. ControlPlaneInit => Init
  BY DEF ControlPlaneInit
<1> QED
  BY <1>1, StoreInside, ByDomainIsRight, PTL DEF ControlPlaneSpec, Spec

\* ... and all the server does with domains is what the registry allows.
THEOREM ServedImplements == ControlPlaneSpec => ImplementsRegistry
<1>1. ControlPlaneInit => Init
  BY DEF ControlPlaneInit
<1> QED
  BY <1>1, StoreInside, Implements, PTL DEF ControlPlaneSpec, Spec
==============================================================================
