---------------------------- MODULE DomainPoolProofs ----------------------------
(***************************************************************************)
(* Proofs about DomainPool, for any number of processes, names, targets,   *)
(* entries, records and faults: what the file says of DNS was so at some   *)
(* time, and a name has one live entry unless an earlier one was applied.  *)
(***************************************************************************)
EXTENDS DomainPool, TLAPS

(***************************************************************************)
(* The inductive invariant.  Each store there is, in the file or loaded by *)
(* a process, is honest about the zone: a process writes back what it      *)
(* loaded, so what it loaded has to be honest.  The records of the zone    *)
(* are among those it has held, since a record List finds right makes an   *)
(* entry active.  A process at work on an entry has it in its store.       *)
(***************************************************************************)
Honest(s, zone) ==
    \A i \in Ids :
        Has(s, i) /\ s[i].status = "active"
            => Record(s[i].name, s[i].target) \in zone

AtWork == {"zone", "list", "create", "update", "lookup"}

Steady(run) == run.at \in AtWork => (run.cur \in Ids /\ Has(run.snap, run.cur))

Sane(run, zone) == run \in Runs /\ Honest(run.snap, zone) /\ Steady(run)

Rest ==
    /\ last \in 0 .. MaxEntries
    /\ entries \in [Ids -> Records]
    /\ torn \in {"no", "yes"}
    /\ faults \in 0 .. MaxFaults

Zoned(recs, zone) ==
    /\ recs \in [RecordIds -> Records]
    /\ zone \subseteq Records
    /\ \A r \in RecordIds : recs[r] # NoRecord => recs[r] \in zone

Filed(f, zone) ==
    /\ f \in Stores \cup {Unreadable}
    /\ f # Unreadable => Honest(f, zone)

Running(runs, zone) ==
    /\ runs \in [Procs -> Runs]
    /\ \A p \in Procs : Sane(runs[p], zone)

IInv ==
    /\ Rest
    /\ Zoned(records, served)
    /\ Filed(file, served)
    /\ Running(proc, served)

------------------------------------------------------------------------------
(* Stores and runs.                                                        *)

LEMMA EmptyIsHonest ==
    ASSUME NEW zone
    PROVE  Empty \in Stores /\ Honest(Empty, zone)
BY NothingAssumption DEF Empty, NoEntry, Stores, Entries, Statuses, Honest, Has

LEMMA IdleIsSane ==
    ASSUME NEW zone, NEW todo \in SUBSET Ids
    PROVE  Sane(Idle, zone) /\ Sane(Turns(todo), zone)
<1>1. Idle \in Runs /\ Turns(todo) \in Runs
  BY EmptyIsHonest, BoundsAssumption DEF Idle, Turns, Run, Runs, Places
<1>2. Idle.snap = Empty /\ Turns(todo).snap = Empty
  BY DEF Idle, Turns, Run
<1>3. Idle.at \notin AtWork /\ Turns(todo).at \notin AtWork
  BY DEF Idle, Turns, Run, AtWork
<1> QED
  BY <1>1, <1>2, <1>3, EmptyIsHonest DEF Sane, Steady

LEMMA HonestLater ==
    ASSUME NEW s, NEW zone, NEW later, zone \subseteq later, Honest(s, zone)
    PROVE  Honest(s, later)
BY DEF Honest

\* One process takes a step to a sane run, the zone may have held more since.
LEMMA OneRuns ==
    ASSUME NEW runs, NEW zone, NEW later, zone \subseteq later,
           Running(runs, zone),
           NEW p \in Procs, NEW run, Sane(run, later)
    PROVE  Running([runs EXCEPT ![p] = run], later)
<1>1. [runs EXCEPT ![p] = run] \in [Procs -> Runs]
  BY DEF Running, Sane
<1>2. ASSUME NEW q \in Procs
      PROVE  Sane([runs EXCEPT ![p] = run][q], later)
  <2>1. CASE q = p
    BY <2>1 DEF Running
  <2>2. CASE q # p
    BY <2>2, HonestLater DEF Running, Sane
  <2> QED
    BY <2>1, <2>2
<1> QED
  BY <1>1, <1>2 DEF Running

\* An entry is set to something honest, the rest of the store is kept.
LEMMA OneEntry ==
    ASSUME NEW s \in Stores, NEW zone, Honest(s, zone),
           NEW i \in Ids, NEW e \in Entries,
           e.status = "active" => Record(e.name, e.target) \in zone
    PROVE  /\ [s EXCEPT ![i] = e] \in Stores
           /\ Honest([s EXCEPT ![i] = e], zone)
<1>1. [s EXCEPT ![i] = e] \in Stores
  BY DEF Stores
<1>2. ASSUME NEW j \in Ids
      PROVE  [s EXCEPT ![i] = e][j] = IF j = i THEN e ELSE s[j]
  BY DEF Stores
<1> QED
  BY <1>1, <1>2 DEF Honest, Has

\* The status of an entry at work, changed.
LEMMA StatusSet ==
    ASSUME NEW s \in Stores, NEW zone, Honest(s, zone), NEW i \in Ids,
           Has(s, i), NEW status \in Statuses,
           status = "active" => Record(s[i].name, s[i].target) \in zone
    PROVE  /\ [s EXCEPT ![i].status = status] \in Stores
           /\ Honest([s EXCEPT ![i].status = status], zone)
           /\ Has([s EXCEPT ![i].status = status], i)
<1> DEFINE e == [s[i] EXCEPT !.status = status]
<1>1. s[i] \in Entries
  BY DEF Stores
<1>2. e \in Entries /\ e.status = status /\ e.verification = s[i].verification
      /\ e.name = s[i].name /\ e.target = s[i].target
  BY <1>1 DEF Entries
<1>3. e.status = "active" => Record(e.name, e.target) \in zone
  BY <1>2 DEF Honest
<1>4. [s EXCEPT ![i].status = status] = [s EXCEPT ![i] = e]
  OBVIOUS
<1>5. [s EXCEPT ![i] = e][i].name = s[i].name
  BY <1>2 DEF Stores
<1> HIDE DEF e
<1> QED
  BY <1>2, <1>3, <1>4, <1>5, OneEntry DEF Has

LEMMA VerificationSet ==
    ASSUME NEW s \in Stores, NEW zone, Honest(s, zone), NEW i \in Ids,
           Has(s, i), NEW verdict \in {"verified", "failed"}
    PROVE  /\ [s EXCEPT ![i].verification = verdict] \in Stores
           /\ Honest([s EXCEPT ![i].verification = verdict], zone)
<1> DEFINE e == [s[i] EXCEPT !.verification = verdict]
<1>1. s[i] \in Entries
  BY DEF Stores
<1>2. e \in Entries /\ e.status = s[i].status /\ e.verification = verdict
      /\ e.name = s[i].name /\ e.target = s[i].target
  BY <1>1 DEF Entries
<1>3. e.status = "active" => Record(e.name, e.target) \in zone
  BY <1>2 DEF Honest
<1>4. [s EXCEPT ![i].verification = verdict] = [s EXCEPT ![i] = e]
  OBVIOUS
<1> HIDE DEF e
<1> QED
  BY <1>2, <1>3, <1>4, OneEntry

\* What Goes(p, place, s) makes of the runs.
LEMMA GoesOn ==
    ASSUME NEW runs, NEW zone, NEW later, zone \subseteq later,
           Running(runs, zone), NEW p \in Procs,
           NEW place \in Places, NEW s \in Stores, Honest(s, later),
           place \in AtWork => (runs[p].cur \in Ids /\ Has(s, runs[p].cur))
    PROVE  Running([runs EXCEPT ![p] = Run(place, s, @.cur, @.todo)], later)
<1> DEFINE run == Run(place, s, runs[p].cur, runs[p].todo)
<1>1. runs[p] \in Runs /\ runs \in [Procs -> Runs]
  BY DEF Running
<1>2. /\ run \in Runs
      /\ run.at = place /\ run.snap = s /\ run.cur = runs[p].cur
  BY <1>1, BoundsAssumption DEF Runs, Run
<1>3. Sane(run, later)
  BY <1>2 DEF Sane, Steady
<1> HIDE DEF run
<1>4. Running([runs EXCEPT ![p] = run], later)
  BY <1>3, OneRuns
<1> QED
  BY <1>4 DEF run

\* What holds of a process at work on an entry.
LEMMA WorkingOn ==
    ASSUME IInv, NEW p \in Procs
    PROVE  /\ proc[p].snap \in Stores /\ Honest(proc[p].snap, served)
           /\ proc[p].todo \in SUBSET Ids
           /\ proc[p].at \in AtWork =>
                /\ proc[p].cur \in Ids /\ Has(proc[p].snap, proc[p].cur)
                /\ Current(p) \in Entries
                /\ Record(Current(p).name, Current(p).target) \in Records
BY DEF IInv, Running, Sane, Steady, Runs, Stores, Entries, Current, Record,
       Records

\* A store may be marked active once its record is in the zone.
LEMMA MarkedIsHonest ==
    ASSUME IInv, NEW p \in Procs, proc[p].at \in AtWork,
           NEW later, served \subseteq later, NEW status \in Statuses,
           status = "active" =>
              Record(Current(p).name, Current(p).target) \in later
    PROVE  Marked(p, status) \in Stores /\ Honest(Marked(p, status), later)
<1>1. proc[p].snap \in Stores /\ Honest(proc[p].snap, later)
  BY WorkingOn, HonestLater
<1>2. proc[p].cur \in Ids /\ Has(proc[p].snap, proc[p].cur)
  BY WorkingOn
<1> QED
  BY <1>1, <1>2, StatusSet DEF Marked, Current

\* A record put into the zone is one the zone has held.
LEMMA ZonePut ==
    ASSUME NEW recs, NEW zone, Zoned(recs, zone), NEW r, NEW rec \in Records
    PROVE  Zoned([recs EXCEPT ![r] = rec], zone \cup {rec})
BY DEF Zoned

LEMMA FiledLater ==
    ASSUME NEW f, NEW zone, NEW later, zone \subseteq later, Filed(f, zone)
    PROVE  Filed(f, later)
BY HonestLater DEF Filed

------------------------------------------------------------------------------
(* Each action keeps the invariant.                                        *)

\* The commands that only load and change the file.
LEMMA AddKeeps ==
    ASSUME IInv, NEW p \in Procs, NEW n \in Names, NEW t \in Targets,
           Add(p, n, t)
    PROVE  IInv'
<1> DEFINE s == [file EXCEPT ![last + 1] = NewEntry(n, t)]
<1>1. last + 1 \in Ids /\ last + 1 \in 0 .. MaxEntries
  BY BoundsAssumption DEF Add, IInv, Rest, Ids
<1>2. file \in Stores /\ Honest(file, served)
  BY DEF Add, Starts, IInv, Filed
<1>3. NewEntry(n, t) \in Entries /\ NewEntry(n, t).status = "pending"
      /\ NewEntry(n, t).verification = "pending"
  BY DEF NewEntry, Entries, Statuses
<1>4. s \in Stores /\ Honest(s, served)
  BY <1>1, <1>2, <1>3, OneEntry
<1>5. Running(proc, served) /\ served' = served /\ served \subseteq served
  BY DEF Add, IInv
<1>6. Running([proc EXCEPT ![p] = Run("truncate", s, @.cur, @.todo)], served)
  BY <1>4, <1>5, GoesOn DEF AtWork, Places
<1>7. Running(proc', served')
  BY <1>5, <1>6 DEF Add, Goes
<1>8. Record(n, t) \in Records
  BY DEF Record, Records
<1> QED
  BY <1>1, <1>7, <1>8 DEF Add, IInv, Rest, Zoned, Filed

LEMMA RemoveKeeps ==
    ASSUME IInv, NEW p \in Procs, NEW k \in Keys \cup Names, NEW i \in Ids,
           Remove(p, k, i)
    PROVE  IInv'
<1> DEFINE s == [file EXCEPT ![i].status = "disabled"]
<1>1. file \in Stores /\ Honest(file, served) /\ Has(file, i)
  BY DEF Remove, Starts, Finds, Named, IInv, Filed
<1>2. s \in Stores /\ Honest(s, served)
  BY <1>1, StatusSet DEF Statuses
<1>3. Running(proc, served) /\ served' = served /\ served \subseteq served
  BY DEF Remove, IInv
<1>4. Running([proc EXCEPT ![p] = Run("truncate", s, @.cur, @.todo)], served)
  BY <1>2, <1>3, GoesOn DEF AtWork, Places
<1> QED
  BY <1>3, <1>4 DEF Remove, Goes, IInv, Rest, Zoned, Filed

\* The commands that load the file and then call somebody.
LEMMA LoadKeeps ==
    ASSUME IInv, NEW p \in Procs, NEW i \in Ids, NEW place \in Places,
           NEW todo \in SUBSET Ids,
           file # Unreadable, Has(file, i)
    PROVE  Running([proc EXCEPT ![p] = Run(place, file, i, todo)], served)
<1> DEFINE run == Run(place, file, i, todo)
<1>1. file \in Stores /\ Honest(file, served)
  BY DEF IInv, Filed
<1>2. run \in Runs /\ run.snap = file /\ run.cur = i
  BY <1>1, BoundsAssumption DEF Run, Runs, Ids
<1>3. Sane(run, served)
  BY <1>1, <1>2 DEF Sane, Steady
<1>4. Running(proc, served) /\ served \subseteq served
  BY DEF IInv
<1> HIDE DEF run
<1>5. Running([proc EXCEPT ![p] = run], served)
  BY <1>3, <1>4, OneRuns
<1> QED
  BY <1>5 DEF run

LEMMA TurnKeeps ==
    ASSUME IInv, NEW p \in Procs, NEW todo \in SUBSET Ids
    PROVE  /\ Running([proc EXCEPT ![p] = Turns(todo)], served)
           /\ Running([proc EXCEPT ![p] = Idle], served)
<1>1. Sane(Turns(todo), served) /\ Sane(Idle, served)
  BY IdleIsSane
<1>2. Running(proc, served) /\ served \subseteq served
  BY DEF IInv
<1> QED
  BY <1>1, <1>2, OneRuns

LEMMA FindKeeps ==
    ASSUME IInv, NEW p \in Procs,
           \/ \E k \in Keys \cup Names, i \in Ids : ApplyDNS(p, k, i) \/ VerifyDNS(p, k, i)
           \/ ApplyAll(p)
           \/ ApplyNext(p)
    PROVE  IInv'
<1>1. Running(proc', served)
  <2>1. CASE \E k \in Keys \cup Names, i \in Ids : ApplyDNS(p, k, i) \/ VerifyDNS(p, k, i)
    <3>1. PICK k \in Keys \cup Names, i \in Ids : ApplyDNS(p, k, i) \/ VerifyDNS(p, k, i)
      BY <2>1
    <3>2. file # Unreadable /\ Has(file, i)
      BY <3>1 DEF ApplyDNS, VerifyDNS, Starts, Finds, Named
    <3>3. /\ Running([proc EXCEPT ![p] = Run("zone", file, i, {})], served)
          /\ Running([proc EXCEPT ![p] = Run("lookup", file, i, {})], served)
      BY <3>2, LoadKeeps DEF Places
    <3> QED
      BY <3>1, <3>3 DEF ApplyDNS, VerifyDNS
  <2>2. CASE ApplyAll(p)
    BY <2>2, TurnKeeps DEF ApplyAll
  <2>3. CASE ApplyNext(p)
    <3>1. proc[p].todo \in SUBSET Ids
      BY WorkingOn
    <3>2. PICK i \in proc[p].todo :
             \/ \E k \in Found(file, entries[i].name) :
                  proc' = [proc EXCEPT ![p] =
                              Run("zone", file, k, proc[p].todo \ {i})]
             \/ proc' = [proc EXCEPT ![p] = Turns(proc[p].todo \ {i})]
      BY <2>3 DEF ApplyNext
    <3> DEFINE rest == proc[p].todo \ {i}
    <3>3. rest \in SUBSET Ids
      BY <3>1
    <3>4. CASE proc' = [proc EXCEPT ![p] = Turns(rest)]
      BY <3>3, <3>4, TurnKeeps
    <3>5. ASSUME NEW k \in Found(file, entries[i].name),
                 proc' = [proc EXCEPT ![p] = Run("zone", file, k, rest)]
          PROVE  Running(proc', served)
      <4>1. k \in Ids /\ file # Unreadable /\ Has(file, k)
        BY DEF Found, Finds, Named
      <4>2. Running([proc EXCEPT ![p] = Run("zone", file, k, rest)], served)
        BY <3>3, <4>1, LoadKeeps DEF Places
      <4> QED
        BY <3>5, <4>2
    <3> QED
      BY <3>2, <3>4, <3>5
  <2> QED
    BY <2>1, <2>2, <2>3
<1>2. UNCHANGED <<file, records, last, entries, served, torn, faults>>
  BY DEF ApplyDNS, VerifyDNS, ApplyAll, ApplyNext
<1> QED
  BY <1>1, <1>2 DEF IInv, Rest

\* The calls of a process at work: it goes on at work, or to save a store with
\* its entry marked.
LEMMA CallGoesOn ==
    ASSUME IInv, NEW p \in Procs, proc[p].at \in AtWork,
           NEW later, served \subseteq later,
           NEW place \in Places,
           NEW status \in Statuses,
           status = "active" =>
              Record(Current(p).name, Current(p).target) \in later
    PROVE  /\ Running([proc EXCEPT ![p] =
                         Run(place, proc[p].snap, @.cur, @.todo)], later)
           /\ Running([proc EXCEPT ![p] =
                         Run("truncate", Marked(p, status), @.cur, @.todo)], later)
<1>1. Running(proc, served)
  BY DEF IInv
<1>2. proc[p].snap \in Stores /\ Honest(proc[p].snap, later)
      /\ proc[p].cur \in Ids /\ Has(proc[p].snap, proc[p].cur)
  BY WorkingOn, HonestLater
<1>3. Marked(p, status) \in Stores /\ Honest(Marked(p, status), later)
  BY MarkedIsHonest
<1>4. "truncate" \in Places /\ "truncate" \notin AtWork
  BY DEF Places, AtWork
<1>5. Running([proc EXCEPT ![p] = Run(place, proc[p].snap, @.cur, @.todo)], later)
  BY <1>1, <1>2, GoesOn
<1>6. Running([proc EXCEPT ![p] =
                 Run("truncate", Marked(p, status), @.cur, @.todo)], later)
  BY <1>1, <1>3, <1>4, GoesOn
<1> QED
  BY <1>5, <1>6

LEMMA AsksKeep ==
    ASSUME IInv, NEW p \in Procs, Zone(p) \/ CallFails(p)
    PROVE  IInv'
<1>1. proc[p].at \in AtWork /\ served \subseteq served
  BY DEF Zone, CallFails, AtWork
<1>2. /\ {"list", "truncate"} \subseteq Places
      /\ "failed" \in Statuses /\ "failed" # "active"
  BY DEF Places, Statuses
<1>3. Running([proc EXCEPT ![p] = Run("list", proc[p].snap, @.cur, @.todo)], served)
  BY <1>1, <1>2, CallGoesOn
<1>4. Running([proc EXCEPT ![p] = Run("truncate", proc[p].snap, @.cur, @.todo)],
              served)
  BY <1>1, <1>2, CallGoesOn
<1>5. Running([proc EXCEPT ![p] =
                 Run("truncate", Marked(p, "failed"), @.cur, @.todo)], served)
  BY <1>1, <1>2, CallGoesOn
<1>6. Running(proc', served)
  BY <1>3, <1>4, <1>5 DEF Zone, CallFails, Goes
<1>7. faults' \in 0 .. MaxFaults
  BY BoundsAssumption DEF Zone, CallFails, Fault, IInv, Rest
<1>8. UNCHANGED <<file, records, last, entries, served, torn>>
  BY DEF Zone, CallFails
<1> QED
  BY <1>6, <1>7, <1>8 DEF IInv, Rest

LEMMA ListKeeps ==
    ASSUME IInv, NEW p \in Procs, List(p)
    PROVE  IInv'
<1>1. proc[p].at \in AtWork /\ served \subseteq served
  BY DEF List, AtWork
<1>2. UNCHANGED <<file, records, last, entries, served, torn, faults>>
  BY DEF List
<1>3. CASE \E r \in Matches(p) :
              /\ records[r].target = Current(p).target
              /\ Goes(p, "truncate", Marked(p, "active"))
  <2>1. PICK r \in Matches(p) :
              /\ records[r].target = Current(p).target
              /\ Goes(p, "truncate", Marked(p, "active"))
    BY <1>3
  <2>2. r \in RecordIds /\ records[r].name = Current(p).name
    BY DEF Matches
  <2>3. Current(p).name # NoName
    BY <1>1, WorkingOn DEF Has, Current
  <2>4. records[r] \in Records /\ (records[r] # NoRecord => records[r] \in served)
    BY <2>2 DEF IInv, Zoned
  <2>5. records[r] = Record(Current(p).name, Current(p).target)
    BY <2>1, <2>2, <2>4 DEF Record, Records
  <2>6. records[r] # NoRecord
    BY <2>2, <2>3 DEF NoRecord, Record
  <2>7. Record(Current(p).name, Current(p).target) \in served
    BY <2>4, <2>5, <2>6
  <2>8. "truncate" \in Places /\ "active" \in Statuses
    BY DEF Places, Statuses
  <2>9. Running([proc EXCEPT ![p] =
                   Run("truncate", Marked(p, "active"), @.cur, @.todo)], served)
    BY <1>1, <2>7, <2>8, CallGoesOn
  <2> QED
    BY <1>2, <2>1, <2>9 DEF Goes, IInv, Rest
<1>4. CASE \E r \in Matches(p) :
              proc' = [proc EXCEPT ![p] = [Run("update", @.snap, @.cur, @.todo)
                                               EXCEPT !.rec = r]]
  <2>1. PICK r \in RecordIds :
              proc' = [proc EXCEPT ![p] = [Run("update", @.snap, @.cur, @.todo)
                                               EXCEPT !.rec = r]]
    BY <1>4 DEF Matches
  <2> DEFINE run == [Run("update", proc[p].snap, proc[p].cur, proc[p].todo)
                        EXCEPT !.rec = r]
  <2>2. proc[p] \in Runs /\ Running(proc, served) /\ r \in 0 .. MaxRecords
    BY BoundsAssumption DEF IInv, Running, RecordIds
  <2>3. /\ run \in Runs
        /\ run.snap = proc[p].snap /\ run.cur = proc[p].cur
    BY <2>2 DEF Run, Runs, Places
  <2>4. Sane(run, served)
    BY <1>1, <2>3, WorkingOn DEF Sane, Steady
  <2> HIDE DEF run
  <2>5. Running([proc EXCEPT ![p] = run], served)
    BY <1>1, <2>2, <2>4, OneRuns
  <2>6. proc' = [proc EXCEPT ![p] = run]
    BY <2>1 DEF run
  <2> QED
    BY <1>2, <2>5, <2>6 DEF IInv, Rest
<1>5. CASE Goes(p, "create", proc[p].snap)
  <2>1. "create" \in Places /\ "pending" \in Statuses /\ "pending" # "active"
    BY DEF Places, Statuses
  <2>2. Running([proc EXCEPT ![p] = Run("create", proc[p].snap, @.cur, @.todo)],
                served)
    BY <1>1, <2>1, CallGoesOn
  <2> QED
    BY <1>2, <1>5, <2>2 DEF Goes, IInv, Rest
<1> QED
  BY <1>3, <1>4, <1>5 DEF List

\* A record is put into the zone, and the answer comes or not.
LEMMA PutKeeps ==
    ASSUME IInv, NEW p \in Procs, CreateRecord(p) \/ UpdateRecord(p)
    PROVE  IInv'
<1> DEFINE rec == Record(Current(p).name, Current(p).target)
           later == served \cup {rec}
<1>1. proc[p].at \in AtWork
  BY DEF CreateRecord, UpdateRecord, AtWork
<1>2. PICK r : Puts(p, r)
  BY DEF CreateRecord, UpdateRecord
<1>3. records' = [records EXCEPT ![r] = rec] /\ served' = later
  BY <1>2 DEF Puts
<1>4. rec \in Records /\ served \subseteq later /\ rec \in later
  BY <1>1, WorkingOn
<1>5. Zoned(records', served')
  BY <1>3, <1>4, ZonePut DEF IInv
<1>6. Answered(p)
  BY DEF CreateRecord, UpdateRecord
<1>7. /\ "truncate" \in Places
      /\ "failed" \in Statuses /\ "failed" # "active" /\ "active" \in Statuses
  BY DEF Places, Statuses
<1> HIDE DEF later
<1>8. Running([proc EXCEPT ![p] =
                 Run("truncate", Marked(p, "failed"), @.cur, @.todo)], later)
  BY <1>1, <1>4, <1>7, CallGoesOn
<1>9. Running([proc EXCEPT ![p] =
                 Run("truncate", Marked(p, "active"), @.cur, @.todo)], later)
  BY <1>1, <1>4, <1>7, CallGoesOn
<1>10. Running(proc', served')
  BY <1>3, <1>6, <1>8, <1>9 DEF Answered, Goes
<1>11. Filed(file', served')
  BY <1>3, <1>4, FiledLater DEF CreateRecord, UpdateRecord, IInv
<1>12. Rest'
  BY <1>6, BoundsAssumption
     DEF CreateRecord, UpdateRecord, Answered, Fault, IInv, Rest
<1> QED
  BY <1>5, <1>10, <1>11, <1>12 DEF IInv

\* A record put there by hand.
LEMMA EditKeeps ==
    ASSUME IInv, NEW r \in RecordIds, NEW n \in Names, NEW t \in Targets,
           EditZone(r, n, t)
    PROVE  IInv'
<1> DEFINE later == served \cup {Record(n, t)}
<1>1. Record(n, t) \in Records /\ served \subseteq later /\ served' = later
  BY DEF EditZone, Record, Records
<1>2. Zoned(records', served')
  <2>1. Zoned(records, served) /\ records' = [records EXCEPT ![r] = Record(n, t)]
    BY DEF EditZone, IInv
  <2>2. Zoned([records EXCEPT ![r] = Record(n, t)], served \cup {Record(n, t)})
    BY <1>1, <2>1, ZonePut
  <2> QED
    BY <1>1, <2>1, <2>2
<1> HIDE DEF later
<1>3. Running(proc, later)
  BY <1>1, HonestLater DEF IInv, Running, Sane
<1>4. Filed(file, later)
  BY <1>1, FiledLater DEF IInv
<1>5. Rest'
  BY BoundsAssumption DEF EditZone, Fault, IInv, Rest
<1> QED
  BY <1>1, <1>2, <1>3, <1>4, <1>5 DEF EditZone, IInv

LEMMA LookupKeeps ==
    ASSUME IInv, NEW p \in Procs, Lookup(p)
    PROVE  IInv'
<1> DEFINE s(v) == [proc[p].snap EXCEPT ![proc[p].cur].verification = v]
<1>1. proc[p].at \in AtWork
  BY DEF Lookup, AtWork
<1>2. /\ proc[p].snap \in Stores /\ Honest(proc[p].snap, served)
      /\ proc[p].cur \in Ids /\ Has(proc[p].snap, proc[p].cur)
  BY <1>1, WorkingOn
<1>3. ASSUME NEW v \in {"verified", "failed"}
      PROVE  s(v) \in Stores /\ Honest(s(v), served)
  BY <1>2, VerificationSet
<1>4. PICK v \in {"verified", "failed"} :
         proc' = [proc EXCEPT ![p] = Run("truncate", s(v), @.cur, @.todo)]
  BY DEF Lookup, Goes
<1>5. /\ Running(proc, served) /\ served \subseteq served
      /\ "truncate" \in Places /\ "truncate" \notin AtWork
  BY DEF IInv, Places, AtWork
<1>6. Running([proc EXCEPT ![p] = Run("truncate", s(v), @.cur, @.todo)], served)
  BY <1>3, <1>5, GoesOn
<1>7. Running(proc', served)
  BY <1>4, <1>6
<1> QED
  BY <1>7 DEF Lookup, IInv, Rest

LEMMA SaveKeeps ==
    ASSUME IInv, NEW p \in Procs,
           Truncate(p) \/ Write(p) \/ SaveFails(p) \/ Crash(p)
    PROVE  IInv'
<1>1. /\ proc[p].snap \in Stores /\ Honest(proc[p].snap, served)
      /\ proc[p].todo \in SUBSET Ids
  BY WorkingOn
<1>2. /\ Running(proc, served) /\ served \subseteq served
      /\ "write" \in Places /\ "write" \notin AtWork
  BY DEF IInv, Places, AtWork
<1>3. Running([proc EXCEPT ![p] = Run("write", proc[p].snap, @.cur, @.todo)], served)
  BY <1>1, <1>2, GoesOn
<1>4. /\ Running([proc EXCEPT ![p] = Turns(proc[p].todo)], served)
      /\ Running([proc EXCEPT ![p] = Idle], served)
  BY <1>1, TurnKeeps
<1>5. Running(proc', served)
  BY <1>3, <1>4 DEF Truncate, Write, SaveFails, Crash, Ends, Goes
<1>6. Filed(file', served)
  <2>1. Filed(Empty, served) /\ Filed(Unreadable, served) /\ Filed(file, served)
        /\ Filed(proc[p].snap, served)
    BY <1>1, EmptyIsHonest DEF Filed, IInv
  <2>2. file' \in {Empty, Unreadable, file, proc[p].snap}
    BY DEF Truncate, Write, SaveFails, Crash
  <2> QED
    BY <2>1, <2>2
<1>7. UNCHANGED <<records, served, last, entries>>
  BY DEF Truncate, Write, SaveFails, Crash
<1>8. torn' \in {"no", "yes"} /\ faults' \in 0 .. MaxFaults
  BY BoundsAssumption DEF Truncate, Write, SaveFails, Crash, Fault, IInv, Rest
<1> QED
  BY <1>5, <1>6, <1>7, <1>8 DEF IInv, Rest

LEMMA InitSound == Init => IInv
<1> SUFFICES ASSUME Init PROVE IInv
  OBVIOUS
<1>1. Filed(file, served)
  BY EmptyIsHonest DEF Init, Filed
<1>2. Running(proc, served)
  BY IdleIsSane DEF Init, Running, Sane
<1>3. Zoned(records, served)
  BY DEF Init, Zoned, NoRecord, Record, Records
<1>4. Rest
  BY BoundsAssumption DEF Init, Rest, NoRecord, Record, Records
<1> QED
  BY <1>1, <1>2, <1>3, <1>4 DEF IInv

LEMMA StepSound == IInv /\ [Next]_vars => IInv'
<1> SUFFICES ASSUME IInv, [Next]_vars PROVE IInv'
  OBVIOUS
<1>1. CASE UNCHANGED vars
  BY <1>1 DEF vars, IInv, Rest
<1>2. ASSUME NEW p \in Procs, NEW n \in Names, NEW t \in Targets, Add(p, n, t)
      PROVE  IInv'
  BY <1>2, AddKeeps
<1>3. ASSUME NEW p \in Procs, NEW k \in Keys, NEW i \in Ids, Remove(p, k, i)
      PROVE  IInv'
  BY <1>3, RemoveKeeps
<1>4. ASSUME NEW p \in Procs,
             \/ \E k \in Keys, i \in Ids : ApplyDNS(p, k, i) \/ VerifyDNS(p, k, i)
             \/ ApplyAll(p)
             \/ ApplyNext(p)
      PROVE  IInv'
  BY <1>4, FindKeeps
<1>5. ASSUME NEW p \in Procs, Zone(p) \/ CallFails(p) PROVE IInv'
  BY <1>5, AsksKeep
<1>6. ASSUME NEW p \in Procs, List(p) PROVE IInv'
  BY <1>6, ListKeeps
<1>7. ASSUME NEW p \in Procs, CreateRecord(p) \/ UpdateRecord(p) PROVE IInv'
  BY <1>7, PutKeeps
<1>8. ASSUME NEW p \in Procs, Lookup(p) PROVE IInv'
  BY <1>8, LookupKeeps
<1>9. ASSUME NEW p \in Procs, Truncate(p) \/ Write(p) \/ SaveFails(p) \/ Crash(p)
      PROVE  IInv'
  BY <1>9, SaveKeeps
<1>10. ASSUME NEW r \in RecordIds, NEW n \in Names, NEW t \in Targets,
              EditZone(r, n, t)
       PROVE  IInv'
  BY <1>10, EditKeeps
<1> QED
  BY <1>1, <1>2, <1>3, <1>4, <1>5, <1>6, <1>7, <1>8, <1>9, <1>10 DEF Next

THEOREM Invariance == Spec => []IInv
BY InitSound, StepSound, PTL DEF Spec

\* The variables of the pool keep their types, whatever the constants are.
THEOREM TypeCorrect == Spec => []TypeOK
<1>1. IInv => TypeOK
  BY DEF IInv, Rest, Zoned, Filed, Running, TypeOK
<1> QED
  BY <1>1, Invariance, PTL

\* An entry the file calls active has had its record at Cloudflare: however
\* many processes load, change and write the file over one another.
THEOREM ActiveServed == Spec => []ActiveWasServed
<1>1. IInv => ActiveWasServed
  BY DEF IInv, Filed, Honest, ActiveWasServed, WasServed
<1> QED
  BY <1>1, Invariance, PTL

------------------------------------------------------------------------------
(***************************************************************************)
(* Without the apply commands each store there is has one live entry of a  *)
(* name: Add looks before it appends, and the whole store is written.      *)
(***************************************************************************)
Modest(run) ==
    /\ run.snap \in Stores /\ OneLive(run.snap)
    /\ run.at \in {"idle", "lookup", "truncate", "write"} /\ run.todo = {}

OneLiveEverywhere ==
    /\ file # Unreadable => OneLive(file)
    /\ \A p \in Procs : Modest(proc[p])

LEMMA IdleIsModest == Modest(Idle)
<1>1. OneLive(Empty)
  BY NothingAssumption DEF Empty, NoEntry, OneLive, Live, Has
<1> QED
  BY <1>1, EmptyIsHonest DEF Modest, Idle, Run

\* A change of one entry that leaves its name and makes no disabled one live.
LEMMA OneLiveKept ==
    ASSUME NEW s \in Stores, OneLive(s), NEW i \in Ids, NEW e \in Entries,
           e.name = s[i].name,
           s[i].status = "disabled" => e.status = "disabled"
    PROVE  [s EXCEPT ![i] = e] \in Stores /\ OneLive([s EXCEPT ![i] = e])
<1>1. ASSUME NEW j \in Ids
      PROVE  [s EXCEPT ![i] = e][j] = IF j = i THEN e ELSE s[j]
  BY DEF Stores
<1> QED
  BY <1>1 DEF OneLive, Live, Has, Stores

\* Add appends an entry of a name no live entry has.
LEMMA OneLiveAdded ==
    ASSUME NEW s \in Stores, OneLive(s), NEW i \in Ids, NEW n \in Names,
           NEW t \in Targets, ~IsListed(s, n)
    PROVE  /\ [s EXCEPT ![i] = NewEntry(n, t)] \in Stores
           /\ OneLive([s EXCEPT ![i] = NewEntry(n, t)])
<1>1. NewEntry(n, t) \in Entries /\ NewEntry(n, t).name = n
  BY DEF NewEntry, Entries, Statuses
<1>2. ASSUME NEW j \in Ids
      PROVE  [s EXCEPT ![i] = NewEntry(n, t)][j]
                = IF j = i THEN NewEntry(n, t) ELSE s[j]
  BY DEF Stores
<1> QED
  BY <1>1, <1>2 DEF OneLive, Live, Has, IsListed, Stores

LEMMA ModestRuns ==
    ASSUME NEW runs, runs \in [Procs -> Runs], \A q \in Procs : Modest(runs[q]),
           NEW p \in Procs, NEW run, Modest(run)
    PROVE  \A q \in Procs : Modest([runs EXCEPT ![p] = run][q])
OBVIOUS

\* A command other than apply-dns and apply-all.
LEMMA OneLiveStep ==
    ASSUME Commands \cap {"apply-dns", "apply-all"} = {},
           IInv, OneLiveEverywhere, [Next]_vars
    PROVE  OneLiveEverywhere'
<1>1. CASE UNCHANGED vars
  BY <1>1 DEF vars, OneLiveEverywhere
<1>2. CASE \E r \in RecordIds, n \in Names, t \in Targets : EditZone(r, n, t)
  BY <1>2 DEF EditZone, OneLiveEverywhere
<1>3. CASE \E p \in Procs :
            \/ \E n \in Names, t \in Targets : Add(p, n, t)
            \/ \E k \in Keys, i \in Ids :
                  Remove(p, k, i) \/ ApplyDNS(p, k, i) \/ VerifyDNS(p, k, i)
            \/ ApplyAll(p) \/ ApplyNext(p)
            \/ Zone(p) \/ List(p) \/ CreateRecord(p) \/ UpdateRecord(p)
            \/ CallFails(p)
            \/ Lookup(p)
            \/ Truncate(p) \/ Write(p) \/ SaveFails(p) \/ Crash(p)
  <2>1. PICK p \in Procs :
            \/ \E n \in Names, t \in Targets : Add(p, n, t)
            \/ \E k \in Keys, i \in Ids :
                  Remove(p, k, i) \/ ApplyDNS(p, k, i) \/ VerifyDNS(p, k, i)
            \/ ApplyAll(p) \/ ApplyNext(p)
            \/ Zone(p) \/ List(p) \/ CreateRecord(p) \/ UpdateRecord(p)
            \/ CallFails(p)
            \/ Lookup(p)
            \/ Truncate(p) \/ Write(p) \/ SaveFails(p) \/ Crash(p)
    BY <1>3
  <2>2. /\ proc \in [Procs -> Runs] /\ proc[p] \in Runs
        /\ \A q \in Procs : Modest(proc[q])
        /\ Modest(proc[p])
    BY DEF IInv, Running, OneLiveEverywhere
  <2>3. \A run : Modest(run) =>
           \A q \in Procs : Modest([proc EXCEPT ![p] = run][q])
    BY <2>2, ModestRuns
  <2>4. file # Unreadable => file \in Stores /\ OneLive(file)
    BY DEF IInv, Filed, OneLiveEverywhere
  <2>5. ASSUME NEW n \in Names, NEW t \in Targets, Add(p, n, t)
        PROVE  OneLiveEverywhere'
    <3> DEFINE s == [file EXCEPT ![last + 1] = NewEntry(n, t)]
               run == Run("truncate", s, proc[p].cur, proc[p].todo)
    <3>1. last + 1 \in Ids
      BY <2>5, BoundsAssumption DEF Add, IInv, Rest, Ids
    <3>2. s \in Stores /\ OneLive(s)
      BY <2>4, <2>5, <3>1, OneLiveAdded DEF Add, Starts
    <3>3. Modest(run)
      BY <2>2, <3>2 DEF Modest, Run
    <3>4. proc' = [proc EXCEPT ![p] = run]
      BY <2>5 DEF Add, Goes
    <3> HIDE DEF run
    <3> QED
      BY <2>3, <2>4, <2>5, <3>3, <3>4 DEF Add, OneLiveEverywhere
  <2>6. ASSUME NEW k \in Keys, NEW i \in Ids, Remove(p, k, i)
        PROVE  OneLiveEverywhere'
    <3> DEFINE e == [file[i] EXCEPT !.status = "disabled"]
               s == [file EXCEPT ![i] = e]
               run == Run("truncate", s, proc[p].cur, proc[p].todo)
    <3>1. file \in Stores /\ OneLive(file) /\ file[i] \in Entries
      BY <2>4, <2>6 DEF Remove, Starts, Stores
    <3>2. e \in Entries /\ e.name = file[i].name /\ e.status = "disabled"
      BY <3>1 DEF Entries, Statuses
    <3>3. s \in Stores /\ OneLive(s)
      <4> HIDE DEF e
      <4> QED
        BY <3>1, <3>2, OneLiveKept
    <3>4. Modest(run)
      BY <2>2, <3>3 DEF Modest, Run
    <3>5. proc' = [proc EXCEPT ![p] = run]
      BY <2>6 DEF Remove, Goes
    <3> HIDE DEF run
    <3> QED
      BY <2>3, <2>4, <2>6, <3>4, <3>5 DEF Remove, OneLiveEverywhere
  <2>7. ASSUME NEW k \in Keys, NEW i \in Ids, VerifyDNS(p, k, i)
        PROVE  OneLiveEverywhere'
    <3>1. Modest(Run("lookup", file, i, {}))
      BY <2>4, <2>7 DEF VerifyDNS, Starts, Modest, Run
    <3> QED
      BY <2>3, <2>4, <2>7, <3>1 DEF VerifyDNS, OneLiveEverywhere
  <2>8. CASE Lookup(p)
    <3> DEFINE e(v) == [proc[p].snap[proc[p].cur] EXCEPT !.verification = v]
               s(v) == [proc[p].snap EXCEPT ![proc[p].cur] = e(v)]
               run(v) == Run("truncate", s(v), proc[p].cur, proc[p].todo)
    <3>1. proc[p].snap \in Stores /\ OneLive(proc[p].snap) /\ proc[p].cur \in Ids
          /\ proc[p].snap[proc[p].cur] \in Entries /\ proc[p].todo = {}
      BY <2>2, <2>8, WorkingOn DEF Modest, Lookup, AtWork, Current
    <3>2. ASSUME NEW v \in {"verified", "failed"}
          PROVE  Modest(run(v))
      <4>1. e(v) \in Entries /\ e(v).name = proc[p].snap[proc[p].cur].name
            /\ e(v).status = proc[p].snap[proc[p].cur].status
        BY <3>1 DEF Entries
      <4>2. s(v) \in Stores /\ OneLive(s(v))
        <5> HIDE DEF e
        <5> QED
          BY <3>1, <4>1, OneLiveKept
      <4> QED
        BY <3>1, <4>2 DEF Modest, Run
    <3>3. \E v \in {"verified", "failed"} : proc' = [proc EXCEPT ![p] = run(v)]
      BY <2>8 DEF Lookup, Goes
    <3> HIDE DEF run
    <3> QED
      BY <2>3, <2>4, <2>8, <3>2, <3>3 DEF Lookup, OneLiveEverywhere
  <2>9. CASE Truncate(p) \/ Write(p) \/ SaveFails(p) \/ Crash(p)
    <3>1. Modest(Idle) /\ Turns(proc[p].todo) = Idle
      BY <2>2, IdleIsModest DEF Modest, Turns
    <3>2. Modest(Run("write", proc[p].snap, proc[p].cur, proc[p].todo))
      BY <2>2 DEF Modest, Run
    <3>3. proc' \in {[proc EXCEPT ![p] = Idle],
                    [proc EXCEPT ![p] =
                       Run("write", proc[p].snap, proc[p].cur, proc[p].todo)]}
      BY <2>9, <3>1 DEF Truncate, Write, SaveFails, Crash, Ends, Goes
    <3>4. \A q \in Procs : Modest(proc'[q])
      BY <2>3, <3>1, <3>2, <3>3
    <3>5. file' \in {Empty, Unreadable, file, proc[p].snap}
      BY <2>9 DEF Truncate, Write, SaveFails, Crash
    <3>6. OneLive(Empty) /\ OneLive(proc[p].snap)
      BY <2>2, <3>1 DEF Modest, Idle, Run
    <3> QED
      BY <3>4, <3>5, <3>6 DEF OneLiveEverywhere
  <2>10. ~ApplyAll(p) /\ \A k \in Keys, i \in Ids : ~ApplyDNS(p, k, i)
    BY DEF ApplyAll, ApplyDNS, Starts
  <2>11. /\ ~ApplyNext(p) /\ ~Zone(p) /\ ~List(p) /\ ~CreateRecord(p)
         /\ ~UpdateRecord(p) /\ ~CallFails(p)
    BY <2>2
       DEF Modest, ApplyNext, Zone, List, CreateRecord, UpdateRecord, CallFails
  <2> QED
    BY <2>1, <2>5, <2>6, <2>7, <2>8, <2>9, <2>10, <2>11
<1> QED
  BY <1>1, <1>2, <1>3 DEF Next

\* With the commands add, remove and verify-dns alone, in any number of
\* processes, the file has one live entry of a name.
THEOREM OneLiveWithoutApply ==
    ASSUME Commands \cap {"apply-dns", "apply-all"} = {}
    PROVE  Spec => []OneLivePerName
<1>1. Init => OneLiveEverywhere
  BY IdleIsModest DEF Init, OneLiveEverywhere, Modest, Idle, Run
<1>2. IInv /\ OneLiveEverywhere /\ [Next]_vars => OneLiveEverywhere'
  BY OneLiveStep
<1>3. OneLiveEverywhere => OneLivePerName
  BY DEF OneLiveEverywhere, OneLivePerName
<1> QED
  BY <1>1, <1>2, <1>3, Invariance, PTL DEF Spec

------------------------------------------------------------------------------
(***************************************************************************)
(* With every command: entries are numbered in the order of the file, and  *)
(* an entry that a later one of its name follows is not pending, because   *)
(* Add found it disabled and nothing makes an entry pending again.  It is  *)
(* so of every store there is.                                             *)
(***************************************************************************)
Orderly(s, n) ==
    /\ \A i \in Ids : Has(s, i) => i <= n
    /\ \A i, j \in Ids :
          i < j /\ Has(s, i) /\ Has(s, j) /\ s[i].name = s[j].name
             => s[i].status # "pending"

OrderlyEverywhere ==
    /\ file # Unreadable => Orderly(file, last)
    /\ \A p \in Procs : Orderly(proc[p].snap, last)

LEMMA EmptyIsOrderly == ASSUME NEW n PROVE Orderly(Empty, n)
BY DEF Empty, NoEntry, Orderly, Has

LEMMA IdleIsOrderly ==
    ASSUME NEW n, NEW todo
    PROVE  Orderly(Idle.snap, n) /\ Orderly(Turns(todo).snap, n)
<1>1. Idle.snap = Empty /\ Turns(todo).snap = Empty
  BY DEF Idle, Turns, Run
<1> QED
  BY <1>1, EmptyIsOrderly

\* A change of one entry that leaves its name and makes none pending.
LEMMA OrderlyKept ==
    ASSUME NEW s \in Stores, NEW n, Orderly(s, n), NEW i \in Ids,
           NEW e \in Entries, e.name = s[i].name,
           e.status = "pending" => s[i].status = "pending"
    PROVE  Orderly([s EXCEPT ![i] = e], n)
<1>1. ASSUME NEW j \in Ids
      PROVE  [s EXCEPT ![i] = e][j] = IF j = i THEN e ELSE s[j]
  BY DEF Stores
<1> QED
  BY <1>1 DEF Orderly, Has

\* Add appends an entry of a name that only disabled entries have.
LEMMA OrderlyAdded ==
    ASSUME NEW s \in Stores, NEW n \in Nat, Orderly(s, n), n + 1 \in Ids,
           NEW d \in Names, NEW t \in Targets, ~IsListed(s, d)
    PROVE  Orderly([s EXCEPT ![n + 1] = NewEntry(d, t)], n + 1)
<1> DEFINE a == [s EXCEPT ![n + 1] = NewEntry(d, t)]
<1>1. NewEntry(d, t).name = d
  BY DEF NewEntry
<1>2. ASSUME NEW j \in Ids
      PROVE  a[j] = IF j = n + 1 THEN NewEntry(d, t) ELSE s[j]
  BY DEF Stores
<1>3. \A j \in Ids : j \in Nat
  BY DEF Ids
<1>4. ASSUME NEW j \in Ids, Has(a, j) PROVE j <= n + 1
  BY <1>2, <1>3, <1>4 DEF Orderly, Has
<1>5. ASSUME NEW i \in Ids, NEW j \in Ids, i < j, Has(a, i), Has(a, j),
             a[i].name = a[j].name
      PROVE  a[i].status # "pending"
  <2>1. i # n + 1
    BY <1>3, <1>4, <1>5
  <2>2. Has(s, i) /\ a[i] = s[i]
    BY <1>2, <1>5, <2>1 DEF Has
  <2>3. CASE j = n + 1
    <3>1. s[i].name = d
      BY <1>1, <1>2, <1>5, <2>2, <2>3
    <3>2. s[i].status = "disabled"
      BY <2>2, <3>1 DEF IsListed, Live
    <3> QED
      BY <2>2, <3>2
  <2>4. CASE j # n + 1
    BY <1>2, <1>5, <2>2, <2>4 DEF Orderly, Has
  <2> QED
    BY <2>3, <2>4
<1> HIDE DEF a
<1>6. Orderly(a, n + 1)
  BY <1>4, <1>5 DEF Orderly
<1> QED
  BY <1>6 DEF a

\* Numbers only grow.
LEMMA OrderlyLater ==
    ASSUME NEW s, NEW n \in Nat, Orderly(s, n)
    PROVE  Orderly(s, n + 1)
<1>1. \A i \in Ids : i \in Nat
  BY DEF Ids
<1> QED
  BY <1>1 DEF Orderly

\* Stores with one entry changed by a process at work on it.
LEMMA WorkIsOrderly ==
    ASSUME IInv, OrderlyEverywhere, NEW p \in Procs, proc[p].at \in AtWork
    PROVE  /\ \A status \in {"active", "failed"} : Orderly(Marked(p, status), last)
           /\ \A v \in {"verified", "failed"} :
                Orderly([proc[p].snap EXCEPT ![proc[p].cur].verification = v], last)
<1>1. /\ proc[p].snap \in Stores /\ proc[p].cur \in Ids
      /\ proc[p].snap[proc[p].cur] \in Entries
      /\ Orderly(proc[p].snap, last)
  BY WorkingOn DEF OrderlyEverywhere, Current
<1>2. ASSUME NEW status \in {"active", "failed"}
      PROVE  Orderly(Marked(p, status), last)
  <2> DEFINE e == [proc[p].snap[proc[p].cur] EXCEPT !.status = status]
  <2>1. e \in Entries /\ e.name = proc[p].snap[proc[p].cur].name
        /\ e.status = status
    BY <1>1 DEF Entries, Statuses
  <2>2. Marked(p, status) = [proc[p].snap EXCEPT ![proc[p].cur] = e]
    BY DEF Marked
  <2> HIDE DEF e
  <2> QED
    BY <1>1, <2>1, <2>2, OrderlyKept
<1>3. ASSUME NEW v \in {"verified", "failed"}
      PROVE  Orderly([proc[p].snap EXCEPT ![proc[p].cur].verification = v], last)
  <2> DEFINE e == [proc[p].snap[proc[p].cur] EXCEPT !.verification = v]
  <2>1. e \in Entries /\ e.name = proc[p].snap[proc[p].cur].name
        /\ e.status = proc[p].snap[proc[p].cur].status
    BY <1>1 DEF Entries
  <2>2. [proc[p].snap EXCEPT ![proc[p].cur].verification = v]
           = [proc[p].snap EXCEPT ![proc[p].cur] = e]
    OBVIOUS
  <2> HIDE DEF e
  <2> QED
    BY <1>1, <2>1, <2>2, OrderlyKept
<1> QED
  BY <1>2, <1>3

\* Process p takes a step to a run whose store is orderly.
Steps(p) == \E run : Orderly(run.snap, last) /\ proc' = [proc EXCEPT ![p] = run]

LEMMA GoesOrderly ==
    ASSUME NEW p \in Procs, NEW place, NEW s, Orderly(s, last), Goes(p, place, s)
    PROVE  Steps(p)
<1>1. Run(place, s, proc[p].cur, proc[p].todo).snap = s
  BY DEF Run
<1>2. proc' = [proc EXCEPT ![p] = Run(place, s, proc[p].cur, proc[p].todo)]
  BY DEF Goes
<1> QED
  BY <1>1, <1>2 DEF Steps

\* The commands that load the file.
LEMMA LoadsOrderly ==
    ASSUME IInv, OrderlyEverywhere, NEW p \in Procs,
           \/ \E k \in Keys, i \in Ids :
                 Remove(p, k, i) \/ ApplyDNS(p, k, i) \/ VerifyDNS(p, k, i)
           \/ ApplyAll(p) \/ ApplyNext(p)
    PROVE  Steps(p)
<1>1. file # Unreadable => file \in Stores /\ Orderly(file, last)
  BY DEF IInv, Filed, OrderlyEverywhere
<1>2. ASSUME NEW place, NEW i, NEW todo
      PROVE  Run(place, file, i, todo).snap = file
  BY DEF Run
<1>3. ASSUME NEW k \in Keys, NEW i \in Ids, Remove(p, k, i) PROVE Steps(p)
  <2> DEFINE e == [file[i] EXCEPT !.status = "disabled"]
  <2>1. file \in Stores /\ Orderly(file, last) /\ file[i] \in Entries
    BY <1>1, <1>3 DEF Remove, Starts, Stores
  <2>2. e \in Entries /\ e.name = file[i].name /\ e.status = "disabled"
    BY <2>1 DEF Entries, Statuses
  <2>3. Goes(p, "truncate", [file EXCEPT ![i] = e])
    BY <1>3 DEF Remove
  <2> HIDE DEF e
  <2>4. Orderly([file EXCEPT ![i] = e], last)
    BY <2>1, <2>2, OrderlyKept
  <2> QED
    BY <2>3, <2>4, GoesOrderly
<1>4. ASSUME NEW k \in Keys, NEW i \in Ids, ApplyDNS(p, k, i) \/ VerifyDNS(p, k, i)
      PROVE  Steps(p)
  <2>1. Orderly(file, last)
    BY <1>1, <1>4 DEF ApplyDNS, VerifyDNS, Starts
  <2>2. PICK place : proc' = [proc EXCEPT ![p] = Run(place, file, i, {})]
    BY <1>4 DEF ApplyDNS, VerifyDNS
  <2> DEFINE run == Run(place, file, i, {})
  <2>3. run.snap = file
    BY <1>2
  <2>4. proc' = [proc EXCEPT ![p] = run]
    BY <2>2
  <2> HIDE DEF run
  <2> QED
    BY <2>1, <2>3, <2>4 DEF Steps
<1>5. CASE ApplyAll(p)
  BY <1>5, IdleIsOrderly DEF ApplyAll, Steps
<1>6. CASE ApplyNext(p)
  <2>1. PICK i \in proc[p].todo :
           \/ \E k \in Found(file, entries[i].name) :
                proc' = [proc EXCEPT ![p] =
                            Run("zone", file, k, proc[p].todo \ {i})]
           \/ proc' = [proc EXCEPT ![p] = Turns(proc[p].todo \ {i})]
    BY <1>6 DEF ApplyNext
  <2>2. CASE proc' = [proc EXCEPT ![p] = Turns(proc[p].todo \ {i})]
    BY <2>2, IdleIsOrderly DEF Steps
  <2>3. ASSUME NEW k \in Found(file, entries[i].name),
               proc' = [proc EXCEPT ![p] =
                           Run("zone", file, k, proc[p].todo \ {i})]
        PROVE  Steps(p)
    <3>1. Orderly(file, last)
      BY <1>1 DEF Found
    <3> QED
      BY <1>2, <2>3, <3>1 DEF Steps
  <2> QED
    BY <2>1, <2>2, <2>3
<1> QED
  BY <1>3, <1>4, <1>5, <1>6

\* The calls, and the save.
LEMMA WorksOrderly ==
    ASSUME IInv, OrderlyEverywhere, NEW p \in Procs,
           \/ Zone(p) \/ List(p) \/ CreateRecord(p) \/ UpdateRecord(p)
           \/ CallFails(p) \/ Lookup(p)
           \/ Truncate(p) \/ Write(p) \/ SaveFails(p) \/ Crash(p)
    PROVE  Steps(p)
<1>1. Orderly(proc[p].snap, last)
  BY DEF OrderlyEverywhere
<1>2. CASE Zone(p)
  BY <1>1, <1>2, GoesOrderly DEF Zone
<1>3. CASE List(p)
  <2>1. Orderly(Marked(p, "active"), last)
    BY <1>3, WorkIsOrderly DEF List, AtWork
  <2>2. CASE Goes(p, "truncate", Marked(p, "active"))
    BY <2>1, <2>2, GoesOrderly
  <2>3. CASE Goes(p, "create", proc[p].snap)
    BY <1>1, <2>3, GoesOrderly
  <2>4. ASSUME NEW r \in Matches(p),
               proc' = [proc EXCEPT ![p] = [Run("update", @.snap, @.cur, @.todo)
                                               EXCEPT !.rec = r]]
        PROVE  Steps(p)
    <3> DEFINE run == [Run("update", proc[p].snap, proc[p].cur, proc[p].todo)
                          EXCEPT !.rec = r]
    <3>1. run.snap = proc[p].snap
      BY DEF Run
    <3>2. proc' = [proc EXCEPT ![p] = run]
      BY <2>4
    <3> HIDE DEF run
    <3> QED
      BY <1>1, <3>1, <3>2 DEF Steps
  <2> QED
    BY <1>3, <2>2, <2>3, <2>4 DEF List
<1>4. CASE CallFails(p)
  <2>1. Orderly(Marked(p, "failed"), last)
    BY <1>4, WorkIsOrderly DEF CallFails, AtWork
  <2> QED
    BY <1>1, <1>4, <2>1, GoesOrderly DEF CallFails
<1>5. CASE CreateRecord(p) \/ UpdateRecord(p)
  <2>1. Orderly(Marked(p, "active"), last) /\ Orderly(Marked(p, "failed"), last)
    BY <1>5, WorkIsOrderly DEF CreateRecord, UpdateRecord, AtWork
  <2>2. \/ Goes(p, "truncate", Marked(p, "active"))
        \/ Goes(p, "truncate", Marked(p, "failed"))
    BY <1>5 DEF CreateRecord, UpdateRecord, Answered
  <2> QED
    BY <2>1, <2>2, GoesOrderly
<1>6. CASE Lookup(p)
  <2> DEFINE s(v) == [proc[p].snap EXCEPT ![proc[p].cur].verification = v]
  <2>1. Orderly(s("verified"), last) /\ Orderly(s("failed"), last)
    BY <1>6, WorkIsOrderly DEF Lookup, AtWork
  <2>2. Goes(p, "truncate", s("verified")) \/ Goes(p, "truncate", s("failed"))
    BY <1>6 DEF Lookup
  <2> HIDE DEF s
  <2> QED
    BY <2>1, <2>2, GoesOrderly
<1>7. CASE Truncate(p)
  BY <1>1, <1>7, GoesOrderly DEF Truncate
<1>8. CASE Write(p) \/ SaveFails(p) \/ Crash(p)
  <2>1. \/ proc' = [proc EXCEPT ![p] = Turns(proc[p].todo)]
        \/ proc' = [proc EXCEPT ![p] = Idle]
    BY <1>8 DEF Write, SaveFails, Crash, Ends
  <2> QED
    BY <2>1, IdleIsOrderly DEF Steps
<1> QED
  BY <1>2, <1>3, <1>4, <1>5, <1>6, <1>7, <1>8

LEMMA OrderlyStep == IInv /\ OrderlyEverywhere /\ [Next]_vars => OrderlyEverywhere'
<1> SUFFICES ASSUME IInv, OrderlyEverywhere, [Next]_vars
             PROVE  OrderlyEverywhere'
  OBVIOUS
<1>1. proc \in [Procs -> Runs] /\ last \in Nat
  BY BoundsAssumption DEF IInv, Running, Rest
<1>2. CASE UNCHANGED vars
  BY <1>2 DEF vars, OrderlyEverywhere
<1>3. ASSUME NEW r \in RecordIds, NEW n \in Names, NEW t \in Targets,
             EditZone(r, n, t)
      PROVE  OrderlyEverywhere'
  BY <1>3 DEF EditZone, OrderlyEverywhere
<1>4. ASSUME NEW p \in Procs, NEW n \in Names, NEW t \in Targets, Add(p, n, t)
      PROVE  OrderlyEverywhere'
  <2> DEFINE s == [file EXCEPT ![last + 1] = NewEntry(n, t)]
             run == Run("truncate", s, proc[p].cur, proc[p].todo)
  <2>1. last + 1 \in Ids
    BY <1>4, BoundsAssumption DEF Add, IInv, Rest, Ids
  <2>2. file \in Stores /\ Orderly(file, last) /\ ~IsListed(file, n)
    BY <1>4 DEF Add, Starts, IInv, Filed, OrderlyEverywhere
  <2>3. Orderly(run.snap, last + 1)
    BY <1>1, <2>1, <2>2, OrderlyAdded DEF Run
  <2>4. proc' = [proc EXCEPT ![p] = run] /\ file' = file /\ last' = last + 1
    BY <1>4 DEF Add, Goes
  <2> HIDE DEF run
  <2>5. \A q \in Procs : Orderly(proc'[q].snap, last + 1)
    BY <1>1, <2>3, <2>4, OrderlyLater DEF OrderlyEverywhere
  <2>6. Orderly(file, last + 1)
    BY <1>1, <2>2, OrderlyLater
  <2> QED
    BY <2>4, <2>5, <2>6 DEF OrderlyEverywhere
<1>5. ASSUME NEW p \in Procs,
             \/ \E k \in Keys, i \in Ids :
                   Remove(p, k, i) \/ ApplyDNS(p, k, i) \/ VerifyDNS(p, k, i)
             \/ ApplyAll(p) \/ ApplyNext(p)
             \/ Zone(p) \/ List(p) \/ CreateRecord(p) \/ UpdateRecord(p)
             \/ CallFails(p) \/ Lookup(p)
             \/ Truncate(p) \/ Write(p) \/ SaveFails(p) \/ Crash(p)
      PROVE  OrderlyEverywhere'
  <2>1. Steps(p)
    BY <1>5, LoadsOrderly, WorksOrderly
  <2>2. last' = last /\ file' \in {Empty, Unreadable, file, proc[p].snap}
    BY <1>5 DEF Remove, ApplyDNS, VerifyDNS, ApplyAll, ApplyNext, Zone, List,
       CreateRecord, UpdateRecord, CallFails, Lookup, Truncate, Write, SaveFails,
       Crash
  <2>3. \A q \in Procs : Orderly(proc'[q].snap, last)
    BY <1>1, <2>1 DEF Steps, OrderlyEverywhere
  <2> QED
    BY <2>2, <2>3, EmptyIsOrderly DEF OrderlyEverywhere
<1> QED
  BY <1>2, <1>3, <1>4, <1>5 DEF Next

\* Two live entries of a name are never due to two adds at a time or to one
\* change written over another: the earlier one was disabled when the later one
\* was added, and a command has applied it since.
THEOREM TwinsApplied == Spec => []TwinsAreApplied
<1>1. Init => OrderlyEverywhere
  BY IdleIsOrderly, EmptyIsOrderly DEF Init, OrderlyEverywhere
<1>2. IInv /\ OrderlyEverywhere => TwinsAreApplied
  <2> SUFFICES ASSUME IInv, OrderlyEverywhere, file # Unreadable,
                      NEW i \in Ids, NEW j \in Ids, i < j,
                      Live(file, i), Live(file, j), file[i].name = file[j].name
               PROVE  file[i].status \in {"active", "failed"}
    BY DEF TwinsAreApplied
  <2>1. file[i].status \in Statuses
    BY DEF IInv, Filed, Stores, Entries
  <2>2. file[i].status # "pending" /\ file[i].status # "disabled"
    BY DEF OrderlyEverywhere, Orderly, Live
  <2> QED
    BY <2>1, <2>2 DEF Statuses
<1> QED
  BY <1>1, <1>2, OrderlyStep, Invariance, PTL DEF Spec

==============================================================================
