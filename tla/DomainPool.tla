------------------------------- MODULE DomainPool -------------------------------
(***************************************************************************)
(* The local domain pool of the CLI                                        *)
(* (src/internal/stackforge/domainpool/domainpool.go): the entries of      *)
(* domain-pool.yaml and the DNS records that ApplyDNS makes of them at     *)
(* Cloudflare (src/internal/controlplane/dns/cloudflare/client.go).        *)
(*                                                                         *)
(* Every command loads the file, works on what it loaded, perhaps calls    *)
(* Cloudflare or a resolver, and writes the whole file back.  There is no  *)
(* lock, and os.WriteFile truncates the file before it writes it; so       *)
(* commands of several processes interleave between load, calls,           *)
(* truncation and write.                                                   *)
(*                                                                         *)
(* Entries are numbered in the order in which Add makes them.  The file    *)
(* lists them in that order, since Add appends, and the first entry of a   *)
(* name is the one with the least number.                                  *)
(***************************************************************************)
EXTENDS Naturals

CONSTANTS
    Procs,      \* the processes in which commands run
    Names,      \* domain names, normalised
    Targets,    \* the values DNS records may have
    NoName,     \* no domain name
    NoTarget,   \* no value
    Unreadable, \* a file that is no YAML: Load returns an error
    Keys,       \* what commands are given for an entry: its name or its ID
    Commands,   \* the commands the operators use
    ByHand,     \* is the zone also edited by hand?
    MaxEntries, \* bound: entries added
    MaxRecords, \* bound: records a zone holds
    MaxFaults   \* bound: failed calls, full disks, dying processes, edits

AllCommands == {"add", "remove", "apply-dns", "apply-all", "verify-dns"}

ASSUME NothingAssumption == NoName \notin Names /\ NoTarget \notin Targets
ASSUME CommandsAssumption == Commands \subseteq AllCommands /\ ByHand \in BOOLEAN
ASSUME BoundsAssumption ==
    MaxEntries \in Nat /\ MaxRecords \in Nat /\ MaxFaults \in Nat

Ids == 1 .. MaxEntries
RecordIds == 1 .. MaxRecords

ASSUME KeysAssumption == Keys \subseteq Names \cup Ids

VARIABLES
    file,    \* domain-pool.yaml: a store, or Unreadable
    proc,    \* the command each process runs
    records, \* the records at Cloudflare
    last,    \* number of the entry added last
    entries, \* history: the name and the target each entry was added with
    served,  \* history: the pairs of name and target the zone has held
    torn,    \* history: "yes" if a save was cut off and left no entries
    faults   \* spent of MaxFaults

vars == <<file, proc, records, last, entries, served, torn, faults>>

------------------------------------------------------------------------------
(* Entries and stores.                                                     *)

Statuses == {"pending", "active", "failed", "disabled"}

Entries ==
    [name : Names \cup {NoName}, target : Targets \cup {NoTarget},
     status : Statuses, verification : {"pending", "verified", "failed"}]

\* No entry of that number in a store.
NoEntry == [name |-> NoName, target |-> NoTarget, status |-> "pending",
            verification |-> "pending"]

Stores == [Ids -> Entries]

\* A missing or an empty file.
Empty == [i \in Ids |-> NoEntry]

ASSUME UnreadableAssumption == Unreadable \notin Stores

Has(s, i)  == s[i].name # NoName
Live(s, i) == Has(s, i) /\ s[i].status # "disabled"

Named(s, i, k) == Has(s, i) /\ (s[i].name = k \/ i = k)

\* Find: entry i is the first that has the name or the ID k.
Finds(s, k, i) ==
    /\ Named(s, i, k)
    /\ \A j \in Ids : j < i => ~Named(s, j, k)

\* The entry Find finds, none in a file it cannot read.
Found(s, k) == {i \in Ids : s # Unreadable /\ Finds(s, k, i)}

\* Mutant: an entry that is not active yet does not count.
IsListedActive(s, n) == \E i \in Ids : s[i].name = n /\ s[i].status = "active"

\* The duplicate check of Add.
IsListed(s, n) == \E i \in Ids : s[i].name = n /\ Live(s, i)

\* What Add appends.
NewEntry(n, t) ==
    [name |-> n, target |-> t, status |-> "pending", verification |-> "pending"]

Record(n, t) == [name |-> n, target |-> t]
NoRecord == Record(NoName, NoTarget)
Records == [name : Names \cup {NoName}, target : Targets \cup {NoTarget}]

\* What a process runs: at is its place, snap the store it loaded and changed,
\* cur the entry it works on, rec the record it found, todo the entries that
\* apply-all has still to turn to.
Run(place, s, i, todo) ==
    [at |-> place, snap |-> s, cur |-> i, rec |-> 0, todo |-> todo]

Idle == Run("idle", Empty, 0, {})

Places == {"idle", "find", "zone", "list", "create", "update", "lookup",
           "truncate", "write"}

Runs == [at : Places, snap : Stores, cur : 0 .. MaxEntries,
         rec : 0 .. MaxRecords, todo : SUBSET Ids]

\* Process p goes on with store s.
Goes(p, place, s) ==
    proc' = [proc EXCEPT ![p] = Run(place, s, @.cur, @.todo)]

\* apply-all turns to the next entry of a list, or ends.
Turns(todo) ==
    IF todo = {} THEN Idle ELSE Run("find", Empty, 0, todo)

\* A command, or one entry's part of apply-all, is over.
Ends(p) == proc' = [proc EXCEPT ![p] = Turns(proc[p].todo)]

Fault == faults < MaxFaults /\ faults' = faults + 1

------------------------------------------------------------------------------
Init ==
    /\ file = Empty
    /\ proc = [p \in Procs |-> Idle]
    /\ records = [r \in RecordIds |-> NoRecord]
    /\ last = 0
    /\ entries = [i \in Ids |-> NoRecord]
    /\ served = {}
    /\ torn = "no"
    /\ faults = 0

\* A command begins with a load of the file: for a command that finds nothing
\* to do, or cannot read the file, that is all.
Starts(p, c) == proc[p].at = "idle" /\ c \in Commands /\ file # Unreadable

\* add: a new entry, unless a live one has the name.
Add(p, n, t) ==
    /\ Starts(p, "add")
    /\ ~IsListed(file, n)
    /\ last < MaxEntries
    /\ last' = last + 1
    /\ entries' = [entries EXCEPT ![last + 1] = Record(n, t)]
    /\ Goes(p, "truncate", [file EXCEPT ![last + 1] = NewEntry(n, t)])
    /\ UNCHANGED <<file, records, served, torn, faults>>

\* Mutant: the entry is taken out of the store.
RemoveDropped(p, k, i) ==
    /\ Starts(p, "remove")
    /\ Finds(file, k, i)
    /\ Goes(p, "truncate", [file EXCEPT ![i] = NoEntry])
    /\ UNCHANGED <<file, records, last, entries, served, torn, faults>>

\* remove: the first entry found is disabled, whatever its status.
Remove(p, k, i) ==
    /\ Starts(p, "remove")
    /\ Finds(file, k, i)
    /\ Goes(p, "truncate", [file EXCEPT ![i].status = "disabled"])
    /\ UNCHANGED <<file, records, last, entries, served, torn, faults>>

\* apply-dns works on the first entry found, whatever its status.
ApplyDNS(p, k, i) ==
    /\ Starts(p, "apply-dns")
    /\ Finds(file, k, i)
    /\ proc' = [proc EXCEPT ![p] = Run("zone", file, i, {})]
    /\ UNCHANGED <<file, records, last, entries, served, torn, faults>>

\* apply-all loads the file for the list of the live entries ...
ApplyAll(p) ==
    /\ Starts(p, "apply-all")
    /\ \E i \in Ids : Live(file, i)
    /\ proc' = [proc EXCEPT ![p] = Turns({i \in Ids : Live(file, i)})]
    /\ UNCHANGED <<file, records, last, entries, served, torn, faults>>

\* ... and applies each by its name, loading the file again: the entry found
\* is the first of that name.
ApplyNext(p) ==
    /\ proc[p].at = "find"
    /\ \E i \in proc[p].todo :
         /\ \A j \in proc[p].todo : i <= j
         /\ \/ \E k \in Found(file, entries[i].name) :
                  proc' = [proc EXCEPT ![p] =
                              Run("zone", file, k, proc[p].todo \ {i})]
            \/ /\ Found(file, entries[i].name) = {}
               /\ proc' = [proc EXCEPT ![p] = Turns(proc[p].todo \ {i})]
    /\ UNCHANGED <<file, records, last, entries, served, torn, faults>>

\* The zone is known or found; when its lookup fails the entry keeps its
\* status, and the store is saved as it was loaded.
Zone(p) ==
    /\ proc[p].at = "zone"
    /\ \/ Goes(p, "list", proc[p].snap) /\ UNCHANGED faults
       \/ Goes(p, "truncate", proc[p].snap) /\ Fault
    /\ UNCHANGED <<file, records, last, entries, served, torn>>

\* Mutant: the name of another status is taken.
MarkedApplied(p, status) ==
    [proc[p].snap EXCEPT ![proc[p].cur].status = "applied"]

\* The store with the entry a process works on set to a status.
Marked(p, status) == [proc[p].snap EXCEPT ![proc[p].cur].status = status]

Current(p) == proc[p].snap[proc[p].cur]

\* Mutant: the records of the name are not looked at.
MatchesNone(p) == {}

\* The records ListRecords returns that have the name (and type).
Matches(p) == {r \in RecordIds : records[r].name = Current(p).name}

\* Mutant: any record of the name will do.
ListTrusting(p) ==
    /\ proc[p].at = "list"
    /\ \/ Matches(p) # {} /\ Goes(p, "truncate", Marked(p, "active"))
       \/ Matches(p) = {} /\ Goes(p, "create", proc[p].snap)
    /\ UNCHANGED <<file, records, last, entries, served, torn, faults>>

\* UpsertRecord lists the records of the name.  The first one may be right
\* already, or is to be updated; with none, one is to be created.
List(p) ==
    /\ proc[p].at = "list"
    /\ \/ \E r \in Matches(p) :
            /\ records[r].target = Current(p).target
            /\ Goes(p, "truncate", Marked(p, "active"))
       \/ \E r \in Matches(p) :
            /\ records[r].target # Current(p).target
            /\ proc' = [proc EXCEPT ![p] = [Run("update", @.snap, @.cur, @.todo)
                                               EXCEPT !.rec = r]]
       \/ /\ Matches(p) = {}
          /\ Goes(p, "create", proc[p].snap)
    /\ UNCHANGED <<file, records, last, entries, served, torn, faults>>

\* A call to Cloudflare fails: the entry is failed.  A call that was refused
\* for its rate is retried from the list on, or fails in the end.
CallFails(p) ==
    /\ proc[p].at \in {"list", "create", "update"}
    /\ Fault
    /\ \/ Goes(p, "truncate", Marked(p, "failed"))
       \/ Goes(p, "list", proc[p].snap)
    /\ UNCHANGED <<file, records, last, entries, served, torn>>

\* Record r gets the name and target of the entry.
Puts(p, r) ==
    /\ records' = [records EXCEPT ![r] =
                      Record(Current(p).name, Current(p).target)]
    /\ served' = served \cup {Record(Current(p).name, Current(p).target)}

\* The call has its effect, and its answer arrives or is lost.
Answered(p) ==
    \/ Goes(p, "truncate", Marked(p, "active")) /\ UNCHANGED faults
    \/ Goes(p, "truncate", Marked(p, "failed")) /\ Fault

\* CreateRecord: a new record, in a zone that is not full.
CreateRecord(p) ==
    /\ proc[p].at = "create"
    /\ \E r \in RecordIds :
         /\ records[r] = NoRecord
         /\ \A q \in RecordIds : q < r => records[q] # NoRecord
         /\ Puts(p, r)
    /\ Answered(p)
    /\ UNCHANGED <<file, last, entries, torn>>

\* UpdateRecord: the record that was listed is replaced.
UpdateRecord(p) ==
    /\ proc[p].at = "update"
    /\ Puts(p, proc[p].rec)
    /\ Answered(p)
    /\ UNCHANGED <<file, last, entries, torn>>

\* verify-dns works on the first entry found.
VerifyDNS(p, k, i) ==
    /\ Starts(p, "verify-dns")
    /\ Finds(file, k, i)
    /\ proc' = [proc EXCEPT ![p] = Run("lookup", file, i, {})]
    /\ UNCHANGED <<file, records, last, entries, served, torn, faults>>

\* The resolvers answer with the target, or with another, or not at all.  The
\* zone of the pool does not tell which: a name without a record of its own may
\* resolve by a wildcard or another zone, LookupHost follows a CNAME, and a
\* cache outlives a record.
Lookup(p) ==
    /\ proc[p].at = "lookup"
    /\ \E verdict \in {"verified", "failed"} :
          Goes(p, "truncate",
               [proc[p].snap EXCEPT ![proc[p].cur].verification = verdict])
    /\ UNCHANGED <<file, records, last, entries, served, torn, faults>>

------------------------------------------------------------------------------
(* Save.                                                                   *)

\* os.WriteFile opens the file, truncating it ...
Truncate(p) ==
    /\ proc[p].at = "truncate"
    /\ file' = Empty
    /\ Goes(p, "write", proc[p].snap)
    /\ UNCHANGED <<records, last, entries, served, torn, faults>>

\* ... and writes.  Another process may have written in between: of its text,
\* if longer, the end stays behind.  That is what was there when the new text
\* is how the old one begins, and else no YAML.
Write(p) ==
    /\ proc[p].at = "write"
    /\ \/ file' = proc[p].snap
       \/ file # Empty /\ file' = Unreadable
       \/ /\ file # Unreadable
          /\ \A i \in Ids : Has(proc[p].snap, i) => file[i] = proc[p].snap[i]
          /\ file' = file
    /\ Ends(p)
    /\ UNCHANGED <<records, last, entries, served, torn, faults>>

\* The file cannot be opened, or not be written once it is truncated: the
\* command ends with an error, apply-all goes on to its next entry.
SaveFails(p) ==
    /\ proc[p].at \in {"truncate", "write"}
    /\ Fault
    /\ Ends(p)
    /\ torn' = IF proc[p].at = "write" THEN "yes" ELSE torn
    /\ UNCHANGED <<file, records, last, entries, served>>

\* The process is killed.  The call it made may have had its effect; a file it
\* truncated stays empty.
Crash(p) ==
    /\ proc[p].at # "idle"
    /\ Fault
    /\ proc' = [proc EXCEPT ![p] = Idle]
    /\ torn' = IF proc[p].at = "write" THEN "yes" ELSE torn
    /\ UNCHANGED <<file, records, last, entries, served>>

\* Somebody edits the zone at Cloudflare, see the bound MaxFaults.
EditZone(r, n, t) ==
    /\ ByHand
    /\ Fault
    /\ records' = [records EXCEPT ![r] = Record(n, t)]
    /\ served' = served \cup {Record(n, t)}
    /\ UNCHANGED <<file, proc, last, entries, torn>>

Next ==
    \/ \E r \in RecordIds, n \in Names, t \in Targets : EditZone(r, n, t)
    \/ \E p \in Procs :
         \/ \E n \in Names, t \in Targets : Add(p, n, t)
         \/ \E k \in Keys, i \in Ids :
               Remove(p, k, i) \/ ApplyDNS(p, k, i) \/ VerifyDNS(p, k, i)
         \/ ApplyAll(p) \/ ApplyNext(p)
         \/ Zone(p) \/ List(p) \/ CreateRecord(p) \/ UpdateRecord(p)
         \/ CallFails(p)
         \/ Lookup(p)
         \/ Truncate(p) \/ Write(p) \/ SaveFails(p)
         \/ Crash(p)

Spec == Init /\ [][Next]_vars

------------------------------------------------------------------------------
(* Properties.                                                             *)

\* The file, the processes, the zone and the history have their types.
TypeOK ==
    /\ file \in Stores \cup {Unreadable}
    /\ proc \in [Procs -> Runs]
    /\ records \in [RecordIds -> Records]
    /\ last \in 0 .. MaxEntries
    /\ entries \in [Ids -> Records]
    /\ served \subseteq Records
    /\ torn \in {"no", "yes"}
    /\ faults \in 0 .. MaxFaults

WasServed(s, i) == Record(s[i].name, s[i].target) \in served

\* However commands of several processes overlap, overwrite each other's
\* entries, fail or die: the file never calls an entry active whose record was
\* never at Cloudflare.
ActiveWasServed ==
    file # Unreadable =>
        \A i \in Ids :
            Has(file, i) /\ file[i].status = "active" => WasServed(file, i)

OneLive(s) ==
    \A i, j \in Ids : Live(s, i) /\ Live(s, j) /\ s[i].name = s[j].name => i = j

\* The file has one live entry of a name at most ("domain %s already exists
\* in pool"), however commands overlap; as long as no apply command is used.
OneLivePerName == file # Unreadable => OneLive(file)

\* With every command, and of several processes: where there are two live
\* entries of a name, the earlier one has been applied since it was disabled.
\* A duplicate comes of nothing else, such as two adds at a time, or a change
\* that is written over another one.
TwinsAreApplied ==
    file # Unreadable =>
        \A i, j \in Ids :
            i < j /\ Live(file, i) /\ Live(file, j) /\ file[i].name = file[j].name
               => file[i].status \in {"active", "failed"}

\* Of commands that are run one after the other, apply-dns makes one record of
\* a name at most: after a lost answer, a kill or a failed save, the next
\* UpsertRecord finds the record there is.
OneRecordPerName ==
    \A q, r \in RecordIds :
        records[q] # NoRecord /\ records[q].name = records[r].name => q = r

\* Of commands run one after the other and given names, an entry that is
\* active has its record in the zone now: no other entry, disabled or added
\* later, took the record over.
ActiveIsServed ==
    file # Unreadable =>
        \A i \in Ids : Has(file, i) /\ file[i].status = "active" =>
            \E r \in RecordIds :
                records[r] = Record(file[i].name, file[i].target)

\* Of commands run one after the other, no record is left in the zone that the
\* pool has no entry of, unless a save was cut off.
NoOrphanRecord ==
    (torn = "no" /\ \A p \in Procs : proc[p].at # "write") =>
        \A r \in RecordIds : records[r] # NoRecord =>
            \E i \in Ids : Record(file[i].name, file[i].target) = records[r]
==============================================================================
