------------------------------ MODULE BackupRestore ------------------------------
(***************************************************************************)
(* backup run and backup restore (src/internal/stackforge/backup/backup.go *)
(* and their commands in cli/cli.go): the directories of backups, the      *)
(* inventory that names the last backup and the last restore, and the      *)
(* exports of components that are taken from nodes and loaded into them.   *)
(*                                                                         *)
(* Nothing is locked, files are truncated and then written, and most       *)
(* errors of a write are ignored; commands of several processes interleave *)
(* between any two calls.                                                  *)
(*                                                                         *)
(* Components are numbered in the order in which the code goes through     *)
(* them.  Backups are numbered by the second in which they start, which is *)
(* their ID: two in one second, which would share a directory, are left    *)
(* out.                                                                    *)
(***************************************************************************)
EXTENDS Naturals

CONSTANTS
    Procs,      \* the processes in which commands run
    N,          \* the number of components
    Reviewed,   \* those whose restore is always refused: nomad
    Exports,    \* what a component may export
    Marker,     \* the text written in the place of an export
    Torn,       \* a file that could not be written whole
    NoFile,     \* no file, or for a manifest: none that can be read
    Modes,      \* the ways commands are given, see AllModes
    MaxBackups, \* bound: backups
    MaxCommands, \* bound: commands
    MaxFaults   \* bound: failed calls, full disks and dying processes

\* A dry run; a command with the config of the cluster; a command without,
\* which gets a nil *ssh.Executor that is no nil remoteexec.Executor.
AllModes == {"dry", "live", "bare"}

Components == 1 .. N
Backups == 1 .. MaxBackups

ASSUME SizeAssumption ==
    /\ N \in Nat \ {0} /\ MaxBackups \in Nat
    /\ MaxCommands \in Nat /\ MaxFaults \in Nat
ASSUME ModesAssumption ==
    Modes \subseteq AllModes /\ Reviewed \subseteq Components
ASSUME DumpAssumption ==
    Marker \notin Exports /\ Torn \notin Exports /\ NoFile \notin Exports

VARIABLES
    inventory, \* inventory.yaml
    last,      \* number of the backup started last
    copies,    \* of each backup: its copy of the inventory
    dumps,     \* of each backup and component: the file of its export
    manifests, \* of each backup: backup-manifest.json
    reports,   \* of each backup: what a restore report calls restored
    proc,      \* the command each process runs
    loaded,    \* history: the exports loaded into components
    carried,   \* history: the backups whose restore went through to its end
    begun,     \* commands begun, of MaxCommands
    faults     \* spent of MaxFaults

dirs == <<copies, dumps, manifests, reports>>
history == <<loaded, carried>>
vars == <<begun, inventory, last, dirs, proc, history, faults>>

------------------------------------------------------------------------------
(* Files and what commands have in memory.                                 *)

\* What an inventory says: the last backup, the last restore (0 for none), and
\* whether it lists the nodes.
Inventory(b, r, nodes) == [backup |-> b, restore |-> r, nodes |-> nodes]

Inventories ==
    [backup : 0 .. MaxBackups, restore : 0 .. MaxBackups,
     nodes : {"known", "unknown"}]

\* An empty file: YAML reads it as an inventory without anything.
Blank == Inventory(0, 0, "unknown")

Files == Exports \cup {Marker, Torn, NoFile}

\* A manifest: the checksum of the copy of the inventory, those of the files
\* of components, and whether the nodes of the planned commands are known.
Manifest(copy, sums, nodes) ==
    [copy |-> copy, sums |-> sums, nodes |-> nodes]

Manifests ==
    [copy : Inventories \cup {NoFile}, sums : [Components -> Files],
     nodes : {"known", "unknown"}]

ASSUME NoFileAssumption == NoFile \notin Inventories /\ NoFile \notin Manifests

NoSums == Manifest(NoFile, [c \in Components |-> NoFile], "unknown")

\* A command: its place, mode and backup, the manifest it makes or restores
\* from, the inventory it is to save and the place it goes to then, the
\* component it is at, and the components it restored.
Command(place, m, d, man, inv, then, c, done) ==
    [at |-> place, mode |-> m, id |-> d, manifest |-> man, inv |-> inv,
     then |-> then, next |-> c, done |-> done]

\* A command that keeps nothing in memory, but perhaps an inventory to save.
Plain(place, inv, then) ==
    Command(place, "dry", 0, NoSums, inv, then, 1, {})

Idle == Plain("idle", Blank, "idle")

Places ==
    {"idle", "plan", "export", "manifest", "mark-backup", "load", "report",
     "mark-restore", "refresh", "truncate", "write"}

Commands ==
    [at : Places, mode : AllModes, id : 0 .. MaxBackups, manifest : Manifests,
     inv : Inventories, then : Places, next : 1 .. N + 1,
     done : SUBSET Components]

\* Process p goes on at a place; with the refresh all else is done.
Goes(p, place) ==
    proc' = [proc EXCEPT ![p] =
                IF place \in {"refresh", "idle"}
                THEN Plain(place, Blank, "idle")
                ELSE Command(place, @.mode, @.id, @.manifest, Blank, "idle",
                             @.next, @.done)]

\* Process p saves an inventory before it ends or turns to the refresh.
Saves(p, inv, then) == proc' = [proc EXCEPT ![p] = Plain("truncate", inv, then)]

Stops(p) == proc' = [proc EXCEPT ![p] = Idle]

\* The place of a loop over the components after one of them.
Loop(place, end, c) == IF c = N THEN end ELSE place

Begins(p) == proc[p].at = "idle" /\ begun < MaxCommands /\ begun' = begun + 1

Fault == faults < MaxFaults /\ faults' = faults + 1

NodesIn(inv) == IF inv = NoFile THEN "unknown" ELSE inv.nodes

------------------------------------------------------------------------------
Init ==
    /\ inventory \in {Inventory(0, 0, "known"), NoFile}
    /\ last = 0
    /\ begun = 0
    /\ copies = [d \in Backups |-> NoFile]
    /\ dumps = [e \in Backups \X Components |-> NoFile]
    /\ manifests = [d \in Backups |-> NoFile]
    /\ reports = [d \in Backups |-> {}]
    /\ proc = [p \in Procs |-> Idle]
    /\ loaded = {}
    /\ carried = {}
    /\ faults = 0

------------------------------------------------------------------------------
(* RunWithOptions.                                                         *)

\* A new directory, and a copy of the inventory in it, if there is one: the
\* copy that was written, in part or whole, has the checksum in the manifest.
Backup(p, m, copy) ==
    /\ Begins(p)
    /\ last < MaxBackups
    /\ last' = last + 1
    /\ \/ copy = inventory /\ UNCHANGED faults
       \/ copy = Blank /\ inventory # NoFile /\ Fault
    /\ copies' = [copies EXCEPT ![last + 1] = copy]
    /\ proc' = [proc EXCEPT ![p] =
                   Command("plan", m, last + 1,
                           Manifest(copy, NoSums.sums, "unknown"), Blank,
                           "idle", 1, {})]
    /\ UNCHANGED <<inventory, dumps, manifests, reports, history>>

\* BuildExportPlans: the inventory is read again for the nodes.
Plan(p) ==
    /\ proc[p].at = "plan"
    /\ proc' = [proc EXCEPT ![p] =
                   Command("export",
                           @.mode, @.id,
                           Manifest(@.manifest.copy, @.manifest.sums,
                                    NodesIn(inventory)),
                           Blank, "idle", 1, {})]
    /\ UNCHANGED <<begun, inventory, last, dirs, history, faults>>

\* Mutant: the text is hashed, not the file that was written.
ChecksumOfText(file) == IF file = Torn THEN Marker ELSE file

\* addFile reads the file that was written.
Checksum(file) == file

\* The file of the component the backup is at gets its content, and the
\* manifest the checksum.
Exported(p, file) ==
    /\ dumps' = [dumps EXCEPT ![<<proc[p].id, proc[p].next>>] = file]
    /\ proc' = [proc EXCEPT ![p] =
                   Command(Loop("export", "manifest", @.next), @.mode, @.id,
                           Manifest(@.manifest.copy,
                                    [@.manifest.sums EXCEPT ![proc[p].next] =
                                        Checksum(file)],
                                    @.manifest.nodes),
                           Blank, "idle", @.next + 1, {})]
    /\ UNCHANGED <<begun, inventory, last, copies, manifests, reports, history>>

HasNode(p) == proc[p].manifest.nodes = "known"

\* A dry run, or a component without a node, has its command or the error
\* written instead of an export.
ExportPlanned(p) ==
    /\ proc[p].at = "export"
    /\ proc[p].mode = "dry" \/ ~HasNode(p)
    /\ Exported(p, Marker)
    /\ UNCHANGED faults

\* The command runs on the node, and its output is written.
ExportRuns(p, x) ==
    /\ proc[p].at = "export"
    /\ proc[p].mode = "live" /\ HasNode(p)
    /\ Exported(p, x)
    /\ UNCHANGED faults

\* The command fails, or what is to be written cannot be.
ExportFails(p) ==
    /\ proc[p].at = "export"
    /\ Fault
    /\ \/ proc[p].mode = "live" /\ HasNode(p) /\ Exported(p, Marker)
       \/ proc[p].mode # "bare" /\ Exported(p, Torn)
       \/ ~HasNode(p) /\ Exported(p, Torn)

\* With the manifest the backup is complete.  A dry run leaves the inventory
\* alone but for its refresh.
WriteManifest(p) ==
    /\ proc[p].at = "manifest"
    /\ manifests' = [manifests EXCEPT ![proc[p].id] = proc[p].manifest]
    /\ Goes(p, IF proc[p].mode = "dry" THEN "refresh" ELSE "mark-backup")
    /\ UNCHANGED <<begun, inventory, last, copies, dumps, reports, history,
                   faults>>

\* Mutant: the error is ignored.
ManifestFailsIgnored(p) ==
    /\ proc[p].at = "manifest"
    /\ Fault
    /\ Goes(p, "mark-backup")
    /\ UNCHANGED <<begun, inventory, last, dirs, history>>

\* The manifest cannot be written: the command ends with the error.
ManifestFails(p) ==
    /\ proc[p].at = "manifest"
    /\ Fault
    /\ Stops(p)
    /\ UNCHANGED <<begun, inventory, last, dirs, history>>

\* updateInventoryBackup.
MarkBackup(p) ==
    /\ proc[p].at = "mark-backup"
    /\ \/ inventory = NoFile /\ Goes(p, "refresh")
       \/ /\ inventory # NoFile
          /\ Saves(p, Inventory(proc[p].id, inventory.restore, inventory.nodes),
                   "refresh")
    /\ UNCHANGED <<begun, inventory, last, dirs, history, faults>>

------------------------------------------------------------------------------
(* RestoreWithDetailedOptions.                                             *)

\* Verify: the files have the checksums in the manifest.
Verify(d) ==
    /\ manifests[d].copy = copies[d]
    /\ \A c \in Components : manifests[d].sums[c] = dumps[<<d, c>>]

Restorable(d) == manifests[d] # NoFile /\ Verify(d)

\* writeRestoreReport: its errors are ignored.
Reports(d, done) ==
    \/ reports' = [reports EXCEPT ![d] = done] /\ UNCHANGED faults
    \/ reports' = [reports EXCEPT ![d] = {}] /\ Fault

\* A dry run writes a report that nothing was restored.  (db restore ends
\* without a refresh of the inventory, here and below.)
RestoreDryRun(p, d) ==
    /\ Begins(p)
    /\ Restorable(d)
    /\ Reports(d, {})
    /\ \E place \in {"refresh", "idle"} : Goes(p, place)
    /\ UNCHANGED <<inventory, last, copies, dumps, manifests, history>>

\* The copy of the inventory is put back first, if the backup has one ...
Restore(p, d, m) ==
    /\ Begins(p)
    /\ m # "dry"
    /\ Restorable(d)
    /\ proc' = [proc EXCEPT ![p] =
                   IF copies[d] = NoFile
                   THEN Command("load", m, d, manifests[d], Blank, "idle", 1, {})
                   ELSE Command("truncate", m, d, manifests[d], copies[d], "load",
                                1, {})]
    /\ UNCHANGED <<inventory, last, dirs, history, faults>>

\* ... and then component after component.
NextComponent(p, done) ==
    proc' = [proc EXCEPT ![p] =
                Command(Loop("load", "report", @.next), @.mode, @.id,
                        @.manifest, Blank, "idle", @.next + 1, done)]

\* The file the component is restored from.
Payload(p) == dumps[<<proc[p].id, proc[p].next>>]

\* The command of the restore takes an export, and no other text; that of
\* nomad always ends with status 12.
Takes(c, file) == file \in Exports /\ c \notin Reviewed

Loaded(p) == loaded \cup {<<proc[p].id, proc[p].next, Payload(p)>>}

\* A component that has no node in the manifest, or whose file is no export or
\* cannot be read, is skipped, and the restore goes on.
LoadSkips(p) ==
    /\ proc[p].at = "load"
    /\ \/ ~HasNode(p)
       \/ proc[p].mode = "live" /\ ~Takes(proc[p].next, Payload(p))
       \/ Payload(p) = Torn
    /\ NextComponent(p, proc[p].done)
    /\ UNCHANGED <<begun, inventory, last, dirs, history, faults>>

LoadRuns(p) ==
    /\ proc[p].at = "load"
    /\ proc[p].mode = "live" /\ HasNode(p) /\ Takes(proc[p].next, Payload(p))
    /\ loaded' = Loaded(p)
    /\ NextComponent(p, proc[p].done \cup {proc[p].next})
    /\ UNCHANGED <<begun, inventory, last, dirs, carried, faults>>

\* Mutant: the loop does not continue after an error.
AfterFailureRestored(p) == proc[p].done \cup {proc[p].next}

\* What is restored when the command of a component failed.
AfterFailure(p) == proc[p].done

\* The command fails, or times out when it has had its effect: the component
\* is skipped in either case.
LoadFails(p) ==
    /\ proc[p].at = "load"
    /\ proc[p].mode = "live" /\ HasNode(p) /\ Takes(proc[p].next, Payload(p))
    /\ Fault
    /\ loaded' \in {loaded, Loaded(p)}
    /\ NextComponent(p, AfterFailure(p))
    /\ UNCHANGED <<begun, inventory, last, dirs, carried>>

WriteReport(p) ==
    /\ proc[p].at = "report"
    /\ Reports(proc[p].id, proc[p].done)
    /\ carried' = carried \cup {proc[p].id}
    /\ Goes(p, "mark-restore")
    /\ UNCHANGED <<begun, inventory, last, copies, dumps, manifests, loaded>>

\* updateInventoryRestore.
MarkRestore(p) ==
    /\ proc[p].at = "mark-restore"
    /\ \E then \in {"refresh", "idle"} :
          \/ inventory = NoFile /\ Goes(p, then)
          \/ /\ inventory # NoFile
             /\ Saves(p,
                      Inventory(inventory.backup, proc[p].id, inventory.nodes),
                      then)
    /\ UNCHANGED <<begun, inventory, last, dirs, history, faults>>

------------------------------------------------------------------------------
(* The inventory file.                                                     *)

\* inventory refresh, or a restore that is refused.
StartRefresh(p) ==
    /\ Begins(p)
    /\ Goes(p, "refresh")
    /\ UNCHANGED <<inventory, last, dirs, history, faults>>

\* refreshInventoryFromConfig loads the inventory, looks at the nodes for a
\* while, and saves what it loaded.
Refresh(p) ==
    /\ proc[p].at = "refresh"
    /\ \/ inventory = NoFile /\ Stops(p)
       \/ inventory # NoFile /\ Saves(p, inventory, "idle")
    /\ UNCHANGED <<begun, inventory, last, dirs, history, faults>>

\* The file is opened, which empties it ...
Truncate(p) ==
    /\ proc[p].at = "truncate"
    /\ inventory' = Blank
    /\ proc' = [proc EXCEPT ![p] =
                   Command("write", @.mode, @.id, @.manifest, @.inv, @.then,
                           @.next, @.done)]
    /\ UNCHANGED <<begun, last, dirs, history, faults>>

\* ... and written.
Write(p) ==
    /\ proc[p].at = "write"
    /\ inventory' = proc[p].inv
    /\ Goes(p, proc[p].then)
    /\ UNCHANGED <<begun, last, dirs, history, faults>>

\* It cannot be opened, or not be written: the error is ignored.
SaveFails(p) ==
    /\ proc[p].at \in {"truncate", "write"}
    /\ Fault
    /\ Goes(p, proc[p].then)
    /\ UNCHANGED <<begun, inventory, last, dirs, history>>

\* Without a config a command on a node is called of a nil executor: the
\* program panics.
Panic(p) ==
    /\ proc[p].at \in {"export", "load"}
    /\ proc[p].mode = "bare" /\ HasNode(p)
    /\ Stops(p)
    /\ UNCHANGED <<begun, inventory, last, dirs, history, faults>>

\* The process is killed.
Crash(p) ==
    /\ proc[p].at # "idle"
    /\ Fault
    /\ Stops(p)
    /\ UNCHANGED <<begun, inventory, last, dirs, history>>

Next == \E p \in Procs :
    \/ \E m \in Modes : \/ Backup(p, m, inventory) \/ Backup(p, m, Blank)
                        \/ \E d \in Backups : Restore(p, d, m)
    \/ "dry" \in Modes /\ \E d \in Backups : RestoreDryRun(p, d)
    \/ \E x \in Exports : ExportRuns(p, x)
    \/ Plan(p) \/ ExportPlanned(p) \/ ExportFails(p)
    \/ WriteManifest(p) \/ ManifestFails(p) \/ MarkBackup(p)
    \/ LoadSkips(p) \/ LoadRuns(p) \/ LoadFails(p)
    \/ WriteReport(p) \/ MarkRestore(p)
    \/ StartRefresh(p) \/ Refresh(p)
    \/ Truncate(p) \/ Write(p) \/ SaveFails(p)
    \/ Panic(p) \/ Crash(p)

Spec == Init /\ [][Next]_vars

------------------------------------------------------------------------------
(* Properties.                                                             *)

\* The files, the commands and the history have their types.
TypeOK ==
    /\ inventory \in Inventories \cup {NoFile}
    /\ last \in 0 .. MaxBackups
    /\ begun \in 0 .. MaxCommands
    /\ copies \in [Backups -> Inventories \cup {NoFile}]
    /\ dumps \in [Backups \X Components -> Files]
    /\ manifests \in [Backups -> Manifests \cup {NoFile}]
    /\ reports \in [Backups -> SUBSET Components]
    /\ proc \in [Procs -> Commands]
    /\ loaded \subseteq Backups \X Components \X Exports
    /\ carried \subseteq Backups
    /\ faults \in 0 .. MaxFaults

\* What an inventory says of the last backup and the last restore is true: the
\* backup is complete, the restore went through all components.
IsTrue(inv) ==
    /\ inv.backup # 0 => manifests[inv.backup] # NoFile
    /\ inv.restore # 0 => inv.restore \in carried

\* Whatever commands overlap, fail or die, and whatever older inventory a
\* restore or a slow refresh puts back: the backup that inventory.yaml names is
\* one that is complete, and the restore it names was carried out.
MarkersAreTrue == inventory # NoFile => IsTrue(inventory)

\* A backup that has a manifest can be restored: its files have the checksums
\* they are checked for, also when exports, markers and copies could not be
\* written whole.
CompleteIsRestorable ==
    \A d \in Backups : manifests[d] # NoFile => Restorable(d)

\* A component that a report calls restored was loaded with the component's own
\* export in that backup, and not with a marker or what was left of a file.
ReportsAreTrue ==
    \A d \in Backups : \A c \in reports[d] :
        dumps[<<d, c>>] \in Exports /\ <<d, c, dumps[<<d, c>>]>> \in loaded
==============================================================================
