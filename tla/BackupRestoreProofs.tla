-------------------------- MODULE BackupRestoreProofs --------------------------
(***************************************************************************)
(* Proofs about BackupRestore, for any number of processes, components,    *)
(* backups, commands and faults.                                           *)
(***************************************************************************)
EXTENDS BackupRestore, TLAPS

(***************************************************************************)
(* The inductive invariant of the markers.  An inventory travels: it is    *)
(* copied into backups, kept in memory while nodes are observed, and put   *)
(* back.  So each inventory there is has to be true.  What it says stays   *)
(* true since manifests stay and restores are not undone; a command is     *)
(* about to mark a backup, or a restore, when it is so.                    *)
(***************************************************************************)
IsTrueOf(inv, mans, car) ==
    /\ inv.backup # 0 => mans[inv.backup] # NoFile
    /\ inv.restore # 0 => inv.restore \in car

IsFiled(inv, mans, car) ==
    /\ inv \in Inventories \cup {NoFile}
    /\ inv # NoFile => IsTrueOf(inv, mans, car)

AtWork == {"plan", "export", "manifest", "mark-backup", "load", "report",
           "mark-restore"}

InLoop == {"export", "load"}

Sane(c, mans, car) ==
    /\ c \in Commands
    /\ IsTrueOf(c.inv, mans, car)
    /\ c.then \in {"idle", "refresh", "load"}
    /\ c.at \in AtWork \/ c.then = "load" => c.id \in Backups
    /\ c.at \in InLoop \/ c.then = "load" => c.next \in Components
    /\ c.at = "mark-backup" => mans[c.id] # NoFile
    /\ c.at = "mark-restore" => c.id \in car

Running(cmds, mans, car) ==
    /\ cmds \in [Procs -> Commands]
    /\ \A p \in Procs : Sane(cmds[p], mans, car)

Copied(cops, mans, car) ==
    /\ cops \in [Backups -> Inventories \cup {NoFile}]
    /\ \A d \in Backups : IsFiled(cops[d], mans, car)

Rest ==
    /\ last \in 0 .. MaxBackups
    /\ begun \in 0 .. MaxCommands
    /\ faults \in 0 .. MaxFaults
    /\ dumps \in [Backups \X Components -> Files]
    /\ manifests \in [Backups -> Manifests \cup {NoFile}]
    /\ reports \in [Backups -> SUBSET Components]
    /\ loaded \subseteq Backups \X Components \X Exports
    /\ carried \subseteq Backups

IInv ==
    /\ Rest
    /\ IsFiled(inventory, manifests, carried)
    /\ Copied(copies, manifests, carried)
    /\ Running(proc, manifests, carried)

\* Manifests stay, and more restores are carried out.
Later(mans, car, mans2, car2) ==
    /\ \A d \in Backups : mans[d] # NoFile => mans2[d] # NoFile
    /\ car \subseteq car2

------------------------------------------------------------------------------
(* Facts about inventories and commands.                                   *)

LEMMA BlankIsTrue ==
    ASSUME NEW mans, NEW car
    PROVE  Blank \in Inventories /\ IsTrueOf(Blank, mans, car)
BY SizeAssumption DEF Blank, Inventory, Inventories, IsTrueOf

LEMMA NoSumsIsManifest == NoSums \in Manifests
BY DEF NoSums, Manifest, Manifests, Files

LEMMA TrueLater ==
    ASSUME NEW mans, NEW car, NEW mans2, NEW car2, Later(mans, car, mans2, car2),
           NEW inv \in Inventories, IsTrueOf(inv, mans, car)
    PROVE  IsTrueOf(inv, mans2, car2)
<1>1. inv.backup # 0 => inv.backup \in Backups
  BY SizeAssumption DEF Inventories, Backups
<1> QED
  BY <1>1 DEF IsTrueOf, Later

LEMMA SaneLater ==
    ASSUME NEW mans, NEW car, NEW mans2, NEW car2, Later(mans, car, mans2, car2),
           NEW c, Sane(c, mans, car)
    PROVE  Sane(c, mans2, car2)
<1>1. c \in Commands /\ c.inv \in Inventories
  BY DEF Sane, Commands
<1>2. IsTrueOf(c.inv, mans2, car2)
  BY <1>1, TrueLater DEF Sane
<1>3. c.at = "mark-backup" => mans2[c.id] # NoFile
  BY DEF Sane, Later, AtWork
<1> QED
  BY <1>2, <1>3 DEF Sane, Later

LEMMA CopiedLater ==
    ASSUME NEW mans, NEW car, NEW mans2, NEW car2, Later(mans, car, mans2, car2),
           NEW cops, Copied(cops, mans, car)
    PROVE  Copied(cops, mans2, car2)
BY TrueLater DEF Copied, IsFiled

LEMMA FiledLater ==
    ASSUME NEW mans, NEW car, NEW mans2, NEW car2, Later(mans, car, mans2, car2),
           NEW inv, IsFiled(inv, mans, car)
    PROVE  IsFiled(inv, mans2, car2)
BY TrueLater DEF IsFiled

\* One process takes a step to a sane command.
LEMMA OneMoves ==
    ASSUME NEW mans, NEW car, NEW mans2, NEW car2, Later(mans, car, mans2, car2),
           NEW cmds, Running(cmds, mans, car),
           NEW p \in Procs, NEW c, Sane(c, mans2, car2)
    PROVE  Running([cmds EXCEPT ![p] = c], mans2, car2)
<1>1. [cmds EXCEPT ![p] = c] \in [Procs -> Commands]
  BY DEF Running, Sane
<1>2. ASSUME NEW q \in Procs
      PROVE  Sane([cmds EXCEPT ![p] = c][q], mans2, car2)
  <2>1. CASE q = p
    BY <2>1 DEF Running
  <2>2. CASE q # p
    BY <2>2, SaneLater DEF Running
  <2> QED
    BY <2>1, <2>2
<1> QED
  BY <1>1, <1>2 DEF Running

LEMMA CommandIsCommand ==
    ASSUME NEW place \in Places, NEW m \in AllModes, NEW d \in 0 .. MaxBackups,
           NEW man \in Manifests, NEW inv \in Inventories, NEW then \in Places,
           NEW k \in 1 .. N + 1, NEW done \in SUBSET Components
    PROVE  Command(place, m, d, man, inv, then, k, done) \in Commands
BY DEF Command, Commands

LEMMA PlainIsSane ==
    ASSUME NEW mans, NEW car, NEW inv \in Inventories, IsTrueOf(inv, mans, car),
           NEW place \in {"idle", "refresh", "truncate"},
           NEW then \in {"idle", "refresh"}
    PROVE  Sane(Plain(place, inv, then), mans, car)
<1>1. Plain(place, inv, then) \in Commands
  <2>1. /\ place \in Places /\ then \in Places /\ "dry" \in AllModes
        /\ 0 \in 0 .. MaxBackups /\ 1 \in 1 .. N + 1
        /\ {} \in SUBSET Components
    BY SizeAssumption DEF Places, AllModes
  <2> QED
    BY <2>1, NoSumsIsManifest, CommandIsCommand DEF Plain
<1>2. /\ Plain(place, inv, then).inv = inv
      /\ Plain(place, inv, then).then = then
      /\ Plain(place, inv, then).at = place
  BY DEF Plain, Command
<1> QED
  BY <1>1, <1>2 DEF Sane, AtWork, InLoop

\* The places a command is at with a backup, and what is asked of them.
LEMMA WorkIsSane ==
    ASSUME NEW mans, NEW car, NEW place \in AtWork,
           NEW m \in AllModes, NEW d \in Backups, NEW man \in Manifests,
           NEW k \in 1 .. N + 1, NEW done \in SUBSET Components,
           place \in InLoop => k \in Components,
           place = "mark-backup" => mans[d] # NoFile,
           place = "mark-restore" => d \in car
    PROVE  Sane(Command(place, m, d, man, Blank, "idle", k, done), mans, car)
<1> DEFINE c == Command(place, m, d, man, Blank, "idle", k, done)
<1>1. c \in Commands
  <2>1. place \in Places /\ d \in 0 .. MaxBackups /\ "idle" \in Places
    BY SizeAssumption DEF AtWork, Places, Backups
  <2> QED
    BY <2>1, BlankIsTrue, CommandIsCommand
<1>2. /\ c.inv = Blank /\ c.then = "idle" /\ c.at = place /\ c.id = d
      /\ c.next = k
  BY DEF Command
<1>3. IsTrueOf(Blank, mans, car)
  BY BlankIsTrue
<1> HIDE DEF c
<1>4. Sane(c, mans, car)
  BY <1>1, <1>2, <1>3 DEF Sane
<1> QED
  BY <1>4 DEF c

------------------------------------------------------------------------------
(* How the commands move on.                                               *)

\* The place and the inventory Goes leaves a sane command at.
LEMMA GoesIsSane ==
    ASSUME NEW mans, NEW car, NEW mans2, NEW car2, Later(mans, car, mans2, car2),
           Running(proc, mans, car), NEW p \in Procs,
           NEW place \in AtWork \cup {"refresh", "idle"}, Goes(p, place),
           place \in AtWork => proc[p].id \in Backups,
           place \in InLoop => proc[p].next \in Components,
           place = "mark-backup" => mans2[proc[p].id] # NoFile,
           place = "mark-restore" => proc[p].id \in car2
    PROVE  Running(proc', mans2, car2)
<1>1. CASE place \in {"refresh", "idle"}
  <2>1. proc' = [proc EXCEPT ![p] = Plain(place, Blank, "idle")]
    BY <1>1 DEF Goes
  <2>2. Blank \in Inventories /\ IsTrueOf(Blank, mans2, car2)
    BY BlankIsTrue
  <2>3. Sane(Plain(place, Blank, "idle"), mans2, car2)
    BY <1>1, <2>2, PlainIsSane
  <2> QED
    BY <2>1, <2>3, OneMoves
<1>2. CASE place \in AtWork
  <2> DEFINE c == Command(place, proc[p].mode, proc[p].id, proc[p].manifest,
                          Blank, "idle", proc[p].next, proc[p].done)
  <2>1. place \notin {"refresh", "idle"}
    BY <1>2 DEF AtWork
  <2>2. proc' = [proc EXCEPT ![p] = c]
    BY <2>1 DEF Goes
  <2>3. /\ proc[p].mode \in AllModes /\ proc[p].manifest \in Manifests
        /\ proc[p].next \in 1 .. N + 1 /\ proc[p].done \in SUBSET Components
    BY DEF Running, Commands
  <2>4. Sane(c, mans2, car2)
    BY <1>2, <2>3, WorkIsSane
  <2> HIDE DEF c
  <2> QED
    BY <2>2, <2>4, OneMoves
<1> QED
  BY <1>1, <1>2

LEMMA SavesIsSane ==
    ASSUME NEW mans, NEW car, Running(proc, mans, car), NEW p \in Procs,
           NEW inv \in Inventories, IsTrueOf(inv, mans, car),
           NEW then \in {"idle", "refresh"}, Saves(p, inv, then)
    PROVE  Running(proc', mans, car)
<1>1. Sane(Plain("truncate", inv, then), mans, car)
  BY PlainIsSane
<1>2. Later(mans, car, mans, car)
  BY DEF Later
<1> QED
  BY <1>1, <1>2, OneMoves DEF Saves

LEMMA StopsIsSane ==
    ASSUME NEW mans, NEW car, Running(proc, mans, car), NEW p \in Procs,
           Stops(p)
    PROVE  Running(proc', mans, car)
<1>1. Sane(Idle, mans, car)
  BY BlankIsTrue, PlainIsSane DEF Idle
<1>2. Later(mans, car, mans, car)
  BY DEF Later
<1> QED
  BY <1>1, <1>2, OneMoves DEF Stops

\* A step of one command that leaves manifests and the restores carried out as
\* they are, and the types of the rest.
LEMMA QuietStep ==
    ASSUME IInv, UNCHANGED <<manifests, carried>>, Rest',
           inventory' = inventory, copies' = copies,
           Running(proc', manifests, carried)
    PROVE  IInv'
BY DEF IInv

LEMMA Unspent ==
    ASSUME IInv, Fault
    PROVE  faults' \in 0 .. MaxFaults
BY SizeAssumption DEF IInv, Rest, Fault

LEMMA Begun ==
    ASSUME IInv, NEW p \in Procs, Begins(p)
    PROVE  begun' \in 0 .. MaxCommands
BY SizeAssumption DEF IInv, Rest, Begins

LEMMA BackupKeeps ==
    ASSUME IInv, NEW p \in Procs, NEW m \in AllModes, NEW copy,
           copy \in {inventory, Blank}, Backup(p, m, copy)
    PROVE  IInv'
<1>1. last + 1 \in Backups /\ last' \in 0 .. MaxBackups
  BY SizeAssumption DEF IInv, Rest, Backup, Backups
<1>2. IsFiled(copy, manifests, carried)
  BY BlankIsTrue DEF IInv, IsFiled
<1>3. Copied(copies', manifests, carried)
  BY <1>1, <1>2 DEF IInv, Copied, Backup, IsFiled
<1>4. Later(manifests, carried, manifests, carried)
  BY DEF Later
<1>5. Running(proc', manifests, carried)
  <2> DEFINE man == Manifest(copy, NoSums.sums, "unknown")
  <2>1. man \in Manifests
    BY <1>2, NoSumsIsManifest DEF Manifest, Manifests, IsFiled
  <2> HIDE DEF man
  <2>2. Sane(Command("plan", m, last + 1, man, Blank, "idle", 1, {}), manifests,
             carried)
    <3>1. /\ "plan" \in AtWork /\ "plan" \notin InLoop
          /\ 1 \in 1 .. N + 1 /\ {} \in SUBSET Components
      BY SizeAssumption DEF AtWork, InLoop
    <3> QED
      BY <1>1, <2>1, <3>1, WorkIsSane
  <2>3. proc' = [proc EXCEPT ![p] =
                    Command("plan", m, last + 1, man, Blank, "idle", 1, {})]
    BY DEF Backup, man
  <2> QED
    BY <1>4, <2>2, <2>3, OneMoves DEF IInv
<1>6. Rest'
  BY <1>1, Unspent, Begun DEF IInv, Rest, Backup, history
<1> QED
  BY <1>3, <1>5, <1>6 DEF IInv, Backup, history

\* What a sane command has in memory.
LEMMA InMemory ==
    ASSUME IInv, NEW p \in Procs
    PROVE  /\ Sane(proc[p], manifests, carried)
           /\ proc[p] \in Commands
           /\ proc[p].mode \in AllModes /\ proc[p].manifest \in Manifests
           /\ proc[p].next \in 1 .. N + 1 /\ proc[p].done \in SUBSET Components
           /\ proc[p].inv \in Inventories
           /\ proc[p].at \in AtWork => proc[p].id \in Backups
           /\ proc[p].at \in InLoop => proc[p].next \in Components
BY DEF IInv, Running, Sane, Commands

LEMMA SameIsLater == Later(manifests, carried, manifests, carried)
BY DEF Later

\* A loop over the components stays in bounds.
LEMMA LoopGoes ==
    ASSUME NEW k \in Components, NEW place \in InLoop,
           NEW end \in {"manifest", "report"}
    PROVE  /\ Loop(place, end, k) \in AtWork
           /\ Loop(place, end, k) \in InLoop => k + 1 \in Components
           /\ Loop(place, end, k) \notin {"mark-backup", "mark-restore"}
           /\ k + 1 \in 1 .. N + 1
BY SizeAssumption DEF Loop, Components, AtWork, InLoop

LEMMA PlanKeeps ==
    ASSUME IInv, NEW p \in Procs, Plan(p)
    PROVE  IInv'
<1> DEFINE man == Manifest(proc[p].manifest.copy, proc[p].manifest.sums,
                           NodesIn(inventory))
<1>1. proc[p].at \in AtWork
  BY DEF Plan, AtWork
<1>2. NodesIn(inventory) \in {"known", "unknown"}
  BY DEF NodesIn, IInv, IsFiled, Inventories
<1>3. man \in Manifests
  BY <1>2, InMemory DEF Manifest, Manifests
<1>4. proc' = [proc EXCEPT ![p] =
                  Command("export", proc[p].mode, proc[p].id, man, Blank, "idle",
                          1, {})]
  BY DEF Plan
<1> HIDE DEF man
<1>5. /\ "export" \in AtWork /\ 1 \in Components /\ 1 \in 1 .. N + 1
      /\ {} \in SUBSET Components
  BY SizeAssumption DEF AtWork, Components
<1>6. Sane(Command("export", proc[p].mode, proc[p].id, man, Blank, "idle", 1,
                   {}), manifests, carried)
  BY <1>1, <1>3, <1>5, InMemory, WorkIsSane
<1>7. Running(proc', manifests, carried)
  BY <1>4, <1>6, SameIsLater, OneMoves DEF IInv
<1>8. Rest'
  BY DEF IInv, Rest, Plan, dirs, history
<1> QED
  BY <1>7, <1>8, QuietStep DEF Plan, dirs, history

LEMMA ExportedKeeps ==
    ASSUME IInv, NEW p \in Procs, proc[p].at = "export", NEW file \in Files,
           Exported(p, file), faults' \in 0 .. MaxFaults
    PROVE  IInv'
<1> DEFINE sums == [proc[p].manifest.sums EXCEPT ![proc[p].next] = Checksum(file)]
           man == Manifest(proc[p].manifest.copy, sums, proc[p].manifest.nodes)
           place == Loop("export", "manifest", proc[p].next)
<1>1. proc[p].id \in Backups /\ proc[p].next \in Components
  BY InMemory DEF AtWork, InLoop
<1>2. man \in Manifests
  <2>1. sums \in [Components -> Files]
    BY <1>1, InMemory DEF Manifests, Checksum
  <2> QED
    BY <2>1, InMemory DEF Manifest, Manifests
<1>3. proc' = [proc EXCEPT ![p] =
                  Command(place, proc[p].mode, proc[p].id, man, Blank, "idle",
                          proc[p].next + 1, {})]
  BY DEF Exported
<1>4. "export" \in InLoop /\ "manifest" \in {"manifest", "report"}
  BY DEF InLoop
<1>5. /\ place \in AtWork /\ place \notin {"mark-backup", "mark-restore"}
      /\ place \in InLoop => proc[p].next + 1 \in Components
      /\ proc[p].next + 1 \in 1 .. N + 1
  BY <1>1, <1>4, LoopGoes
<1> HIDE DEF man, place
<1>6. Sane(Command(place, proc[p].mode, proc[p].id, man, Blank, "idle",
                   proc[p].next + 1, {}), manifests, carried)
  BY <1>1, <1>2, <1>5, InMemory, WorkIsSane
<1>7. Running(proc', manifests, carried)
  BY <1>3, <1>6, SameIsLater, OneMoves DEF IInv
<1>8. dumps' \in [Backups \X Components -> Files]
  BY <1>1 DEF IInv, Rest, Exported
<1>9. Rest'
  BY <1>8 DEF IInv, Rest, Exported, history
<1> QED
  BY <1>7, <1>9, QuietStep DEF Exported, history

LEMMA ExportKeeps ==
    ASSUME IInv, NEW p \in Procs,
           \/ ExportPlanned(p)
           \/ \E x \in Exports : ExportRuns(p, x)
           \/ ExportFails(p)
    PROVE  IInv'
<1>1. PICK file \in Files : Exported(p, file)
  BY DEF ExportPlanned, ExportRuns, ExportFails, Files
<1>2. proc[p].at = "export"
  BY DEF ExportPlanned, ExportRuns, ExportFails
<1>3. faults' \in 0 .. MaxFaults
  BY Unspent DEF ExportPlanned, ExportRuns, ExportFails, IInv, Rest
<1> QED
  BY <1>1, <1>2, <1>3, ExportedKeeps

\* The manifest is there before the inventory is marked.
LEMMA WriteManifestKeeps ==
    ASSUME IInv, NEW p \in Procs, WriteManifest(p)
    PROVE  IInv'
<1>1. /\ proc[p].id \in Backups /\ proc[p].manifest \in Manifests
      /\ proc[p].manifest # NoFile
  BY InMemory, NoFileAssumption DEF WriteManifest, AtWork
<1>2. /\ manifests' = [manifests EXCEPT ![proc[p].id] = proc[p].manifest]
      /\ carried' = carried /\ inventory' = inventory /\ copies' = copies
  BY DEF WriteManifest, history
<1>3. /\ manifests' \in [Backups -> Manifests \cup {NoFile}]
      /\ manifests'[proc[p].id] # NoFile
  BY <1>1, <1>2 DEF IInv, Rest
<1>4. Later(manifests, carried, manifests', carried')
  BY <1>1, <1>2 DEF Later, IInv, Rest
<1>5. Running(proc', manifests', carried')
  <2> DEFINE place == IF proc[p].mode = "dry" THEN "refresh" ELSE "mark-backup"
  <2>1. place \in AtWork \cup {"refresh", "idle"} /\ Goes(p, place)
    BY DEF AtWork, WriteManifest
  <2>2. place \notin InLoop /\ place # "mark-restore"
    BY DEF InLoop
  <2> HIDE DEF place
  <2> QED
    BY <1>1, <1>3, <1>4, <2>1, <2>2, GoesIsSane DEF IInv
<1>6. Rest'
  BY <1>3 DEF IInv, Rest, WriteManifest, history
<1> QED
  BY <1>2, <1>4, <1>5, <1>6, FiledLater, CopiedLater DEF IInv

LEMMA ManifestFailsKeeps ==
    ASSUME IInv, NEW p \in Procs, ManifestFails(p)
    PROVE  IInv'
<1>1. Running(proc', manifests, carried)
  BY StopsIsSane DEF IInv, ManifestFails
<1>2. Rest'
  BY Unspent DEF IInv, Rest, ManifestFails, dirs, history
<1> QED
  BY <1>1, <1>2, QuietStep DEF ManifestFails, dirs, history

\* The inventory that is read is true, and so is what is added to it: the
\* backup has its manifest.
LEMMA MarkBackupKeeps ==
    ASSUME IInv, NEW p \in Procs, MarkBackup(p)
    PROVE  IInv'
<1>1. proc[p].id \in Backups /\ manifests[proc[p].id] # NoFile
  BY InMemory DEF MarkBackup, AtWork, Sane
<1>2. ASSUME Goes(p, "refresh")
      PROVE  Running(proc', manifests, carried)
  <2>1. "refresh" \notin AtWork /\ "refresh" \notin InLoop
    BY DEF AtWork, InLoop
  <2> QED
    BY <1>2, <2>1, SameIsLater, GoesIsSane DEF IInv
<1>3. ASSUME inventory # NoFile,
             Saves(p, Inventory(proc[p].id, inventory.restore, inventory.nodes),
                   "refresh")
      PROVE  Running(proc', manifests, carried)
  <2> DEFINE inv == Inventory(proc[p].id, inventory.restore, inventory.nodes)
  <2>1. inventory \in Inventories /\ IsTrueOf(inventory, manifests, carried)
    BY <1>3 DEF IInv, IsFiled
  <2>2. inv \in Inventories
    BY <1>1, <2>1 DEF Inventory, Inventories, Backups
  <2>3. inv.backup = proc[p].id /\ inv.restore = inventory.restore
    BY DEF Inventory
  <2> HIDE DEF inv
  <2>4. IsTrueOf(inv, manifests, carried)
    BY <1>1, <2>1, <2>3 DEF IsTrueOf
  <2>5. Saves(p, inv, "refresh")
    BY <1>3 DEF inv
  <2> QED
    BY <2>2, <2>4, <2>5, SavesIsSane DEF IInv
<1>4. Running(proc', manifests, carried)
  BY <1>2, <1>3 DEF MarkBackup
<1>5. Rest'
  BY DEF IInv, Rest, MarkBackup, dirs, history
<1> QED
  BY <1>4, <1>5, QuietStep DEF MarkBackup, dirs, history

LEMMA RestoreDryRunKeeps ==
    ASSUME IInv, NEW p \in Procs, NEW d \in Backups, RestoreDryRun(p, d)
    PROVE  IInv'
<1>1. PICK place \in {"refresh", "idle"} : Goes(p, place)
  BY DEF RestoreDryRun
<1>2. Running(proc', manifests, carried)
  BY <1>1, SameIsLater, GoesIsSane DEF IInv, AtWork, InLoop
<1>3. reports' \in [Backups -> SUBSET Components] /\ faults' \in 0 .. MaxFaults
  BY Unspent DEF IInv, Rest, RestoreDryRun, Reports
<1>4. Rest'
  BY <1>3, Begun DEF IInv, Rest, RestoreDryRun, history
<1> QED
  BY <1>2, <1>4, QuietStep DEF RestoreDryRun, history

\* The copy that is put back is true.
LEMMA RestoreKeeps ==
    ASSUME IInv, NEW p \in Procs, NEW d \in Backups, NEW m \in AllModes,
           Restore(p, d, m)
    PROVE  IInv'
<1> DEFINE man == manifests[d]
           c == Command("truncate", m, d, man, copies[d], "load", 1, {})
<1>1. man \in Manifests
  BY DEF Restore, Restorable, IInv, Rest
<1>2. /\ {} \in SUBSET Components /\ 1 \in Components /\ 1 \in 1 .. N + 1
      /\ d \in 0 .. MaxBackups
  BY SizeAssumption DEF Components, Backups
<1>3. IsFiled(copies[d], manifests, carried)
  BY DEF IInv, Copied
<1>4. ASSUME copies[d] = NoFile
      PROVE  Running(proc', manifests, carried)
  <2> HIDE DEF man
  <2>1. "load" \in AtWork /\ "load" \notin {"mark-backup", "mark-restore"}
    BY DEF AtWork
  <2>2. Sane(Command("load", m, d, man, Blank, "idle", 1, {}), manifests,
             carried)
    BY <1>1, <1>2, <2>1, WorkIsSane
  <2>3. proc' = [proc EXCEPT ![p] =
                    Command("load", m, d, man, Blank, "idle", 1, {})]
    BY <1>4 DEF Restore, man
  <2> QED
    BY <2>2, <2>3, SameIsLater, OneMoves DEF IInv
<1>5. ASSUME copies[d] # NoFile
      PROVE  Running(proc', manifests, carried)
  <2>1. copies[d] \in Inventories /\ IsTrueOf(copies[d], manifests, carried)
    BY <1>3, <1>5 DEF IsFiled
  <2>2. c \in Commands
    <3>1. "truncate" \in Places /\ "load" \in Places
      BY DEF Places
    <3> HIDE DEF man
    <3> QED
      BY <1>1, <1>2, <2>1, <3>1, CommandIsCommand
  <2>3. /\ c.inv = copies[d] /\ c.then = "load" /\ c.at = "truncate" /\ c.id = d
        /\ c.next = 1
    BY DEF Command
  <2>4. proc' = [proc EXCEPT ![p] = c]
    BY <1>5 DEF Restore
  <2> HIDE DEF c
  <2>5. Sane(c, manifests, carried)
    BY <1>2, <2>1, <2>2, <2>3 DEF Sane
  <2> QED
    BY <2>4, <2>5, SameIsLater, OneMoves DEF IInv
<1>6. Running(proc', manifests, carried)
  BY <1>4, <1>5
<1>7. Rest'
  BY Begun DEF IInv, Rest, Restore, dirs, history
<1> QED
  BY <1>6, <1>7, QuietStep DEF Restore, dirs, history

\* A restore turns to the next component.
LEMMA NextComponentIsSane ==
    ASSUME IInv, NEW p \in Procs, proc[p].at = "load",
           NEW done \in SUBSET Components, NextComponent(p, done)
    PROVE  Running(proc', manifests, carried)
<1> DEFINE place == Loop("load", "report", proc[p].next)
<1>1. /\ proc[p].id \in Backups /\ proc[p].next \in Components
      /\ proc[p].mode \in AllModes /\ proc[p].manifest \in Manifests
  BY InMemory DEF AtWork, InLoop
<1>2. "load" \in InLoop /\ "report" \in {"manifest", "report"}
  BY DEF InLoop
<1>3. /\ place \in AtWork /\ place \notin {"mark-backup", "mark-restore"}
      /\ place \in InLoop => proc[p].next + 1 \in Components
      /\ proc[p].next + 1 \in 1 .. N + 1
  BY <1>1, <1>2, LoopGoes
<1>4. proc' = [proc EXCEPT ![p] =
                  Command(place, proc[p].mode, proc[p].id, proc[p].manifest,
                          Blank, "idle", proc[p].next + 1, done)]
  BY DEF NextComponent
<1> HIDE DEF place
<1>5. Sane(Command(place, proc[p].mode, proc[p].id, proc[p].manifest, Blank,
                   "idle", proc[p].next + 1, done), manifests, carried)
  BY <1>1, <1>3, WorkIsSane
<1> QED
  BY <1>4, <1>5, SameIsLater, OneMoves DEF IInv

LEMMA LoadKeeps ==
    ASSUME IInv, NEW p \in Procs, LoadSkips(p) \/ LoadRuns(p) \/ LoadFails(p)
    PROVE  IInv'
<1>1. proc[p].at = "load"
  BY DEF LoadSkips, LoadRuns, LoadFails
<1>2. proc[p].id \in Backups /\ proc[p].next \in Components
  BY <1>1, InMemory DEF AtWork, InLoop
<1>3. PICK done \in SUBSET Components : NextComponent(p, done)
  <2>1. proc[p].done \in SUBSET Components
    BY InMemory
  <2> QED
    BY <1>2, <2>1 DEF LoadSkips, LoadRuns, LoadFails, AfterFailure
<1>4. Running(proc', manifests, carried)
  BY <1>1, <1>3, NextComponentIsSane
<1>5. ASSUME Takes(proc[p].next, Payload(p))
      PROVE  Loaded(p) \subseteq Backups \X Components \X Exports
  BY <1>2, <1>5 DEF Takes, Loaded, IInv, Rest
<1>6. loaded' \subseteq Backups \X Components \X Exports
  <2>1. CASE LoadSkips(p)
    BY <2>1 DEF LoadSkips, history, IInv, Rest
  <2>2. CASE LoadRuns(p) \/ LoadFails(p)
    BY <1>5, <2>2 DEF LoadRuns, LoadFails, IInv, Rest
  <2> QED
    BY <2>1, <2>2
<1>7. faults' \in 0 .. MaxFaults
  BY Unspent DEF LoadSkips, LoadRuns, LoadFails, IInv, Rest
<1>8. UNCHANGED <<begun, inventory, last, copies, dumps, manifests, reports,
                  carried>>
  BY DEF LoadSkips, LoadRuns, LoadFails, dirs, history
<1>9. Rest'
  BY <1>6, <1>7, <1>8 DEF IInv, Rest
<1> QED
  BY <1>4, <1>8, <1>9, QuietStep

\* The restore counts as carried out before the inventory is marked.
LEMMA WriteReportKeeps ==
    ASSUME IInv, NEW p \in Procs, WriteReport(p)
    PROVE  IInv'
<1>1. proc[p].id \in Backups /\ proc[p].done \in SUBSET Components
  BY InMemory DEF WriteReport, AtWork
<1>2. /\ carried' = carried \cup {proc[p].id} /\ manifests' = manifests
      /\ inventory' = inventory /\ copies' = copies
  BY DEF WriteReport
<1>3. Later(manifests, carried, manifests', carried')
  BY <1>2 DEF Later
<1>4. Running(proc', manifests', carried')
  <2>1. "mark-restore" \in AtWork /\ "mark-restore" \notin InLoop
    BY DEF AtWork, InLoop
  <2>2. Goes(p, "mark-restore") /\ proc[p].id \in carried'
    BY <1>2 DEF WriteReport
  <2> QED
    BY <1>1, <1>3, <2>1, <2>2, GoesIsSane DEF IInv
<1>5. reports' \in [Backups -> SUBSET Components] /\ faults' \in 0 .. MaxFaults
  BY <1>1, Unspent DEF IInv, Rest, WriteReport, Reports
<1>6. Rest'
  BY <1>1, <1>5 DEF IInv, Rest, WriteReport
<1> QED
  BY <1>2, <1>3, <1>4, <1>6, FiledLater, CopiedLater DEF IInv

LEMMA MarkRestoreKeeps ==
    ASSUME IInv, NEW p \in Procs, MarkRestore(p)
    PROVE  IInv'
<1>1. proc[p].id \in Backups /\ proc[p].id \in carried
  BY InMemory DEF MarkRestore, AtWork, Sane
<1>2. PICK then \in {"refresh", "idle"} :
         \/ Goes(p, then)
         \/ /\ inventory # NoFile
            /\ Saves(p,
                     Inventory(inventory.backup, proc[p].id, inventory.nodes),
                     then)
  BY DEF MarkRestore
<1>3. ASSUME Goes(p, then)
      PROVE  Running(proc', manifests, carried)
  BY <1>3, SameIsLater, GoesIsSane DEF IInv, AtWork, InLoop
<1>4. ASSUME inventory # NoFile,
             Saves(p, Inventory(inventory.backup, proc[p].id, inventory.nodes),
                   then)
      PROVE  Running(proc', manifests, carried)
  <2> DEFINE inv == Inventory(inventory.backup, proc[p].id, inventory.nodes)
  <2>1. inventory \in Inventories /\ IsTrueOf(inventory, manifests, carried)
    BY <1>4 DEF IInv, IsFiled
  <2>2. inv \in Inventories
    BY <1>1, <2>1 DEF Inventory, Inventories, Backups
  <2>3. inv.backup = inventory.backup /\ inv.restore = proc[p].id
    BY DEF Inventory
  <2> HIDE DEF inv
  <2>4. IsTrueOf(inv, manifests, carried)
    BY <1>1, <2>1, <2>3 DEF IsTrueOf
  <2>5. Saves(p, inv, then)
    BY <1>4 DEF inv
  <2> QED
    BY <2>2, <2>4, <2>5, SavesIsSane DEF IInv
<1>5. Running(proc', manifests, carried)
  BY <1>2, <1>3, <1>4
<1>6. Rest'
  BY DEF IInv, Rest, MarkRestore, dirs, history
<1> QED
  BY <1>5, <1>6, QuietStep DEF MarkRestore, dirs, history

LEMMA StartRefreshKeeps ==
    ASSUME IInv, NEW p \in Procs, StartRefresh(p)
    PROVE  IInv'
<1>1. Running(proc', manifests, carried)
  BY SameIsLater, GoesIsSane DEF IInv, StartRefresh, AtWork, InLoop
<1>2. Rest'
  BY Begun DEF IInv, Rest, StartRefresh, dirs, history
<1> QED
  BY <1>1, <1>2, QuietStep DEF StartRefresh, dirs, history

LEMMA RefreshKeeps ==
    ASSUME IInv, NEW p \in Procs, Refresh(p)
    PROVE  IInv'
<1>1. ASSUME Stops(p)
      PROVE  Running(proc', manifests, carried)
  BY <1>1, StopsIsSane DEF IInv
<1>2. ASSUME inventory # NoFile, Saves(p, inventory, "idle")
      PROVE  Running(proc', manifests, carried)
  BY <1>2, SavesIsSane DEF IInv, IsFiled
<1>3. Rest'
  BY DEF IInv, Rest, Refresh, dirs, history
<1> QED
  BY <1>1, <1>2, <1>3, QuietStep DEF Refresh, dirs, history

\* An empty file is an inventory that says nothing.
LEMMA TruncateKeeps ==
    ASSUME IInv, NEW p \in Procs, Truncate(p)
    PROVE  IInv'
<1> DEFINE c == Command("write", proc[p].mode, proc[p].id, proc[p].manifest,
                        proc[p].inv, proc[p].then, proc[p].next, proc[p].done)
<1>1. /\ Sane(proc[p], manifests, carried) /\ proc[p] \in Commands
      /\ proc[p].at = "truncate"
  BY InMemory DEF Truncate
<1>2. c \in Commands
  <2>1. /\ proc[p].id \in 0 .. MaxBackups /\ proc[p].then \in Places
        /\ "write" \in Places
    BY <1>1 DEF Commands, Places
  <2> QED
    BY <2>1, InMemory, CommandIsCommand
<1>3. /\ c.inv = proc[p].inv /\ c.then = proc[p].then /\ c.at = "write"
      /\ c.id = proc[p].id /\ c.next = proc[p].next
  BY DEF Command
<1>4. proc' = [proc EXCEPT ![p] = c]
  BY DEF Truncate
<1> HIDE DEF c
<1>5. Sane(c, manifests, carried)
  BY <1>1, <1>2, <1>3 DEF Sane, AtWork, InLoop
<1>6. Running(proc', manifests, carried)
  BY <1>4, <1>5, SameIsLater, OneMoves DEF IInv
<1>7. IsFiled(Blank, manifests, carried)
  BY BlankIsTrue DEF IsFiled
<1>8. Rest'
  BY DEF IInv, Rest, Truncate, dirs, history
<1> QED
  BY <1>6, <1>7, <1>8 DEF IInv, Truncate, dirs, history

\* Where a command goes after its inventory is saved, or is not.
LEMMA ThenIsSane ==
    ASSUME IInv, NEW p \in Procs, Goes(p, proc[p].then)
    PROVE  Running(proc', manifests, carried)
<1>1. /\ proc[p].then \in {"idle", "refresh", "load"}
      /\ proc[p].then = "load" => /\ proc[p].id \in Backups
                                  /\ proc[p].next \in Components
  BY InMemory DEF Sane
<1>2. /\ "load" \in AtWork /\ "load" \notin {"mark-backup", "mark-restore"}
      /\ {"idle", "refresh"} \cap AtWork = {}
      /\ {"idle", "refresh"} \cap InLoop = {}
  BY DEF AtWork, InLoop
<1> QED
  BY <1>1, <1>2, SameIsLater, GoesIsSane DEF IInv

LEMMA WriteKeeps ==
    ASSUME IInv, NEW p \in Procs, Write(p)
    PROVE  IInv'
<1>1. Running(proc', manifests, carried)
  BY ThenIsSane DEF Write
<1>2. IsFiled(proc[p].inv, manifests, carried)
  BY InMemory DEF IsFiled, Sane
<1>3. Rest'
  BY DEF IInv, Rest, Write, dirs, history
<1> QED
  BY <1>1, <1>2, <1>3 DEF IInv, Write, dirs, history

LEMMA SaveFailsKeeps ==
    ASSUME IInv, NEW p \in Procs, SaveFails(p)
    PROVE  IInv'
<1>1. Running(proc', manifests, carried)
  BY ThenIsSane DEF SaveFails
<1>2. Rest'
  BY Unspent DEF IInv, Rest, SaveFails, dirs, history
<1> QED
  BY <1>1, <1>2, QuietStep DEF SaveFails, dirs, history

LEMMA EndKeeps ==
    ASSUME IInv, NEW p \in Procs, Panic(p) \/ Crash(p)
    PROVE  IInv'
<1>1. Running(proc', manifests, carried)
  BY StopsIsSane DEF IInv, Panic, Crash
<1>2. faults' \in 0 .. MaxFaults
  BY Unspent DEF Panic, Crash, IInv, Rest
<1>3. Rest'
  BY <1>2 DEF IInv, Rest, Panic, Crash, dirs, history
<1> QED
  BY <1>1, <1>3, QuietStep DEF Panic, Crash, dirs, history

------------------------------------------------------------------------------
LEMMA InitHolds == Init => IInv
<1> SUFFICES ASSUME Init
             PROVE  IInv
  OBVIOUS
<1>1. Inventory(0, 0, "known") \in Inventories
  BY SizeAssumption DEF Inventory, Inventories
<1>2. IsTrueOf(Inventory(0, 0, "known"), manifests, carried)
  BY DEF Inventory, IsTrueOf
<1>3. IsFiled(inventory, manifests, carried)
  BY <1>1, <1>2 DEF Init, IsFiled
<1>4. Copied(copies, manifests, carried)
  BY DEF Init, Copied, IsFiled
<1>5. Running(proc, manifests, carried)
  <2>1. Sane(Idle, manifests, carried)
    BY BlankIsTrue, PlainIsSane DEF Idle
  <2>2. Idle \in Commands
    BY <2>1 DEF Sane
  <2> QED
    BY <2>1, <2>2 DEF Init, Running
<1>6. Rest
  BY SizeAssumption DEF Init, Rest, Files
<1> QED
  BY <1>3, <1>4, <1>5, <1>6 DEF IInv

LEMMA StepKeeps == IInv /\ [Next]_vars => IInv'
<1> SUFFICES ASSUME IInv, [Next]_vars
             PROVE  IInv'
  OBVIOUS
<1>1. CASE UNCHANGED vars
  BY <1>1 DEF vars, dirs, history, IInv, Rest
<1>2. ASSUME NEW p \in Procs, NEW m \in Modes,
             \/ Backup(p, m, inventory) \/ Backup(p, m, Blank)
             \/ \E d \in Backups : Restore(p, d, m)
      PROVE  IInv'
  <2>1. m \in AllModes
    BY ModesAssumption
  <2> QED
    BY <1>2, <2>1, BackupKeeps, RestoreKeeps
<1>3. ASSUME NEW p \in Procs,
             \/ Plan(p) \/ ExportPlanned(p) \/ ExportFails(p)
             \/ \E x \in Exports : ExportRuns(p, x)
             \/ WriteManifest(p) \/ ManifestFails(p) \/ MarkBackup(p)
      PROVE  IInv'
  BY <1>3, PlanKeeps, ExportKeeps, WriteManifestKeeps, ManifestFailsKeeps,
     MarkBackupKeeps
<1>4. ASSUME NEW p \in Procs,
             \/ \E d \in Backups : RestoreDryRun(p, d)
             \/ LoadSkips(p) \/ LoadRuns(p) \/ LoadFails(p)
             \/ WriteReport(p) \/ MarkRestore(p)
      PROVE  IInv'
  BY <1>4, RestoreDryRunKeeps, LoadKeeps, WriteReportKeeps, MarkRestoreKeeps
<1>5. ASSUME NEW p \in Procs,
             \/ StartRefresh(p) \/ Refresh(p)
             \/ Truncate(p) \/ Write(p) \/ SaveFails(p)
             \/ Panic(p) \/ Crash(p)
      PROVE  IInv'
  BY <1>5, StartRefreshKeeps, RefreshKeeps, TruncateKeeps, WriteKeeps,
     SaveFailsKeeps, EndKeeps
<1> QED
  BY <1>1, <1>2, <1>3, <1>4, <1>5 DEF Next

LEMMA Inductive == Spec => []IInv
BY InitHolds, StepKeeps, PTL DEF Spec

\* The files of backups, what commands keep in memory and the history have
\* their types, whatever the commands, faults and crashes.
THEOREM TypeCorrect == Spec => []TypeOK
<1>1. IInv => TypeOK
  BY DEF IInv, Rest, IsFiled, Copied, Running, TypeOK
<1> QED
  BY <1>1, Inductive, PTL

\* For any number of processes whose commands overlap, fail and die: the backup
\* that inventory.yaml names has a manifest, and the restore it names went
\* through all components (updateInventoryBackup, updateInventoryRestore).
THEOREM MarkersTrue == Spec => []MarkersAreTrue
<1>1. IInv => MarkersAreTrue
  BY DEF IInv, IsFiled, IsTrueOf, MarkersAreTrue, IsTrue
<1> QED
  BY <1>1, Inductive, PTL
------------------------------------------------------------------------------
(* Complete backups and reports.  A backup under way owns its directory: its *)
(* number is its own, and the manifest comes last.  A restore is of a backup *)
(* that has one, so no file it reads changes under it.                       *)

InBackup == {"plan", "export", "manifest"}

\* A backup under way has its number to itself and no manifest yet; what it
\* keeps for the manifest is what the files are.
Backs(c, l, cops, files, mans) ==
    c.at \in InBackup =>
        /\ c.id \in 1 .. l
        /\ mans[c.id] = NoFile
        /\ c.manifest.copy = cops[c.id]
        /\ \A k \in Components :
              (c.at = "export" /\ k < c.next) \/ c.at = "manifest" =>
                  c.manifest.sums[k] = files[<<c.id, k>>]

IsLoaded(d, k, files, lod) ==
    files[<<d, k>>] \in Exports /\ <<d, k, files[<<d, k>>]>> \in lod

InRestore(c) == c.at \in {"load", "report"} \/ c.then = "load"

\* A restore under way is of a complete backup, whose files stay, and what it
\* calls done was loaded.
Restores(c, files, mans, lod) ==
    InRestore(c) =>
        /\ mans[c.id] # NoFile
        /\ \A k \in c.done : IsLoaded(c.id, k, files, lod)

Commanded(cmds, l, cops, files, mans, lod) ==
    /\ \A p \in Procs : Backs(cmds[p], l, cops, files, mans)
    /\ \A p \in Procs : Restores(cmds[p], files, mans, lod)
    /\ \A p, q \in Procs :
          p # q /\ {cmds[p].at, cmds[q].at} \subseteq InBackup => cmds[p].id # cmds[q].id

\* The files of a complete backup, and what reports say of them.
Complete(cops, files, mans) ==
    \A d \in Backups : mans[d] # NoFile =>
        /\ mans[d].copy = cops[d]
        /\ \A k \in Components : mans[d].sums[k] = files[<<d, k>>]

Reported(reps, files, mans, lod) ==
    \A d \in Backups : \A k \in reps[d] : mans[d] # NoFile /\ IsLoaded(d, k, files, lod)

Unstarted(l, mans) == \A d \in Backups : d > l => mans[d] = NoFile

Filed ==
    /\ Commanded(proc, last, copies, dumps, manifests, loaded)
    /\ Complete(copies, dumps, manifests)
    /\ Reported(reports, dumps, manifests, loaded)
    /\ Unstarted(last, manifests)

\* The frame of a step of process p, whose command becomes c: the backup it
\* makes is its own affair, every other one stays as it is.
LEMMA ProcessMoves ==
    ASSUME IInv, Filed, NEW p \in Procs, NEW c, proc' = [proc EXCEPT ![p] = c],
           last' \in Nat, last <= last',
           \A d \in 1 .. last : copies'[d] = copies[d],
           \A d \in Backups :
              \/ proc[p].at \in InBackup /\ d = proc[p].id
              \/ /\ manifests'[d] = manifests[d]
                 /\ \A k \in Components : dumps'[<<d, k>>] = dumps[<<d, k>>],
           loaded \subseteq loaded',
           Backs(c, last', copies', dumps', manifests'),
           Restores(c, dumps', manifests', loaded'),
           c.at \in InBackup => \/ proc[p].at \in InBackup /\ c.id = proc[p].id
                                \/ c.id > last
    PROVE  Commanded(proc', last', copies', dumps', manifests', loaded')
<1>0. last \in Nat /\ p \in DOMAIN proc
  BY DEF IInv, Rest, Running
<1>1. proc'[p] = c /\ \A q \in Procs : q # p => proc'[q] = proc[q]
  BY DEF IInv, Running
<1>2. ASSUME NEW q \in Procs
      PROVE  Backs(proc'[q], last', copies', dumps', manifests')
  <2>1. CASE q = p
    BY <1>1, <2>1
  <2>2. CASE q # p /\ proc[q].at \in InBackup
    <3>1. Backs(proc[q], last, copies, dumps, manifests)
      BY DEF Filed, Commanded
    <3>2. proc[q].id \in Backups /\ proc[q].id \in 1 .. last
      BY <2>2, <3>1, InMemory DEF Backs, InBackup, AtWork
    <3>3. ~(proc[p].at \in InBackup /\ proc[q].id = proc[p].id)
      BY <2>2 DEF Filed, Commanded
    <3>4. /\ manifests'[proc[q].id] = manifests[proc[q].id]
          /\ copies'[proc[q].id] = copies[proc[q].id]
          /\ \A k \in Components : dumps'[<<proc[q].id, k>>] = dumps[<<proc[q].id, k>>]
      BY <3>2, <3>3
    <3>5. proc[q].id \in 1 .. last'
      BY <1>0, <3>2
    <3> QED
      BY <1>1, <2>2, <3>1, <3>4, <3>5 DEF Backs
  <2>3. CASE q # p /\ proc[q].at \notin InBackup
    BY <1>1, <2>3 DEF Backs
  <2> QED
    BY <2>1, <2>2, <2>3
<1>3. ASSUME NEW q \in Procs
      PROVE  Restores(proc'[q], dumps', manifests', loaded')
  <2>1. CASE q = p
    BY <1>1, <2>1
  <2>2. CASE q # p /\ InRestore(proc[q])
    <3>1. Restores(proc[q], dumps, manifests, loaded)
      BY DEF Filed, Commanded
    <3>2. proc[q].id \in Backups /\ proc[q].done \in SUBSET Components
      BY <2>2, InMemory DEF InRestore, Sane, AtWork
    <3>3. ~(proc[p].at \in InBackup /\ proc[q].id = proc[p].id)
      <4>1. manifests[proc[q].id] # NoFile
        BY <2>2, <3>1 DEF Restores
      <4>2. Backs(proc[p], last, copies, dumps, manifests)
        BY DEF Filed, Commanded
      <4> QED
        BY <4>1, <4>2 DEF Backs
    <3>4. /\ manifests'[proc[q].id] = manifests[proc[q].id]
          /\ \A k \in Components : dumps'[<<proc[q].id, k>>] = dumps[<<proc[q].id, k>>]
      BY <3>2, <3>3
    <3> QED
      BY <1>1, <2>2, <3>1, <3>2, <3>4 DEF Restores, IsLoaded
  <2>3. CASE q # p /\ ~InRestore(proc[q])
    BY <1>1, <2>3 DEF Restores
  <2> QED
    BY <2>1, <2>2, <2>3
<1>4. ASSUME NEW q \in Procs, q # p, c.at \in InBackup, proc[q].at \in InBackup
      PROVE  c.id # proc[q].id
  <2>1. Backs(proc[q], last, copies, dumps, manifests)
    BY DEF Filed, Commanded
  <2>2. proc[q].id \in 1 .. last
    BY <1>4, <2>1 DEF Backs
  <2>3. CASE proc[p].at \in InBackup /\ c.id = proc[p].id
    BY <1>4, <2>3 DEF Filed, Commanded
  <2>4. CASE c.id > last
    <3>1. proc[q].id <= last
      BY <1>0, <2>2
    <3>2. ASSUME c.id = proc[q].id PROVE FALSE
      BY <1>0, <2>2, <2>4, <3>1, <3>2
    <3> QED
      BY <3>2
  <2> QED
    BY <1>4, <2>3, <2>4
<1>5. ASSUME NEW q \in Procs, NEW r \in Procs, q # r,
             {proc'[q].at, proc'[r].at} \subseteq InBackup
      PROVE  proc'[q].id # proc'[r].id
  <2>1. CASE q = p
    BY <1>1, <1>4, <1>5, <2>1
  <2>2. CASE r = p
    BY <1>1, <1>4, <1>5, <2>2
  <2>3. CASE q # p /\ r # p
    BY <1>1, <1>5, <2>3 DEF Filed, Commanded
  <2> QED
    BY <2>1, <2>2, <2>3
<1> QED
  BY <1>2, <1>3, <1>5 DEF Commanded

\* A step that leaves the directories of backups alone, but for what a report
\* takes from the command that writes it.
LEMMA DirectoriesStay ==
    ASSUME IInv, Filed, NEW p \in Procs, NEW c, proc' = [proc EXCEPT ![p] = c],
           UNCHANGED <<last, copies, dumps, manifests>>, loaded \subseteq loaded',
           \A d \in Backups : \/ reports'[d] \subseteq reports[d]
                              \/ /\ InRestore(proc[p]) /\ d = proc[p].id
                                 /\ reports'[d] \subseteq proc[p].done,
           Backs(c, last, copies, dumps, manifests),
           Restores(c, dumps, manifests, loaded'),
           c.at \in InBackup => proc[p].at \in InBackup /\ c.id = proc[p].id
    PROVE  Filed'
<1>1. last \in Nat
  BY DEF IInv, Rest
<1>2. Commanded(proc', last', copies', dumps', manifests', loaded')
  <2>1. last' = last /\ copies' = copies /\ dumps' = dumps /\ manifests' = manifests
    OBVIOUS
  <2>2. last' \in Nat /\ last <= last'
    BY <1>1, <2>1
  <2>3. /\ Backs(c, last', copies', dumps', manifests')
        /\ Restores(c, dumps', manifests', loaded')
    BY <2>1
  <2> QED
    BY <2>1, <2>2, <2>3, ProcessMoves
<1>3. Complete(copies', dumps', manifests') /\ Unstarted(last', manifests')
  BY DEF Filed
<1>4. ASSUME NEW d \in Backups, NEW k \in reports'[d]
      PROVE  manifests'[d] # NoFile /\ IsLoaded(d, k, dumps', loaded')
  <2>1. CASE k \in reports[d]
    <3>1. manifests[d] # NoFile /\ IsLoaded(d, k, dumps, loaded)
      BY <2>1 DEF Filed, Reported
    <3> QED
      BY <3>1 DEF IsLoaded
  <2>2. CASE InRestore(proc[p]) /\ d = proc[p].id /\ k \in proc[p].done
    <3>1. Restores(proc[p], dumps, manifests, loaded)
      BY DEF Filed, Commanded
    <3>2. manifests[d] # NoFile /\ IsLoaded(d, k, dumps, loaded)
      BY <2>2, <3>1 DEF Restores
    <3> QED
      BY <3>2 DEF IsLoaded
  <2> QED
    BY <1>4, <2>1, <2>2
<1>5. Reported(reports', dumps', manifests', loaded')
  BY <1>4 DEF Reported
<1> QED
  BY <1>2, <1>3, <1>5 DEF Filed

\* A command that neither makes nor restores a backup.
LEMMA NoBackup ==
    ASSUME NEW c, NEW l, NEW cops, NEW files, NEW mans, NEW lod,
           c.at \notin InBackup, ~InRestore(c)
    PROVE  /\ Backs(c, l, cops, files, mans)
           /\ Restores(c, files, mans, lod)
BY DEF Backs, Restores

LEMMA PlainIsNoBackup ==
    ASSUME NEW place, place \in {"idle", "refresh", "truncate"},
           NEW inv, NEW then, then \in {"idle", "refresh"}
    PROVE  Plain(place, inv, then).at \notin InBackup /\ ~InRestore(Plain(place, inv, then))
BY DEF Plain, Command, InBackup, InRestore
\* A command that ends, turns to the refresh or saves an inventory.
EndsCommand(p) ==
    \/ Stops(p)
    \/ \E place \in {"refresh", "idle", "mark-backup", "mark-restore"} : Goes(p, place)
    \/ \E inv : \E then \in {"idle", "refresh"} : Saves(p, inv, then)

LEMMA EndsWith ==
    ASSUME NEW p \in Procs, EndsCommand(p)
    PROVE  \E c : /\ proc' = [proc EXCEPT ![p] = c]
                 /\ c.at \notin InBackup /\ ~InRestore(c)
<1>1. CASE Stops(p)
  BY <1>1, PlainIsNoBackup DEF Stops, Idle
<1>2. ASSUME NEW place \in {"refresh", "idle"}, Goes(p, place)
      PROVE  \E c : proc' = [proc EXCEPT ![p] = c]
                    /\ c.at \notin InBackup /\ ~InRestore(c)
  <2>1. proc' = [proc EXCEPT ![p] = Plain(place, Blank, "idle")]
    BY <1>2 DEF Goes
  <2> QED
    BY <2>1, PlainIsNoBackup
<1>3. ASSUME NEW place \in {"mark-backup", "mark-restore"}, Goes(p, place)
      PROVE  \E c : proc' = [proc EXCEPT ![p] = c]
                    /\ c.at \notin InBackup /\ ~InRestore(c)
  <2> DEFINE c == Command(place, proc[p].mode, proc[p].id, proc[p].manifest, Blank,
                          "idle", proc[p].next, proc[p].done)
  <2>1. proc' = [proc EXCEPT ![p] = c]
    BY <1>3 DEF Goes
  <2>2. c.at = place /\ c.then = "idle"
    BY DEF Command
  <2> HIDE DEF c
  <2>3. c.at \notin InBackup /\ ~InRestore(c)
    BY <2>2 DEF InBackup, InRestore
  <2> QED
    BY <2>1, <2>3
<1>4. ASSUME NEW inv, NEW then \in {"idle", "refresh"}, Saves(p, inv, then)
      PROVE  \E c : proc' = [proc EXCEPT ![p] = c]
                    /\ c.at \notin InBackup /\ ~InRestore(c)
  BY <1>4, PlainIsNoBackup DEF Saves
<1> QED
  BY <1>1, <1>2, <1>3, <1>4 DEF EndsCommand

LEMMA Ends ==
    ASSUME IInv, Filed, NEW p \in Procs,
           UNCHANGED <<last, copies, dumps, manifests>>, loaded \subseteq loaded',
           \A d \in Backups : \/ reports'[d] \subseteq reports[d]
                              \/ /\ InRestore(proc[p]) /\ d = proc[p].id
                                 /\ reports'[d] \subseteq proc[p].done,
           EndsCommand(p)
    PROVE  Filed'
<1>1. PICK c : /\ proc' = [proc EXCEPT ![p] = c]
               /\ c.at \notin InBackup /\ ~InRestore(c)
  BY EndsWith
<1> QED
  BY <1>1, NoBackup, DirectoriesStay

\* A command that goes on with its restore.
LEMMA RestoreGoesOn ==
    ASSUME IInv, Filed, NEW p \in Procs,
           UNCHANGED <<last, copies, dumps, manifests, reports>>,
           loaded \subseteq loaded',
           NEW c, proc' = [proc EXCEPT ![p] = c], c.at \notin InBackup,
           InRestore(c) => /\ InRestore(proc[p]) /\ c.id = proc[p].id
                           /\ \A k \in c.done : k \in proc[p].done
                                   \/ IsLoaded(proc[p].id, k, dumps, loaded')
    PROVE  Filed'
<1>1. Restores(proc[p], dumps, manifests, loaded)
  BY DEF Filed, Commanded
<1>2. Backs(c, last, copies, dumps, manifests)
  BY DEF Backs
<1>3. Restores(c, dumps, manifests, loaded')
  BY <1>1 DEF Restores, IsLoaded
<1> QED
  BY <1>2, <1>3, DirectoriesStay

LEMMA BackupFiles ==
    ASSUME IInv, Filed, NEW p \in Procs, NEW m \in AllModes, NEW copy, Backup(p, m, copy)
    PROVE  Filed'
<1> DEFINE man == Manifest(copy, NoSums.sums, "unknown")
           c == Command("plan", m, last + 1, man, Blank, "idle", 1, {})
<1>1. /\ proc' = [proc EXCEPT ![p] = c] /\ last' = last + 1
      /\ copies' = [copies EXCEPT ![last + 1] = copy]
      /\ dumps' = dumps /\ manifests' = manifests /\ loaded' = loaded
      /\ reports' = reports
  BY DEF Backup, history
<1>2. last \in Nat /\ last + 1 \in Backups
  BY SizeAssumption DEF IInv, Rest, Backup, Backups
<1>3. /\ c.at = "plan" /\ c.then = "idle" /\ c.id = last + 1
      /\ c.manifest.copy = copy
  BY DEF Command, Manifest
<1> HIDE DEF c
<1>4. copies'[last + 1] = copy /\ \A d \in 1 .. last : copies'[d] = copies[d]
  <2>1. copies \in [Backups -> Inventories \cup {NoFile}]
    BY DEF IInv, Copied
  <2>2. \A d \in 1 .. last : d # last + 1 /\ d \in Backups
    BY <1>2, SizeAssumption DEF Backups
  <2> QED
    BY <1>1, <1>2, <2>1, <2>2
<1>5. manifests[last + 1] = NoFile
  BY <1>2 DEF Filed, Unstarted
<1>6. Backs(c, last', copies', dumps', manifests')
  <2>1. last + 1 \in 1 .. last'
    BY <1>1, <1>2
  <2> QED
    BY <1>1, <1>3, <1>4, <1>5, <2>1 DEF Backs
<1>7. Restores(c, dumps', manifests', loaded')
  BY <1>3 DEF Restores, InRestore
<1>8. c.id > last /\ last' \in Nat /\ last <= last'
  BY <1>1, <1>2, <1>3
<1>9. Commanded(proc', last', copies', dumps', manifests', loaded')
  BY <1>1, <1>4, <1>6, <1>7, <1>8, ProcessMoves
<1>10. Unstarted(last', manifests')
  <2>1. \A d \in Backups : d > last' => d > last
    BY <1>1, <1>2 DEF Backups
  <2> QED
    BY <1>1, <2>1 DEF Filed, Unstarted
<1>11. Complete(copies', dumps', manifests')
  <2>1. \A d \in Backups : manifests[d] # NoFile => d \in 1 .. last
    BY <1>2 DEF Filed, Unstarted, Backups
  <2> QED
    BY <1>1, <1>4, <2>1 DEF Filed, Complete
<1>12. Reported(reports', dumps', manifests', loaded')
  BY <1>1 DEF Filed
<1> QED
  BY <1>9, <1>10, <1>11, <1>12 DEF Filed

LEMMA PlanFiles ==
    ASSUME IInv, Filed, NEW p \in Procs, Plan(p)
    PROVE  Filed'
<1> DEFINE man == Manifest(proc[p].manifest.copy, proc[p].manifest.sums,
                           NodesIn(inventory))
           c == Command("export", proc[p].mode, proc[p].id, man, Blank, "idle", 1, {})
<1>1. proc' = [proc EXCEPT ![p] = c] /\ proc[p].at = "plan"
      /\ UNCHANGED <<last, copies, dumps, manifests, loaded, reports>>
  BY DEF Plan, dirs, history
<1>2. /\ c.at = "export" /\ c.then = "idle" /\ c.id = proc[p].id /\ c.next = 1
      /\ c.manifest.copy = proc[p].manifest.copy
  BY DEF Command, Manifest
<1> HIDE DEF c
<1>3. Backs(proc[p], last, copies, dumps, manifests)
  BY DEF Filed, Commanded
<1>4. proc[p].at \in InBackup /\ c.at \in InBackup
  BY <1>1, <1>2 DEF InBackup
<1>5. \A k \in Components : ~(k < 1)
  BY SizeAssumption DEF Components
<1>6. Backs(c, last, copies, dumps, manifests)
  BY <1>2, <1>3, <1>4, <1>5 DEF Backs
<1>7. Restores(c, dumps, manifests, loaded')
  BY <1>2 DEF Restores, InRestore
<1> QED
  BY <1>1, <1>2, <1>4, <1>6, <1>7, DirectoriesStay

\* addFile reads what was written, so the manifest in memory keeps up with the
\* files.
LEMMA ExportedFiles ==
    ASSUME IInv, Filed, NEW p \in Procs, proc[p].at = "export", NEW file \in Files,
           Exported(p, file)
    PROVE  Filed'
<1> DEFINE d == proc[p].id
           here == proc[p].next
           sums == [proc[p].manifest.sums EXCEPT ![here] = Checksum(file)]
           man == Manifest(proc[p].manifest.copy, sums, proc[p].manifest.nodes)
           place == Loop("export", "manifest", here)
           c == Command(place, proc[p].mode, d, man, Blank, "idle", here + 1, {})
<1>1. /\ proc' = [proc EXCEPT ![p] = c]
      /\ dumps' = [dumps EXCEPT ![<<d, here>>] = file]
      /\ last' = last /\ copies' = copies /\ manifests' = manifests
      /\ loaded' = loaded /\ reports' = reports
  BY DEF Exported, history
<1>2. d \in Backups /\ here \in Components /\ proc[p].at \in InBackup
  BY InMemory DEF AtWork, InLoop, InBackup
<1>3. dumps \in [Backups \X Components -> Files] /\ last \in Nat
  BY DEF IInv, Rest
<1>4. /\ dumps'[<<d, here>>] = file
      /\ \A e \in Backups, k \in Components :
            e # d \/ k # here => dumps'[<<e, k>>] = dumps[<<e, k>>]
  BY <1>1, <1>2, <1>3
<1>5. /\ sums[here] = file
      /\ \A k \in Components : k # here => sums[k] = proc[p].manifest.sums[k]
  <2>1. proc[p].manifest.sums \in [Components -> Files]
    BY InMemory DEF Manifests
  <2> QED
    BY <1>2, <2>1 DEF Checksum
<1> HIDE DEF sums
<1>6. /\ c.at = place /\ c.then = "idle" /\ c.id = d /\ c.next = here + 1
      /\ c.manifest.copy = proc[p].manifest.copy /\ c.manifest.sums = sums
  BY DEF Command, Manifest
<1>7. place \in {"export", "manifest"} /\ (place = "manifest" => here = N)
  BY DEF Loop
<1> HIDE DEF c, place
<1>8. Backs(proc[p], last, copies, dumps, manifests)
  BY DEF Filed, Commanded
<1>9. ASSUME NEW k \in Components, (place = "export" /\ k < here + 1) \/ place = "manifest"
      PROVE  sums[k] = dumps'[<<d, k>>]
  <2>1. CASE k = here
    BY <1>4, <1>5, <2>1
  <2>2. CASE k # here
    <3>1. k < here
      BY <1>2, <1>7, <1>9, <2>2, SizeAssumption DEF Components
    <3>2. proc[p].manifest.sums[k] = dumps[<<d, k>>]
      BY <1>2, <1>8, <3>1 DEF Backs
    <3> QED
      BY <1>2, <1>4, <1>5, <2>2, <3>2
  <2> QED
    BY <2>1, <2>2
<1>10. Backs(c, last', copies', dumps', manifests')
  BY <1>1, <1>2, <1>6, <1>8, <1>9 DEF Backs
<1>11. Restores(c, dumps', manifests', loaded')
  BY <1>6, <1>7 DEF Restores, InRestore
<1>12. Commanded(proc', last', copies', dumps', manifests', loaded')
  <2>1. last' \in Nat /\ last <= last'
    BY <1>1, <1>3
  <2>2. \A e \in Backups :
              \/ proc[p].at \in InBackup /\ e = proc[p].id
              \/ /\ manifests'[e] = manifests[e]
                 /\ \A k \in Components : dumps'[<<e, k>>] = dumps[<<e, k>>]
    BY <1>1, <1>2, <1>4
  <2> QED
    BY <1>1, <1>2, <1>6, <1>10, <1>11, <2>1, <2>2, ProcessMoves
<1>13. \A e \in Backups : manifests[e] # NoFile => e # d
  BY <1>2, <1>8 DEF Backs
<1>14. Complete(copies', dumps', manifests')
  BY <1>1, <1>4, <1>13 DEF Filed, Complete
<1>15. Reported(reports', dumps', manifests', loaded')
  <2>1. reports \in [Backups -> SUBSET Components]
    BY DEF IInv, Rest
  <2>2. ASSUME NEW e \in Backups, NEW k \in reports[e]
        PROVE  manifests[e] # NoFile /\ IsLoaded(e, k, dumps', loaded)
    <3>1. manifests[e] # NoFile /\ IsLoaded(e, k, dumps, loaded)
      BY DEF Filed, Reported
    <3>2. dumps'[<<e, k>>] = dumps[<<e, k>>]
      BY <1>4, <1>13, <2>1, <3>1
    <3> QED
      BY <3>1, <3>2 DEF IsLoaded
  <2> QED
    BY <1>1, <2>2 DEF Reported
<1> QED
  BY <1>1, <1>12, <1>14, <1>15 DEF Filed
LEMMA ExportFiles ==
    ASSUME IInv, Filed, NEW p \in Procs,
           \/ ExportPlanned(p)
           \/ \E x \in Exports : ExportRuns(p, x)
           \/ ExportFails(p)
    PROVE  Filed'
<1>1. PICK file \in Files : Exported(p, file)
  BY DEF ExportPlanned, ExportRuns, ExportFails, Files
<1>2. proc[p].at = "export"
  BY DEF ExportPlanned, ExportRuns, ExportFails
<1> QED
  BY <1>1, <1>2, ExportedFiles

\* The manifest comes last: by then it has the checksum of every file.
LEMMA WriteManifestFiles ==
    ASSUME IInv, Filed, NEW p \in Procs, WriteManifest(p)
    PROVE  Filed'
<1> DEFINE d == proc[p].id
<1>1. /\ d \in Backups /\ d \in 1 .. last /\ proc[p].at \in InBackup
      /\ proc[p].manifest \in Manifests
      /\ proc[p].manifest.copy = copies[d]
      /\ \A k \in Components : proc[p].manifest.sums[k] = dumps[<<d, k>>]
      /\ manifests[d] = NoFile
  <2>1. proc[p].at = "manifest" /\ "manifest" \in InBackup /\ "manifest" \in AtWork
    BY DEF WriteManifest, InBackup, AtWork
  <2>2. Backs(proc[p], last, copies, dumps, manifests)
    BY DEF Filed, Commanded
  <2> QED
    BY <2>1, <2>2, InMemory DEF Backs
<1>2. /\ manifests' = [manifests EXCEPT ![d] = proc[p].manifest]
      /\ last' = last /\ copies' = copies /\ dumps' = dumps
      /\ loaded' = loaded /\ reports' = reports
  BY DEF WriteManifest, history
<1>3. /\ manifests'[d] = proc[p].manifest
      /\ \A e \in Backups : e # d => manifests'[e] = manifests[e]
  BY <1>1, <1>2 DEF IInv, Rest
<1>4. PICK c : /\ proc' = [proc EXCEPT ![p] = c]
               /\ c.at \notin InBackup /\ ~InRestore(c)
  <2>1. \E place \in {"refresh", "idle", "mark-backup", "mark-restore"} : Goes(p, place)
    BY DEF WriteManifest
  <2> QED
    BY <2>1, EndsWith DEF EndsCommand
<1>5. Commanded(proc', last', copies', dumps', manifests', loaded')
  <2>1. last' \in Nat /\ last <= last'
    BY <1>2 DEF IInv, Rest
  <2>2. /\ Backs(c, last', copies', dumps', manifests')
        /\ Restores(c, dumps', manifests', loaded')
    BY <1>4, NoBackup
  <2> QED
    BY <1>1, <1>2, <1>3, <1>4, <2>1, <2>2, ProcessMoves
<1>6. Complete(copies', dumps', manifests')
  <2> SUFFICES ASSUME NEW e \in Backups, manifests'[e] # NoFile
               PROVE  /\ manifests'[e].copy = copies'[e]
                      /\ \A k \in Components : manifests'[e].sums[k] = dumps'[<<e, k>>]
    BY DEF Complete
  <2>1. CASE e = d
    BY <1>1, <1>2, <1>3, <2>1
  <2>2. CASE e # d
    BY <1>2, <1>3, <2>2 DEF Filed, Complete
  <2> QED
    BY <2>1, <2>2
<1>7. Reported(reports', dumps', manifests', loaded')
  BY <1>1, <1>2, <1>3 DEF Filed, Reported
<1>8. Unstarted(last', manifests')
  <2>1. \A e \in Backups : e > last => e # d
    BY <1>1 DEF IInv, Rest
  <2> QED
    BY <1>2, <1>3, <2>1 DEF Filed, Unstarted
<1> QED
  BY <1>5, <1>6, <1>7, <1>8 DEF Filed

\* The steps that leave backups and reports alone, and end a command or hand it
\* on to the inventory.
LEMMA QuietFiles ==
    ASSUME IInv, Filed, NEW p \in Procs,
           \/ ManifestFails(p) \/ MarkBackup(p) \/ MarkRestore(p)
           \/ StartRefresh(p) \/ Refresh(p) \/ Panic(p) \/ Crash(p)
    PROVE  Filed'
<1>1. UNCHANGED <<last, copies, dumps, manifests, reports, loaded>>
  BY Zenon DEF ManifestFails, MarkBackup, MarkRestore, StartRefresh, Refresh, Panic, Crash,
         dirs, history
<1>2. EndsCommand(p)
  <2>0. /\ \A place \in {"refresh", "idle"} : Goes(p, place) => EndsCommand(p)
        /\ \A inv : \A then \in {"refresh", "idle"} : Saves(p, inv, then) => EndsCommand(p)
    <3>1. ASSUME NEW place \in {"refresh", "idle"}, Goes(p, place)
          PROVE  EndsCommand(p)
      BY <3>1 DEF EndsCommand
    <3>2. ASSUME NEW inv, NEW then \in {"refresh", "idle"}, Saves(p, inv, then)
          PROVE  EndsCommand(p)
      <4>1. then \in {"idle", "refresh"}
        OBVIOUS
      <4> QED
        BY <3>2, <4>1, Zenon DEF EndsCommand
    <3> QED
      BY <3>1, <3>2
  <2>1. CASE MarkBackup(p) \/ MarkRestore(p)
    <3>1. CASE MarkBackup(p)
      BY <2>0, <3>1 DEF MarkBackup
    <3>2. CASE MarkRestore(p)
      BY <2>0, <3>2 DEF MarkRestore
    <3> QED
      BY <2>1, <3>1, <3>2
  <2>2. CASE StartRefresh(p) \/ Refresh(p)
    BY <2>0, <2>2 DEF EndsCommand, StartRefresh, Refresh
  <2>3. CASE ManifestFails(p) \/ Panic(p) \/ Crash(p)
    BY <2>3, Zenon DEF EndsCommand, ManifestFails, Panic, Crash
  <2> QED
    BY <2>1, <2>2, <2>3
<1> QED
  BY <1>1, <1>2, Ends

\* A report says what the restore that writes it has done, or nothing.
LEMMA ReportFiles ==
    ASSUME IInv, Filed, NEW p \in Procs,
           WriteReport(p) \/ \E d \in Backups : RestoreDryRun(p, d)
    PROVE  Filed'
<1>1. UNCHANGED <<last, copies, dumps, manifests, loaded>>
  BY DEF WriteReport, RestoreDryRun, history
<1>2. EndsCommand(p)
  BY DEF EndsCommand, WriteReport, RestoreDryRun
<1>3. reports \in [Backups -> SUBSET Components]
  BY DEF IInv, Rest
<1>4. \A d \in Backups : \/ reports'[d] \subseteq reports[d]
                         \/ /\ InRestore(proc[p]) /\ d = proc[p].id
                            /\ reports'[d] \subseteq proc[p].done
  <2>1. CASE WriteReport(p)
    <3>1. InRestore(proc[p]) /\ proc[p].id \in Backups
      BY <2>1, InMemory DEF WriteReport, InRestore, AtWork
    <3> QED
      BY <1>3, <2>1, <3>1 DEF WriteReport, Reports
  <2>2. ASSUME NEW e \in Backups, RestoreDryRun(p, e)
        PROVE  \A d \in Backups : reports'[d] \subseteq reports[d]
    BY <1>3, <2>2 DEF RestoreDryRun, Reports
  <2> QED
    BY <2>1, <2>2
<1> QED
  BY <1>1, <1>2, <1>4, Ends

\* A restore begins with a complete backup.
LEMMA RestoreFiles ==
    ASSUME IInv, Filed, NEW p \in Procs, NEW d \in Backups, NEW m, Restore(p, d, m)
    PROVE  Filed'
<1>1. manifests[d] # NoFile
  BY DEF Restore, Restorable
<1>2. PICK c : /\ proc' = [proc EXCEPT ![p] = c]
               /\ c.at \in {"load", "truncate"} /\ c.id = d /\ c.done = {}
  <2> DEFINE c1 == Command("load", m, d, manifests[d], Blank, "idle", 1, {})
             c2 == Command("truncate", m, d, manifests[d], copies[d], "load", 1, {})
  <2>1. proc' = [proc EXCEPT ![p] = c1] \/ proc' = [proc EXCEPT ![p] = c2]
    BY DEF Restore
  <2>2. /\ c1.at = "load" /\ c1.id = d /\ c1.done = {}
        /\ c2.at = "truncate" /\ c2.id = d /\ c2.done = {}
    BY DEF Command
  <2> HIDE DEF c1, c2
  <2> QED
    BY <2>1, <2>2
<1>3. UNCHANGED <<last, copies, dumps, manifests, reports, loaded>>
  BY DEF Restore, dirs, history
<1>4. Backs(c, last, copies, dumps, manifests) /\ c.at \notin InBackup
  BY <1>2 DEF Backs, InBackup
<1>5. Restores(c, dumps, manifests, loaded')
  BY <1>1, <1>2 DEF Restores
<1> QED
  BY <1>2, <1>3, <1>4, <1>5, DirectoriesStay

\* A component counts as restored when its own export was loaded.
LEMMA LoadFiles ==
    ASSUME IInv, Filed, NEW p \in Procs, LoadSkips(p) \/ LoadRuns(p) \/ LoadFails(p)
    PROVE  Filed'
<1>1. UNCHANGED <<last, copies, dumps, manifests, reports>> /\ loaded \subseteq loaded'
  BY DEF LoadSkips, LoadRuns, LoadFails, Loaded, dirs, history
<1>2. InRestore(proc[p])
  BY DEF LoadSkips, LoadRuns, LoadFails, InRestore
<1>3. PICK done : /\ NextComponent(p, done)
                  /\ \A k \in done : k \in proc[p].done
                                     \/ IsLoaded(proc[p].id, k, dumps, loaded')
  <2>1. CASE LoadSkips(p) \/ LoadFails(p)
    BY <2>1 DEF LoadSkips, LoadFails, AfterFailure
  <2>2. CASE LoadRuns(p)
    <3>1. IsLoaded(proc[p].id, proc[p].next, dumps, loaded')
      BY <2>2 DEF LoadRuns, Takes, Loaded, Payload, IsLoaded
    <3> QED
      BY <2>2, <3>1 DEF LoadRuns
  <2> QED
    BY <2>1, <2>2
<1> DEFINE c == Command(Loop("load", "report", proc[p].next), proc[p].mode, proc[p].id,
                        proc[p].manifest, Blank, "idle", proc[p].next + 1, done)
<1>4. proc' = [proc EXCEPT ![p] = c]
  BY <1>3 DEF NextComponent
<1>5. c.at \in {"load", "report"} /\ c.id = proc[p].id /\ c.done = done
  BY DEF Command, Loop
<1> HIDE DEF c
<1>6. c.at \notin InBackup
  BY <1>5 DEF InBackup
<1> QED
  BY <1>1, <1>2, <1>3, <1>4, <1>5, <1>6, RestoreGoesOn

\* A restore goes on after the inventory is put back, or is not.
LEMMA SaveFiles ==
    ASSUME IInv, Filed, NEW p \in Procs, Truncate(p) \/ Write(p) \/ SaveFails(p)
    PROVE  Filed'
<1>1. UNCHANGED <<last, copies, dumps, manifests, reports, loaded>>
  BY DEF Truncate, Write, SaveFails, dirs, history
<1>2. proc[p].then \in {"idle", "refresh", "load"}
  BY InMemory DEF Sane
<1>3. CASE Truncate(p)
  <2> DEFINE c == Command("write", proc[p].mode, proc[p].id, proc[p].manifest,
                          proc[p].inv, proc[p].then, proc[p].next, proc[p].done)
  <2>1. proc' = [proc EXCEPT ![p] = c]
    BY <1>3 DEF Truncate
  <2>2. /\ c.at = "write" /\ c.then = proc[p].then /\ c.id = proc[p].id
        /\ c.done = proc[p].done
    BY DEF Command
  <2> HIDE DEF c
  <2>3. c.at \notin InBackup /\ (InRestore(c) => InRestore(proc[p]))
    BY <2>2 DEF InBackup, InRestore
  <2> QED
    BY <1>1, <2>1, <2>2, <2>3, RestoreGoesOn
<1>4. CASE Goes(p, proc[p].then) /\ proc[p].then # "load"
  BY <1>1, <1>2, <1>4, Ends DEF EndsCommand
<1>5. CASE Goes(p, "load") /\ proc[p].then = "load"
  <2> DEFINE c == Command("load", proc[p].mode, proc[p].id, proc[p].manifest, Blank,
                          "idle", proc[p].next, proc[p].done)
  <2>1. proc' = [proc EXCEPT ![p] = c]
    BY <1>5 DEF Goes
  <2>2. c.at = "load" /\ c.id = proc[p].id /\ c.done = proc[p].done
    BY DEF Command
  <2> HIDE DEF c
  <2>3. c.at \notin InBackup /\ InRestore(proc[p])
    BY <1>5, <2>2 DEF InBackup, InRestore
  <2> QED
    BY <1>1, <2>1, <2>2, <2>3, RestoreGoesOn
<1> QED
  BY <1>3, <1>4, <1>5 DEF Write, SaveFails

LEMMA FiledStep == IInv /\ Filed /\ [Next]_vars => Filed'
<1> SUFFICES ASSUME IInv, Filed, [Next]_vars
             PROVE  Filed'
  OBVIOUS
<1>1. CASE UNCHANGED vars
  BY <1>1 DEF vars, dirs, history, Filed
<1>2. ASSUME NEW p \in Procs, NEW m \in Modes,
             \/ Backup(p, m, inventory) \/ Backup(p, m, Blank)
             \/ \E d \in Backups : Restore(p, d, m)
      PROVE  Filed'
  <2>1. m \in AllModes
    BY ModesAssumption
  <2> QED
    BY <1>2, <2>1, BackupFiles, RestoreFiles
<1>3. ASSUME NEW p \in Procs,
             \/ Plan(p) \/ ExportPlanned(p) \/ ExportFails(p)
             \/ \E x \in Exports : ExportRuns(p, x)
             \/ WriteManifest(p)
      PROVE  Filed'
  BY <1>3, PlanFiles, ExportFiles, WriteManifestFiles
<1>4. ASSUME NEW p \in Procs,
             \/ \E d \in Backups : RestoreDryRun(p, d)
             \/ LoadSkips(p) \/ LoadRuns(p) \/ LoadFails(p) \/ WriteReport(p)
      PROVE  Filed'
  BY <1>4, ReportFiles, LoadFiles
<1>5. ASSUME NEW p \in Procs,
             \/ ManifestFails(p) \/ MarkBackup(p) \/ MarkRestore(p)
             \/ StartRefresh(p) \/ Refresh(p) \/ Panic(p) \/ Crash(p)
      PROVE  Filed'
  BY <1>5, QuietFiles
<1>6. ASSUME NEW p \in Procs, Truncate(p) \/ Write(p) \/ SaveFails(p)
      PROVE  Filed'
  BY <1>6, SaveFiles
<1> QED
  BY <1>1, <1>2, <1>3, <1>4, <1>5, <1>6 DEF Next

LEMMA InitFiled == Init => Filed
<1> SUFFICES ASSUME Init PROVE Filed
  OBVIOUS
<1>1. Idle.at \notin InBackup /\ ~InRestore(Idle)
  BY PlainIsNoBackup DEF Idle
<1>2. Commanded(proc, last, copies, dumps, manifests, loaded)
  BY <1>1, NoBackup DEF Init, Commanded
<1> QED
  BY <1>2 DEF Init, Filed, Complete, Reported, Unstarted

LEMMA FiledInductive == Spec => []Filed
<1>1. Init => IInv /\ Filed
  BY InitHolds, InitFiled
<1>2. IInv /\ Filed /\ [Next]_vars => (IInv /\ Filed)'
  BY StepKeeps, FiledStep
<1> QED
  BY <1>1, <1>2, PTL DEF Spec

\* For any number of backups that overlap, fail and die: one that has a manifest
\* passes the checksums a restore asks for.
THEOREM CompleteRestorable == Spec => []CompleteIsRestorable
<1>1. Filed => CompleteIsRestorable
  BY DEF Filed, Complete, CompleteIsRestorable, Restorable, Verify
<1> QED
  BY <1>1, FiledInductive, PTL

\* A restore report names only components that were loaded with their own
\* export of that backup, whatever else was written, failed or ran beside it.
THEOREM ReportsTrue == Spec => []ReportsAreTrue
<1>1. Filed => ReportsAreTrue
  BY DEF Filed, Reported, IsLoaded, ReportsAreTrue
<1> QED
  BY <1>1, FiledInductive, PTL
==============================================================================
