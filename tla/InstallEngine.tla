---------------------------- MODULE InstallEngine ----------------------------
(***************************************************************************)
(* The install engine of the StackForge CLI: install.Run                   *)
(* (src/internal/stackforge/install/install.go) with the two files it      *)
(* leaves in the cluster's state directory, install-report.json and        *)
(* inventory.yaml, the rollback records it saves, and the nodes its        *)
(* commands change.                                                        *)
(*                                                                         *)
(* A run builds a plan (an ordered list of steps), then checks, applies    *)
(* and verifies one step after another.  It stops at the first failure;    *)
(* the operator repairs and starts another run, with --resume to skip what *)
(* the report of the previous run calls done.  The process may be killed   *)
(* between any two of its own steps and its writes may be lost.            *)
(*                                                                         *)
(* Steps are numbered in plan order; step N is "local:reports", the last   *)
(* step of every plan.                                                     *)
(***************************************************************************)
EXTENDS Integers

CONSTANTS
    N,            \* number of steps of the longest plan
    Probe,        \* steps that only look: "<node>:ssh" and "<node>:os"
    Guarded,      \* steps with a RollbackID (the firewall and the services)
    Plans,        \* the plans that the config and --allow-no-firewall give
    RunKinds,     \* the kinds of run the operator starts
    MaxFaults,    \* bound: crashes, failed commands and drifts
    MaxLost       \* bound: writes to the state directory that fail

Steps == 1 .. N

\* The last step, "local:reports": its Check says "not done", its Apply and
\* Verify return nil, and nothing of it lives on a node.
Reports == N

AllRunKinds == {"install", "resume", "dry-run", "dry-run-resume"}

ASSUME StepsAssumption ==
    /\ N \in Nat \ {0}
    /\ Probe \subseteq Steps \ {Reports}
    /\ Guarded \subseteq Steps \ (Probe \cup {Reports})
    /\ Plans \subseteq {p \in SUBSET Steps : Reports \in p}
    /\ RunKinds \subseteq AllRunKinds

ASSUME BoundsAssumption == MaxFaults \in Nat /\ MaxLost \in Nat

VARIABLES
    \* the running process (reset when there is none)
    pc,           \* where install.Run is, "idle" when no run is going on
    kind,         \* the kind of the run: the --resume and --dry-run flags
    plan,         \* the steps of the run
    at,           \* the step of the loop's current iteration, 0 before it
    completed,    \* the steps --resume takes as done from the prior report
    rep,          \* Report.Steps in memory: the status recorded per step
    inv,          \* the inventory in memory
    \* the state directory
    reportFile,   \* install-report.json
    invFile,      \* inventory.yaml
    records,      \* the steps with a record under rollback/
    \* the nodes
    present,      \* the steps whose Check command finds them done
    working,      \* the steps whose Verify command succeeds
    \* what happened, for the properties
    verified,     \* steps some Verify found working
    planned,      \* steps some dry run recorded
    dirty,        \* steps an Apply touched and no Verify confirmed since
    outdated,     \* of these, those done in a report that is older or blind
    exit,         \* how the last run ended
    faults, lost  \* spent of MaxFaults and MaxLost

memory  == <<kind, plan, at, completed, rep, inv>>
files   == <<reportFile, invFile, records>>
nodes   == <<present, working>>
history == <<verified, planned, dirty, outdated, exit>>
budget  == <<faults, lost>>
vars    == <<pc, memory, files, nodes, history, budget>>

------------------------------------------------------------------------------
(* The two files.                                                          *)

StepStatus == {"none", "ok", "skipped", "failed", "dry-run"}
Done       == {"ok", "skipped", "dry-run"}

\* A missing, empty or truncated report: LoadReport returns an error and a
\* resume starts with nothing completed.
NoReport == [s \in Steps |-> "none"]

\* Mutant: a resume takes every step the report mentions for done.
ClaimedIfRecorded(r) == {s \in Steps : r[s] # "none"}

\* The steps a report calls done, as the resume code reads it.
Claimed(r) == {s \in Steps : r[s] \in Done}

InstallStatus == {"pending", "installing", "failed", "installed"}
Inventories ==
    [status : InstallStatus, last : 0 .. N, failed : 0 .. N]

\* A missing inventory, or one a torn write left empty.  An empty one loads as
\* the zero Inventory, whose status Normalize makes "pending"; for an absent
\* one a resume takes initialInventory, which agrees on these fields once the
\* status is set to "installing".
NoInventory == [status |-> "pending", last |-> 0, failed |-> 0]
InitialInventory == [status |-> "installing", last |-> 0, failed |-> 0]

MarkInstalling(i) ==
    [status |-> "installing", last |-> i.last, failed |-> i.failed]

\* Mutant: an earlier failure is not cleared.
MarkStepSuccessKeepsFailure(i, s) ==
    [status |-> "installing", last |-> s, failed |-> i.failed]

MarkStepSuccess(i, s) == [status |-> "installing", last |-> s, failed |-> 0]
MarkStepFailure(i, s) == [status |-> "failed", last |-> i.last, failed |-> s]

MarkInstalled(i) ==
    [status |-> "installed", last |-> i.last, failed |-> i.failed]

\* What os.WriteFile may leave of a file: the new content; or, when the disk
\* refuses, the old content (open failed) or an emptied file (O_TRUNC worked).
Written(old, new, empty) ==
    {new} \cup IF lost < MaxLost THEN {old, empty} ELSE {}

\* The write of new into a file ended as f.
Spend(f, new) == lost' = IF f = new THEN lost ELSE lost + 1

IsResume(k) == k \in {"resume", "dry-run-resume"}
IsDry(k)    == k \in {"dry-run", "dry-run-resume"}

\* Mutant: only "ok" counts as done, not what a run skipped.
PriorClaimsOkOnly ==
    IF IsResume(kind) THEN {s \in Steps : reportFile[s] = "ok"} ELSE {}

\* What a run takes as done before it looks.
PriorClaims == IF IsResume(kind) THEN Claimed(reportFile) ELSE {}

------------------------------------------------------------------------------
Forget ==
    /\ kind' = "none"
    /\ plan' = {}
    /\ at' = 0
    /\ completed' = {}
    /\ rep' = NoReport
    /\ inv' = NoInventory

Init ==
    /\ pc = "idle"
    /\ kind = "none" /\ plan = {} /\ at = 0 /\ completed = {}
    /\ rep = NoReport /\ inv = NoInventory
    /\ reportFile = NoReport /\ invFile = NoInventory /\ records = {}
    /\ present \in SUBSET (Steps \ {Reports})
    /\ working \in {w \in SUBSET Steps :
                      Reports \in w /\ w \cap Probe = present \cap Probe}
    /\ verified = {} /\ planned = {} /\ dirty = {} /\ outdated = {} /\ exit = "none"
    /\ faults = 0 /\ lost = 0

\* The command line starts a run: config.Validate and safety.Check passed, the
\* inventory is the saved one on --resume and a new one otherwise.
Start(k, p) ==
    /\ pc = "idle"
    /\ k \in RunKinds /\ p \in Plans
    /\ pc' = "begin"
    /\ kind' = k /\ plan' = p /\ at' = 0
    /\ completed' = {}
    /\ rep' = NoReport
    /\ inv' = IF IsResume(k)
              THEN MarkInstalling(invFile)
              ELSE InitialInventory
    /\ UNCHANGED <<files, nodes, history, budget>>

\* Mutant: a resume ends with an error when there is no report to read.
BeginWithReport ==
    /\ pc = "begin"
    /\ invFile' = inv
    /\ \/ /\ IsResume(kind) /\ reportFile = NoReport
          /\ pc' = "idle" /\ exit' = "refused" /\ Forget
       \/ /\ ~IsResume(kind) \/ reportFile # NoReport
          /\ completed' = PriorClaims
          /\ pc' = "next"
          /\ UNCHANGED <<kind, plan, at, rep, inv, exit>>
    /\ UNCHANGED <<reportFile, records, nodes, verified, planned, dirty,
                   outdated, budget>>

\* The inventory is saved, the plan is built and, on --resume, the prior report
\* is read.
Begin ==
    /\ pc = "begin"
    /\ invFile' = inv
    /\ completed' = PriorClaims
    /\ pc' = "next"
    /\ UNCHANGED <<kind, plan, at, rep, inv, reportFile, records, nodes,
                   history, budget>>

\* The run ends before its first step: this one save's error counts, or there
\* is no plan for the config (a MySQL database, a firewall too open; counted
\* as a fault), which shows after the inventory says "installing".
Refuse ==
    /\ pc = "begin"
    /\ \/ /\ \E f \in Written(invFile, inv, NoInventory) \ {inv} :
               invFile' = f /\ Spend(f, inv)
          /\ UNCHANGED faults
       \/ /\ invFile' = inv
          /\ faults < MaxFaults /\ faults' = faults + 1
          /\ UNCHANGED lost
    /\ pc' = "idle" /\ exit' = "refused" /\ Forget
    /\ UNCHANGED <<reportFile, records, nodes, verified, planned, dirty,
                   outdated>>

\* Mutant: the order of the plan is lost.
IsNextUnordered(s) == s \in plan /\ s > at

\* The step the loop turns to.
IsNext(s) ==
    /\ s \in plan /\ s > at
    /\ \A t \in plan : t > at => s <= t

\* Mutant: the loop leaves out the last step.
LoopIsOverEarly == \A s \in plan : s <= at + 1

LoopIsOver == \A s \in plan : s <= at

\* Mutant: no record for a step of which the node has nothing yet.
RecordIfPresent(s) == Guarded \cap {s} \cap present

\* The rollback record of a step: none for a step without RollbackID.
RecordOf(s) == Guarded \cap {s}

\* A step the prior report calls done is skipped without looking at the node.
SkipCompleted(s) ==
    /\ pc = "next" /\ IsNext(s)
    /\ s \in completed
    /\ at' = s
    /\ rep' = [rep EXCEPT ![s] = "skipped"]
    /\ inv' = MarkStepSuccess(inv, s)
    /\ pc' = "saveSkip"
    /\ UNCHANGED <<kind, plan, completed, files, nodes, history, budget>>

\* A dry run records the step, and marks it a success in the inventory.
DryRun(s) ==
    /\ pc = "next" /\ IsNext(s)
    /\ s \notin completed /\ IsDry(kind)
    /\ at' = s
    /\ rep' = [rep EXCEPT ![s] = "dry-run"]
    /\ inv' = MarkStepSuccess(inv, s)
    /\ planned' = planned \cup {s}
    /\ outdated' = outdated \cup (dirty \cap {s})
    /\ pc' = "saveSkip"
    /\ UNCHANGED <<kind, plan, completed, files, nodes, verified, dirty, exit,
                   budget>>

\* Check found the step done on the node.
CheckDone(s) ==
    /\ pc = "next" /\ IsNext(s)
    /\ s \notin completed /\ ~IsDry(kind)
    /\ s \in present
    /\ at' = s
    /\ pc' = "confirm"
    /\ UNCHANGED <<kind, plan, completed, rep, inv, files, nodes, history,
                   budget>>

\* Check did not: the work is missing, or the command failed, which Check
\* does not tell apart.  A record is saved for a step with a RollbackID (an
\* error of that save is ignored) and the step is to be applied.
CheckNotDone(s) ==
    /\ pc = "next" /\ IsNext(s)
    /\ s \notin completed /\ ~IsDry(kind)
    /\ \/ s \notin present /\ UNCHANGED faults
       \/ s \in present /\ faults < MaxFaults /\ faults' = faults + 1
    /\ \E r \in Written(records, records \cup RecordOf(s), records) :
         /\ records' = r
         /\ Spend(r, records \cup RecordOf(s))
    /\ at' = s
    /\ pc' = "apply"
    /\ UNCHANGED <<kind, plan, completed, rep, inv, reportFile, invFile, nodes,
                   history>>

\* What a command of step s may leave on its node when it does not run to its
\* end; a probe changes nothing.
Partly(s) ==
    IF s \in Probe \cup {Reports}
    THEN UNCHANGED nodes
    ELSE /\ present' \in {present, present \cup {s}, present \ {s}}
         /\ working' \in {working, working \ {s}}

\* The step is half applied until a Verify confirms it.  A run that did not
\* read the report (no --resume) may touch a step an earlier run's report, still
\* on disk, calls done.
Touch(s) ==
    /\ dirty' = dirty \cup {s}
    /\ outdated' = IF ~IsResume(kind) /\ s \in Claimed(reportFile)
                   THEN outdated \cup {s}
                   ELSE outdated \ {s}

\* Apply returned nil: the component is there and, unless it fails to come up,
\* works.
Apply ==
    /\ pc = "apply"
    /\ pc' = "verify"
    /\ IF at \in Probe \cup {Reports}
       THEN UNCHANGED <<nodes, faults>>
       ELSE /\ present' = present \cup {at}
            /\ \/ working' = working \cup {at} /\ UNCHANGED faults
               \/ /\ working' = working \ {at}
                  /\ faults < MaxFaults /\ faults' = faults + 1
    /\ Touch(at)
    /\ UNCHANGED <<memory, files, verified, planned, exit, lost>>

\* The step is recorded as failed, in the report and in the inventory.
Fail ==
    /\ rep' = [rep EXCEPT ![at] = "failed"]
    /\ inv' = MarkStepFailure(inv, at)
    /\ pc' = "saveFail"
    /\ UNCHANGED <<kind, plan, at, completed>>

\* Apply returned an error, after a part of its work (an exit status, a lost
\* connection, or the executor's timeout).
ApplyFails ==
    /\ pc = "apply" /\ at # Reports
    /\ faults < MaxFaults /\ faults' = faults + 1
    /\ Partly(at)
    /\ Touch(at)
    /\ Fail
    /\ UNCHANGED <<files, verified, planned, exit, lost>>

\* Verify succeeds: after a Check that found the step done the step counts as
\* skipped, after an Apply as ok.
VerifyOk ==
    /\ pc \in {"confirm", "verify"}
    /\ at \in working
    /\ rep' = [rep EXCEPT ![at] = IF pc = "confirm" THEN "skipped" ELSE "ok"]
    /\ inv' = MarkStepSuccess(inv, at)
    /\ verified' = verified \cup {at}
    /\ dirty' = dirty \ {at}
    /\ outdated' = outdated \ {at}
    /\ pc' = IF pc = "confirm" THEN "saveSkip" ELSE "saveOk"
    /\ UNCHANGED <<kind, plan, at, completed, files, nodes, planned, exit,
                   budget>>

\* Verify fails: the component does not work, or the command failed.
VerifyFails ==
    /\ pc \in {"confirm", "verify"} /\ at # Reports
    /\ \/ at \notin working /\ UNCHANGED faults
       \/ at \in working /\ faults < MaxFaults /\ faults' = faults + 1
    /\ Fail
    /\ UNCHANGED <<files, nodes, history, lost>>

\* The loop is over.
LoopEnds ==
    /\ pc = "next"
    /\ LoopIsOver
    /\ inv' = MarkInstalled(inv)
    /\ pc' = "saveEnd"
    /\ UNCHANGED <<kind, plan, at, completed, rep, files, nodes, history,
                   budget>>

\* The inventory is saved, its error ignored.  The report is written after a
\* step that was applied, after a failure and at the end, but not after a step
\* that was skipped or planned.
SaveInventory ==
    /\ pc \in {"saveSkip", "saveOk", "saveFail", "saveEnd"}
    /\ \E f \in Written(invFile, inv, NoInventory) :
         invFile' = f /\ Spend(f, inv)
    /\ pc' = CASE pc = "saveSkip" -> "next"
               [] pc = "saveOk"   -> "reportOk"
               [] pc = "saveFail" -> "reportFail"
               [] pc = "saveEnd"  -> "reportEnd"
    /\ UNCHANGED <<memory, reportFile, records, nodes, history, faults>>

WriteReports ==
    /\ pc \in {"reportOk", "reportFail", "reportEnd"}
    /\ \E f \in Written(reportFile, rep, NoReport) :
         reportFile' = f /\ Spend(f, rep)
    /\ IF pc = "reportOk"
       THEN pc' = "next" /\ UNCHANGED <<memory, exit>>
       ELSE /\ pc' = "idle"
            /\ exit' = IF pc = "reportFail" THEN "failed" ELSE "ok"
            /\ Forget
    /\ UNCHANGED <<invFile, records, nodes, verified, planned, dirty, outdated,
                   faults>>

Engine ==
    \/ Begin \/ Refuse
    \/ \E s \in Steps :
          \/ SkipCompleted(s)
          \/ DryRun(s)
          \/ CheckDone(s)
          \/ CheckNotDone(s)
    \/ Apply \/ ApplyFails
    \/ VerifyOk \/ VerifyFails
    \/ LoopEnds
    \/ SaveInventory
    \/ WriteReports

------------------------------------------------------------------------------
(* The environment.                                                        *)

\* The process dies (a kill, a power loss).  A file being written is left
\* empty, a command being run has had a part of its effect.
Crash ==
    /\ pc # "idle"
    /\ faults < MaxFaults /\ faults' = faults + 1
    /\ pc' = "idle" /\ exit' = "crashed" /\ Forget
    /\ IF pc = "apply"
       THEN Partly(at) /\ Touch(at)
       ELSE UNCHANGED <<nodes, dirty, outdated>>
    /\ invFile' \in {invFile} \cup
         IF pc \in {"begin", "saveSkip", "saveOk", "saveFail", "saveEnd"}
         THEN {NoInventory} ELSE {}
    /\ reportFile' \in {reportFile} \cup
         IF pc \in {"reportOk", "reportFail", "reportEnd"}
         THEN {NoReport} ELSE {}
    /\ UNCHANGED <<records, verified, planned, lost>>

\* A node changes behind StackForge's back: a service dies or is removed, or a
\* command whose session was cut takes effect late.
Drift(s) ==
    /\ faults < MaxFaults /\ faults' = faults + 1
    /\ s # Reports
    /\ IF s \in Probe
       THEN present' = present \ {s} /\ working' = working \ {s}
       ELSE /\ working' = working \ {s}
            /\ present' \in {present, present \ {s}}
    /\ UNCHANGED <<pc, memory, files, history, lost>>

\* The operator mends a step on its node.
Repair(s) ==
    /\ s # Reports
    /\ s \notin present \cap working
    /\ present' = present \cup {s}
    /\ working' = working \cup {s}
    /\ UNCHANGED <<pc, memory, files, history, budget>>

StartRun == \E k \in AllRunKinds, p \in Plans : Start(k, p)

Next ==
    \/ StartRun
    \/ Engine
    \/ Crash
    \/ \E s \in Steps : Drift(s) \/ Repair(s)

Spec == Init /\ [][Next]_vars

\* The loop is sequential code whose every remote command has a timeout, so a
\* run that is going on goes on; the operator mends what is broken and starts
\* runs again, as OPERATIONS.md tells.
Fairness ==
    /\ WF_vars(Engine)
    /\ WF_vars(StartRun)
    /\ \A s \in Steps : WF_vars(Repair(s))

FairSpec == Spec /\ Fairness
------------------------------------------------------------------------------
(* Properties.                                                             *)

PCs == {"idle", "begin", "next", "confirm", "apply", "verify", "saveSkip",
        "saveOk", "saveFail", "saveEnd", "reportOk", "reportFail", "reportEnd"}

\* The types of the variables; a run has a plan and a kind, and between begin
\* and the first iteration no current step.
TypeOK ==
    /\ pc \in PCs
    /\ kind \in AllRunKinds \cup {"none"}
    /\ plan \in SUBSET Steps
    /\ at \in 0 .. N
    /\ completed \in SUBSET Steps
    /\ rep \in [Steps -> StepStatus]
    /\ inv \in Inventories
    /\ reportFile \in [Steps -> StepStatus]
    /\ invFile \in Inventories
    /\ records \in SUBSET Guarded
    /\ present \in SUBSET (Steps \ {Reports})
    /\ working \in SUBSET Steps /\ Reports \in working
    /\ verified \in SUBSET Steps
    /\ planned \in SUBSET Steps
    /\ dirty \in SUBSET Steps
    /\ outdated \in SUBSET dirty
    /\ exit \in {"none", "ok", "failed", "refused", "crashed"}
    /\ faults \in 0 .. MaxFaults
    /\ lost \in 0 .. MaxLost
    /\ pc \in {"confirm", "apply", "verify", "saveSkip", "saveOk", "saveFail",
              "reportOk", "reportFail"} => at \in plan

\* Whatever crashed, was lost or was resumed in between: a step that the
\* report on disk calls done was once verified on its node, or planned by a
\* dry run (which the resume code counts as done).
ClaimsAreWitnessed == Claimed(reportFile) \subseteq verified \cup planned

\* No step is looked at, applied or verified while an earlier step of the run
\* was never found working (nor planned): a resume that trusts the prior
\* report keeps the order of the plan, whatever plan that report was of.
OrderRespected ==
    pc \in {"confirm", "apply", "verify"} =>
        \A t \in plan : t < at => t \in verified \cup planned

\* inventory.yaml comes to say "installed" only when every step of the run's
\* plan was verified at some time, or planned.
InstalledOnlyWhenDone ==
    [][(invFile'.status = "installed" /\ invFile' # invFile)
          => plan \subseteq verified \cup planned]_vars

\* A resume never unlearns: when it rewrites the report, the steps up to the
\* one it stopped at that the old report called done are done in the new one.
\* (Not so for a report the disk or a crash emptied.)
ResumeKeepsProgress ==
    [][(IsResume(kind) /\ reportFile' # reportFile /\ budget' = budget)
          => \A t \in Claimed(reportFile) \cap plan :
                t <= at => t \in Claimed(reportFile')]_vars

\* A report calls a half applied step done only if it was written before the
\* step was touched, by a run that did not read it (the fresh install after a
\* dry run, killed in the Apply), or if a dry run recorded the step unseen.  A
\* resume never leaves such a claim, whatever report it found, nor does a run
\* that got to write its own report.
NoHalfAppliedClaim == Claimed(reportFile) \cap dirty \subseteq outdated

\* While no write was lost, a guarded step that an Apply touched and no Verify
\* confirmed has a rollback record, even if the process died in the Apply.
HalfAppliedHasRecord == lost = 0 => dirty \cap Guarded \subseteq records

\* When a run has ended after its loop began (and not by a crash), its exit status, the report and
\* the inventory tell the same story: which step failed, which one succeeded
\* last, and that the cluster is installed if and only if the run ended well.
FilesAgree ==
    (pc = "idle" /\ lost = 0 /\ exit \in {"ok", "failed"}) =>
        LET failedSteps == {s \in Steps : reportFile[s] = "failed"}
        IN  /\ failedSteps = {invFile.failed} \ {0}
            /\ (exit = "failed") <=> (invFile.status = "failed")
            /\ (exit = "ok") <=> (invFile.status = "installed")
            /\ (exit = "ok") => failedSteps = {}
            /\ Claimed(reportFile) # {} =>
                  /\ invFile.last \in Claimed(reportFile)
                  /\ \A s \in Claimed(reportFile) : s <= invFile.last

\* Under the fairness above, the cluster gets to be installed, however runs
\* fail, crash and are resumed before, and again after every later run.
EventuallyInstalled == []<>(invFile.status = "installed")

\* CLI_REFERENCE.md on --resume: "skip steps already completed in the previous
\* local install report".  (Does not hold: steps a dry run planned count.)
ResumeSkipsOnlyCompletedWork == completed \subseteq verified
==============================================================================
