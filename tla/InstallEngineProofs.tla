-------------------------- MODULE InstallEngineProofs --------------------------
(***************************************************************************)
(* Proofs about InstallEngine, for every number of steps, every set of     *)
(* plans and every bound on faults.                                        *)
(*                                                                         *)
(* What the report on disk claims is not inductive alone: a write copies   *)
(* the report in memory, whose "skipped" records come from what an earlier *)
(* report claimed.  IInv follows the claims through the three places they  *)
(* live in (file, completed, memory) and says which steps the loop has     *)
(* behind it.  Ledger adds that no claim is dropped on the way, Clean that *)
(* none is of a half applied step; Recorded is about the rollback records, *)
(* Together and Agreed about the inventory, that is written first.         *)
(***************************************************************************)
EXTENDS InstallEngine, TLAPS

\* Every claim, wherever it is held, has its witness.
Witnessed ==
    /\ Claimed(reportFile) \subseteq verified \cup planned
    /\ Claimed(rep) \subseteq verified \cup planned
    /\ completed \subseteq verified \cup planned

\* The states of a run in which the current step has been recorded as done.
Behind == {"next", "saveSkip", "saveOk", "reportOk", "saveEnd", "reportEnd"}

\* The steps the loop has passed are recorded as done in memory.
Passed ==
    /\ \A t \in plan : t < at => rep[t] \in Done
    /\ pc \in Behind => \A t \in plan : t <= at => rep[t] \in Done
    /\ pc = "begin" => at = 0

\* "installed" in memory means that the loop is over.
InstalledAtEnd ==
    /\ inv.status = "installed" => pc \in {"saveEnd", "reportEnd"}
    /\ pc \in {"saveEnd", "reportEnd"} => \A t \in plan : t <= at

IInv == TypeOK /\ Witnessed /\ Passed /\ InstalledAtEnd
------------------------------------------------------------------------------
(* Type correctness.                                                       *)

\* The numbers the constants stand for.
LEMMA ConstantFacts ==
    /\ N \in Nat \ {0}
    /\ Reports \in Steps
    /\ Reports \notin Probe
    /\ MaxFaults \in Nat /\ MaxLost \in Nat
    /\ Plans \subseteq SUBSET Steps
    /\ Steps \subseteq 0 .. N
BY StepsAssumption, BoundsAssumption DEF Steps, Reports

\* A failing write leaves the old content or an emptied file, and is paid for;
\* whatever it leaves is new, old or empty.
LEMMA WrittenSpent ==
    ASSUME NEW f, NEW old, NEW new, NEW empty,
           lost \in 0 .. MaxLost, f \in Written(old, new, empty), Spend(f, new)
    PROVE  f \in {old, new, empty} /\ lost' \in 0 .. MaxLost
BY ConstantFacts DEF Written, Spend

\* The values the small operators on reports and inventories return.
LEMMA FileTypes ==
    /\ NoReport \in [Steps -> StepStatus]
    /\ NoInventory \in Inventories
    /\ InitialInventory \in Inventories
    /\ \A i \in Inventories, s \in 0 .. N :
          /\ MarkStepSuccess(i, s) \in Inventories
          /\ MarkStepFailure(i, s) \in Inventories
          /\ MarkInstalled(i) \in Inventories
          /\ MarkInstalling(i) \in Inventories
    /\ \A r \in [Steps -> StepStatus], s \in Steps, st \in StepStatus :
          [r EXCEPT ![s] = st] \in [Steps -> StepStatus]
<1>1. NoReport \in [Steps -> StepStatus]
  BY DEF NoReport, StepStatus
<1>2. NoInventory \in Inventories /\ InitialInventory \in Inventories
  BY ConstantFacts DEF NoInventory, InitialInventory, Inventories, InstallStatus
<1>3. ASSUME NEW i \in Inventories, NEW s \in 0 .. N
      PROVE  /\ MarkStepSuccess(i, s) \in Inventories
             /\ MarkStepFailure(i, s) \in Inventories
             /\ MarkInstalled(i) \in Inventories
             /\ MarkInstalling(i) \in Inventories
  BY ConstantFacts, <1>3
     DEF MarkInstalling, MarkStepSuccess, MarkStepFailure, MarkInstalled, Inventories,
         InstallStatus
<1>4. ASSUME NEW r \in [Steps -> StepStatus], NEW s \in Steps,
             NEW st \in StepStatus
      PROVE  [r EXCEPT ![s] = st] \in [Steps -> StepStatus]
  OBVIOUS
<1> QED BY <1>1, <1>2, <1>3, <1>4

\* The state of a process that has gone away is well typed.
LEMMA ForgetTypes ==
    ASSUME Forget
    PROVE  /\ kind' \in AllRunKinds \cup {"none"}
           /\ plan' \in SUBSET Steps
           /\ at' \in 0 .. N
           /\ completed' \in SUBSET Steps
           /\ rep' \in [Steps -> StepStatus]
           /\ inv' \in Inventories
BY ConstantFacts, FileTypes DEF Forget

\* Init satisfies the type invariant.
LEMMA TypeInit == Init => TypeOK
BY ConstantFacts, FileTypes DEF Init, TypeOK, PCs

\* A failing step is well typed.
LEMMA FailTypes ==
    ASSUME TypeOK, Fail, pc \in {"confirm", "apply", "verify"}
    PROVE  /\ pc' = "saveFail" /\ at \in plan
           /\ rep' \in [Steps -> StepStatus] /\ inv' \in Inventories
           /\ UNCHANGED <<kind, plan, at, completed>>
BY ConstantFacts, FileTypes DEF TypeOK, Fail, StepStatus

\* What a command that broke off leaves of the nodes is well typed.
LEMMA PartlyTypes ==
    ASSUME TypeOK, NEW s \in Steps, Partly(s)
    PROVE  /\ present' \in SUBSET (Steps \ {Reports})
           /\ working' \in SUBSET Steps /\ Reports \in working'
<1>1. CASE s \in Probe \cup {Reports}
  BY <1>1 DEF TypeOK, Partly, nodes
<1>2. CASE s \notin Probe \cup {Reports}
  <2>1. present' \in {present, present \cup {s}, present \ {s}}
    BY <1>2 DEF Partly
  <2>2. working' \in {working, working \ {s}}
    BY <1>2 DEF Partly
  <2> QED BY <1>2, <2>1, <2>2, ConstantFacts DEF TypeOK
<1> QED BY <1>1, <1>2

\* A step being touched is half applied, outdated or not.
LEMMA TouchTypes ==
    ASSUME TypeOK, NEW s \in Steps, Touch(s)
    PROVE  /\ dirty' = dirty \cup {s} /\ dirty' \in SUBSET Steps
           /\ outdated' \in SUBSET dirty'
BY DEF TypeOK, Touch

\* The current step of an iteration is a step of the plan, ahead of N or not.
LEMMA NextStepTypes ==
    ASSUME TypeOK, NEW s \in Steps, IsNext(s)
    PROVE  s \in plan /\ s \in 0 .. N /\ s > at
BY ConstantFacts DEF IsNext, TypeOK

LEMMA TypeEngine == TypeOK /\ Engine => TypeOK'
<1> SUFFICES ASSUME TypeOK, Engine PROVE TypeOK'
  OBVIOUS
<1> USE ConstantFacts
<1>1. CASE Begin
  <2>1. PriorClaims \in SUBSET Steps
    BY DEF PriorClaims, Claimed
  <2> QED BY <1>1, <2>1 DEF Begin, TypeOK, PCs, nodes, history, budget
<1>0. CASE Refuse
  <2>1. invFile' \in Inventories /\ lost' \in 0 .. MaxLost
    <3>1. CASE invFile' = inv /\ lost' = lost
      BY <3>1 DEF TypeOK
    <3>2. ASSUME NEW f \in Written(invFile, inv, NoInventory),
                 invFile' = f, Spend(f, inv)
          PROVE  invFile' \in Inventories /\ lost' \in 0 .. MaxLost
      BY <3>2, WrittenSpent, FileTypes DEF TypeOK
    <3> QED BY <1>0, <3>1, <3>2 DEF Refuse
  <2>2. faults' \in 0 .. MaxFaults
    BY <1>0 DEF Refuse, TypeOK
  <2> QED BY <1>0, <2>1, <2>2, ForgetTypes DEF Refuse, TypeOK, PCs, nodes
<1>2. ASSUME NEW s \in Steps, SkipCompleted(s) PROVE TypeOK'
  BY <1>2, NextStepTypes, FileTypes
     DEF SkipCompleted, TypeOK, PCs, StepStatus, files, nodes, history, budget
<1>3. ASSUME NEW s \in Steps, DryRun(s) PROVE TypeOK'
  BY <1>3, NextStepTypes, FileTypes
     DEF DryRun, TypeOK, PCs, StepStatus, files, nodes, budget
<1>4. ASSUME NEW s \in Steps, CheckDone(s) PROVE TypeOK'
  BY <1>4, NextStepTypes
     DEF CheckDone, TypeOK, PCs, files, nodes, history, budget
<1>5. ASSUME NEW s \in Steps, CheckNotDone(s) PROVE TypeOK'
  <2>1. records' \in SUBSET Guarded /\ lost' \in 0 .. MaxLost
    <3>1. PICK r \in Written(records, records \cup RecordOf(s), records) :
            records' = r /\ Spend(r, records \cup RecordOf(s))
      BY <1>5 DEF CheckNotDone
    <3> QED BY <3>1, WrittenSpent DEF RecordOf, TypeOK
  <2>2. faults' \in 0 .. MaxFaults
    BY <1>5 DEF CheckNotDone, TypeOK
  <2> QED
    BY <1>5, <2>1, <2>2, NextStepTypes
       DEF CheckNotDone, TypeOK, PCs, nodes, history
<1>6. CASE Apply
  <2>1. /\ present' \in SUBSET (Steps \ {Reports})
        /\ working' \in SUBSET Steps /\ Reports \in working'
        /\ faults' \in 0 .. MaxFaults /\ at \in Steps
    <3>1. at \in Steps
      BY <1>6 DEF Apply, TypeOK
    <3>2. CASE at \in Probe \cup {Reports}
      BY <1>6, <3>1, <3>2 DEF Apply, TypeOK, nodes
    <3>3. CASE at \notin Probe \cup {Reports}
      <4>1. present' = present \cup {at}
        BY <1>6, <3>3 DEF Apply
      <4>2. working' = working \cup {at} \/ working' = working \ {at}
        BY <1>6, <3>3 DEF Apply
      <4>3. faults' \in 0 .. MaxFaults
        BY <1>6, <3>3 DEF Apply, TypeOK
      <4> QED BY <3>1, <3>3, <4>1, <4>2, <4>3 DEF TypeOK
    <3> QED BY <3>2, <3>3
  <2>2. at \in Steps /\ Touch(at)
    BY <1>6 DEF Apply, TypeOK
  <2>3. dirty' \in SUBSET Steps /\ outdated' \in SUBSET dirty'
    BY <2>2, TouchTypes
  <2> QED BY <1>6, <2>1, <2>3 DEF Apply, TypeOK, PCs, memory, files
<1>7. CASE ApplyFails
  <2>0. at \in Steps /\ faults' \in 0 .. MaxFaults /\ Touch(at)
    BY <1>7 DEF ApplyFails, TypeOK
  <2>1. at \in Steps /\ faults' \in 0 .. MaxFaults
        /\ dirty' \in SUBSET Steps /\ outdated' \in SUBSET dirty'
    BY <2>0, TouchTypes
  <2> QED
    BY <1>7, <2>1, FailTypes, PartlyTypes DEF ApplyFails, TypeOK, PCs, files
<1>8. CASE VerifyOk
  <2>1. at \in plan /\ at \in Steps
    BY <1>8 DEF VerifyOk, TypeOK
  <2>2. rep' \in [Steps -> StepStatus] /\ inv' \in Inventories
    BY <1>8, <2>1, FileTypes DEF VerifyOk, TypeOK, StepStatus
  <2> QED
    BY <1>8, <2>1, <2>2 DEF VerifyOk, TypeOK, PCs, files, nodes, budget
<1>9. CASE VerifyFails
  <2>1. faults' \in 0 .. MaxFaults
    BY <1>9 DEF VerifyFails, TypeOK
  <2> QED
    BY <1>9, <2>1, FailTypes
       DEF VerifyFails, TypeOK, PCs, files, nodes, history
<1>10. CASE LoopEnds
  BY <1>10, FileTypes
     DEF LoopEnds, TypeOK, PCs, files, nodes, history, budget
<1>11. CASE SaveInventory
  <2>1. PICK f \in Written(invFile, inv, NoInventory) :
          invFile' = f /\ Spend(f, inv)
    BY <1>11 DEF SaveInventory
  <2>2. invFile' \in Inventories /\ lost' \in 0 .. MaxLost
    BY <2>1, WrittenSpent, FileTypes DEF TypeOK
  <2>3. pc' \in {"next", "reportOk", "reportFail", "reportEnd"}
        /\ (pc' \in {"reportOk", "reportFail"} => pc \in {"saveOk", "saveFail"})
    BY <1>11 DEF SaveInventory
  <2> QED
    BY <1>11, <2>2, <2>3 DEF SaveInventory, TypeOK, PCs, memory, nodes, history
<1>12. CASE WriteReports
  <2>1. PICK f \in Written(reportFile, rep, NoReport) :
          reportFile' = f /\ Spend(f, rep)
    BY <1>12 DEF WriteReports
  <2>2. reportFile' \in [Steps -> StepStatus] /\ lost' \in 0 .. MaxLost
    BY <2>1, WrittenSpent, FileTypes DEF TypeOK
  <2>3. CASE pc = "reportOk"
    BY <1>12, <2>2, <2>3 DEF WriteReports, TypeOK, PCs, memory, nodes
  <2>4. CASE pc # "reportOk"
    BY <1>12, <2>2, <2>4, ForgetTypes DEF WriteReports, TypeOK, PCs, nodes
  <2> QED BY <2>3, <2>4
<1> QED
  BY <1>0, <1>1, <1>2, <1>3, <1>4, <1>5, <1>6, <1>7, <1>8, <1>9, <1>10, <1>11,
     <1>12
     DEF Engine

LEMMA TypeNext == TypeOK /\ [Next]_vars => TypeOK'
<1> SUFFICES ASSUME TypeOK, [Next]_vars PROVE TypeOK'
  OBVIOUS
<1> USE ConstantFacts
<1>1. CASE StartRun
  <2>1. PICK k \in AllRunKinds, p \in Plans : Start(k, p)
    BY <1>1 DEF StartRun
  <2> QED
    BY <2>1, FileTypes
       DEF Start, TypeOK, PCs, files, nodes, history, budget
<1>2. CASE Engine
  BY <1>2, TypeEngine
<1>3. CASE Crash
  <2>1. /\ present' \in SUBSET (Steps \ {Reports})
        /\ working' \in SUBSET Steps /\ Reports \in working'
        /\ dirty' \in SUBSET Steps /\ outdated' \in SUBSET dirty'
    <3>1. CASE pc = "apply"
      <4>1. at \in Steps
        BY <3>1 DEF TypeOK
      <4>2. Partly(at) /\ Touch(at)
        BY <1>3, <3>1 DEF Crash
      <4> QED BY <4>1, <4>2, PartlyTypes, TouchTypes
    <3>2. CASE pc # "apply"
      BY <1>3, <3>2 DEF Crash, TypeOK, nodes
    <3> QED BY <3>1, <3>2
  <2>2. invFile' \in Inventories /\ reportFile' \in [Steps -> StepStatus]
    BY <1>3, FileTypes DEF Crash, TypeOK
  <2>3. faults' \in 0 .. MaxFaults
    BY <1>3 DEF Crash, TypeOK
  <2> QED BY <1>3, <2>1, <2>2, <2>3, ForgetTypes DEF Crash, TypeOK, PCs
<1>4. ASSUME NEW s \in Steps, Drift(s) PROVE TypeOK'
  <2>1. faults' \in 0 .. MaxFaults
    BY <1>4 DEF Drift, TypeOK
  <2> QED BY <1>4, <2>1 DEF Drift, TypeOK, memory, files, history
<1>5. ASSUME NEW s \in Steps, Repair(s) PROVE TypeOK'
  BY <1>5 DEF Repair, TypeOK, memory, files, history, budget
<1>6. CASE UNCHANGED vars
  BY <1>6 DEF vars, TypeOK, memory, files, nodes, history, budget
<1> QED BY <1>1, <1>2, <1>3, <1>4, <1>5, <1>6 DEF Next

\* Every state of every behaviour is well typed: statuses are the five the
\* code has, the current step is a step of the plan, records belong to guarded
\* steps, and no run spends more faults than the bounds give.
THEOREM TypeCorrect == Spec => []TypeOK
BY TypeInit, TypeNext, PTL DEF Spec
------------------------------------------------------------------------------
(* The claims of the report.                                               *)

\* What recording one status does to the steps a report calls done.
LEMMA ClaimedUpdate ==
    ASSUME NEW r \in [Steps -> StepStatus], NEW s \in Steps,
           NEW st \in StepStatus
    PROVE  /\ Claimed([r EXCEPT ![s] = st]) \subseteq Claimed(r) \cup {s}
           /\ st = "failed" => Claimed([r EXCEPT ![s] = st]) \subseteq Claimed(r)
BY DEF Claimed, Done

LEMMA ClaimedNothing == Claimed(NoReport) = {}
BY DEF Claimed, NoReport, Done

\* Forgetting the process leaves no claim in memory and nothing in the loop.
LEMMA ForgetIInv ==
    ASSUME Forget, pc' = "idle",
           Claimed(reportFile') \subseteq verified' \cup planned'
    PROVE  Witnessed' /\ Passed' /\ InstalledAtEnd'
BY ClaimedNothing
   DEF Forget, Witnessed, Passed, InstalledAtEnd, Behind, NoInventory

\* Turning to a step: everything before it is behind the loop.
LEMMA NextStepPassed ==
    ASSUME TypeOK, Passed, pc = "next", NEW s \in Steps, IsNext(s)
    PROVE  \A t \in plan : t < s => rep[t] \in Done /\ t # s
<1> SUFFICES ASSUME NEW t \in plan, t < s PROVE rep[t] \in Done /\ t # s
  OBVIOUS
<1>1. t \in Int /\ s \in Int /\ at \in Int
  BY ConstantFacts DEF TypeOK
<1>2. t <= at
  BY <1>1 DEF IsNext
<1> QED BY <1>1, <1>2 DEF Passed, Behind

\* A recorded failure claims nothing and stays behind no step.
LEMMA FailIInv ==
    ASSUME IInv, Fail, pc \in {"confirm", "apply", "verify"},
           UNCHANGED <<reportFile, verified, planned>>
    PROVE  Witnessed' /\ Passed' /\ InstalledAtEnd'
<1>1. at \in Steps /\ rep \in [Steps -> StepStatus] /\ plan \subseteq Steps
  BY DEF IInv, TypeOK
<1>2. /\ rep' = [rep EXCEPT ![at] = "failed"]
      /\ inv'.status = "failed" /\ pc' = "saveFail"
      /\ UNCHANGED <<plan, at, completed>>
  BY DEF Fail, MarkStepFailure
<1>3. Claimed(rep') \subseteq Claimed(rep)
  BY <1>1, <1>2, ClaimedUpdate DEF StepStatus
<1>4. Witnessed'
  BY <1>2, <1>3 DEF IInv, Witnessed
<1>5. \A t \in plan : t < at => rep'[t] = rep[t]
  BY <1>1, <1>2, ConstantFacts
<1>6. Passed'
  BY <1>2, <1>5 DEF IInv, Passed, Behind
<1>7. InstalledAtEnd'
  BY <1>2 DEF InstalledAtEnd
<1> QED BY <1>4, <1>6, <1>7

\* Recording the step the loop turned to as done without looking at its node.
LEMMA RecordIInv ==
    ASSUME IInv, pc = "next", NEW s \in Steps, IsNext(s),
           NEW st \in Done, rep' = [rep EXCEPT ![s] = st],
           at' = s, inv' = MarkStepSuccess(inv, s), pc' = "saveSkip",
           UNCHANGED <<plan, completed, reportFile, verified>>,
           planned \subseteq planned', s \in verified \cup planned'
    PROVE  Witnessed' /\ Passed' /\ InstalledAtEnd'
<1>1. rep \in [Steps -> StepStatus] /\ plan \subseteq Steps /\ st \in StepStatus
  BY DEF IInv, TypeOK, Done, StepStatus
<1>2. Claimed(rep') \subseteq Claimed(rep) \cup {s}
  BY <1>1, ClaimedUpdate
<1>3. Witnessed'
  BY <1>2 DEF IInv, Witnessed
<1>4. \A t \in plan : t < s => rep'[t] \in Done
  BY <1>1, NextStepPassed DEF IInv
<1>5. rep'[s] \in Done
  BY <1>1
<1>6. \A t \in plan : t <= s => rep'[t] \in Done
  BY <1>1, <1>4, <1>5, ConstantFacts
<1>7. Passed'
  BY <1>4, <1>6 DEF Passed
<1>8. InstalledAtEnd'
  BY DEF InstalledAtEnd, MarkStepSuccess
<1> QED BY <1>3, <1>7, <1>8

\* Turning to a step that is to be checked on its node.
LEMMA TurnIInv ==
    ASSUME IInv, pc = "next", NEW s \in Steps, IsNext(s),
           at' = s, pc' \in {"confirm", "apply"},
           UNCHANGED <<plan, completed, rep, inv, reportFile, verified, planned>>
    PROVE  Witnessed' /\ Passed' /\ InstalledAtEnd'
<1>1. \A t \in plan : t < s => rep[t] \in Done
  BY NextStepPassed DEF IInv
<1>2. inv.status # "installed"
  BY DEF IInv, InstalledAtEnd
<1> QED BY <1>1, <1>2 DEF IInv, Witnessed, Passed, InstalledAtEnd, Behind
LEMMA IInvInit == Init => IInv
<1> SUFFICES ASSUME Init PROVE IInv
  OBVIOUS
<1>1. TypeOK
  BY TypeInit
<1>2. Witnessed
  BY ClaimedNothing DEF Init, Witnessed
<1>3. Passed /\ InstalledAtEnd
  BY DEF Init, Passed, InstalledAtEnd, Behind, NoInventory
<1> QED BY <1>1, <1>2, <1>3 DEF IInv

LEMMA IInvEngine == IInv /\ Engine => Witnessed' /\ Passed' /\ InstalledAtEnd'
<1> SUFFICES ASSUME IInv, Engine
             PROVE  Witnessed' /\ Passed' /\ InstalledAtEnd'
  OBVIOUS
<1> USE ConstantFacts
<1>1. CASE Begin
  <2>1. /\ pc' = "next" /\ completed' = PriorClaims
        /\ UNCHANGED <<plan, at, rep, inv, reportFile, verified, planned>>
    BY <1>1 DEF Begin, history
  <2>2. PriorClaims \subseteq verified \cup planned
    BY DEF PriorClaims, IInv, Witnessed
  <2>3. at = 0 /\ inv.status # "installed"
    BY <1>1 DEF Begin, IInv, Passed, InstalledAtEnd
  <2>4. Witnessed'
    BY <2>1, <2>2 DEF IInv, Witnessed
  <2>5. \A t \in plan : ~(t <= at)
    BY <2>3 DEF IInv, TypeOK, Steps
  <2>6. Passed' /\ InstalledAtEnd'
    BY <2>1, <2>3, <2>5 DEF IInv, Passed, InstalledAtEnd
  <2> QED BY <2>4, <2>6
<1>0. CASE Refuse
  BY <1>0, ForgetIInv DEF Refuse, IInv, Witnessed
<1>2. ASSUME NEW s \in Steps, SkipCompleted(s)
      PROVE  Witnessed' /\ Passed' /\ InstalledAtEnd'
  <2>1. s \in verified \cup planned
    BY <1>2 DEF SkipCompleted, IInv, Witnessed
  <2> QED
    BY <1>2, <2>1, RecordIInv DEF SkipCompleted, Done, files, history
<1>3. ASSUME NEW s \in Steps, DryRun(s)
      PROVE  Witnessed' /\ Passed' /\ InstalledAtEnd'
  BY <1>3, RecordIInv DEF DryRun, Done, files
<1>4. ASSUME NEW s \in Steps, CheckDone(s)
      PROVE  Witnessed' /\ Passed' /\ InstalledAtEnd'
  BY <1>4, TurnIInv DEF CheckDone, files, history
<1>5. ASSUME NEW s \in Steps, CheckNotDone(s)
      PROVE  Witnessed' /\ Passed' /\ InstalledAtEnd'
  BY <1>5, TurnIInv DEF CheckNotDone, history
<1>6. CASE Apply
  BY <1>6
     DEF Apply, memory, files, IInv, Witnessed, Passed, InstalledAtEnd, Behind
<1>7. CASE ApplyFails
  BY <1>7, FailIInv DEF ApplyFails, files
<1>8. CASE VerifyOk
  <2>1. /\ at \in plan /\ at \in Steps /\ plan \subseteq Steps
        /\ rep \in [Steps -> StepStatus]
    BY <1>8 DEF VerifyOk, IInv, TypeOK
  <2>2. PICK st \in {"skipped", "ok"} : rep' = [rep EXCEPT ![at] = st]
    BY <1>8 DEF VerifyOk
  <2>3. Claimed(rep') \subseteq Claimed(rep) \cup {at}
    BY <2>1, <2>2, ClaimedUpdate DEF StepStatus
  <2>4. Witnessed'
    BY <1>8, <2>3 DEF VerifyOk, IInv, Witnessed, files
  <2>5. \A t \in plan : t <= at => rep'[t] \in Done
    BY <2>1, <2>2 DEF IInv, Passed, Done
  <2>6. Passed'
    BY <1>8, <2>1, <2>5 DEF VerifyOk, Passed
  <2>7. InstalledAtEnd'
    BY <1>8 DEF VerifyOk, InstalledAtEnd, MarkStepSuccess
  <2> QED BY <2>4, <2>6, <2>7
<1>9. CASE VerifyFails
  BY <1>9, FailIInv DEF VerifyFails, files, history
<1>10. CASE LoopEnds
  BY <1>10
     DEF LoopEnds, LoopIsOver, files, history, IInv, Witnessed, Passed,
         InstalledAtEnd, Behind
<1>11. CASE SaveInventory
  <2>1. /\ UNCHANGED <<plan, at, completed, rep, inv>>
        /\ UNCHANGED <<reportFile, verified, planned>>
        /\ pc' \in {"next", "reportOk", "reportFail", "reportEnd"}
        /\ pc' \in Behind => pc \in Behind
        /\ pc' = "reportEnd" <=> pc = "saveEnd"
        /\ pc # "reportEnd"
    BY <1>11 DEF SaveInventory, memory, history, Behind
  <2> QED BY <2>1 DEF IInv, Witnessed, Passed, InstalledAtEnd
<1>12. CASE WriteReports
  <2>1. reportFile' \in {reportFile, rep, NoReport}
        /\ UNCHANGED <<verified, planned>>
    BY <1>12, WrittenSpent DEF WriteReports, Written
  <2>2. Claimed(reportFile') \subseteq verified' \cup planned'
    BY <2>1, ClaimedNothing DEF IInv, Witnessed
  <2>3. CASE pc = "reportOk"
    BY <1>12, <2>1, <2>2, <2>3
       DEF WriteReports, memory, IInv, Witnessed, Passed, InstalledAtEnd,
           Behind
  <2>4. CASE pc # "reportOk"
    BY <1>12, <2>2, <2>4, ForgetIInv DEF WriteReports
  <2> QED BY <2>3, <2>4
<1> QED
  BY <1>0, <1>1, <1>2, <1>3, <1>4, <1>5, <1>6, <1>7, <1>8, <1>9, <1>10, <1>11,
     <1>12
     DEF Engine

LEMMA IInvNext == IInv /\ [Next]_vars => IInv'
<1> SUFFICES ASSUME IInv, [Next]_vars PROVE IInv'
  OBVIOUS
<1>1. TypeOK'
  BY TypeNext DEF IInv
<1>2. Witnessed' /\ Passed' /\ InstalledAtEnd'
  <2>1. CASE StartRun
    <3>1. PICK k \in AllRunKinds, p \in Plans : Start(k, p)
      BY <2>1 DEF StartRun
    <3>2. /\ at' = 0 /\ rep' = NoReport /\ completed' = {} /\ pc' = "begin"
          /\ inv'.status = "installing" /\ plan' \subseteq Steps
          /\ UNCHANGED <<reportFile, verified, planned>>
      BY <3>1, ConstantFacts
         DEF Start, InitialInventory, MarkInstalling, files, history
    <3>3. \A t \in plan' : ~(t < 0)
      BY <3>2, ConstantFacts DEF Steps
    <3> QED
      BY <3>2, <3>3, ClaimedNothing
         DEF IInv, Witnessed, Passed, InstalledAtEnd, Behind
  <2>2. CASE Engine
    BY <2>2, IInvEngine
  <2>3. CASE Crash
    <3>1. reportFile' \in {reportFile, NoReport}
          /\ UNCHANGED <<verified, planned>> /\ Forget /\ pc' = "idle"
      BY <2>3 DEF Crash
    <3>2. Claimed(reportFile') \subseteq verified' \cup planned'
      BY <3>1, ClaimedNothing DEF IInv, Witnessed
    <3> QED BY <3>1, <3>2, ForgetIInv
  <2>4. ASSUME NEW s \in Steps, Drift(s) \/ Repair(s)
        PROVE  Witnessed' /\ Passed' /\ InstalledAtEnd'
    BY <2>4
       DEF Drift, Repair, memory, files, history, IInv, Witnessed, Passed,
           InstalledAtEnd, Behind
  <2>5. CASE UNCHANGED vars
    BY <2>5
       DEF vars, memory, files, history, IInv, Witnessed, Passed,
           InstalledAtEnd, Behind
  <2> QED BY <2>1, <2>2, <2>3, <2>4, <2>5 DEF Next
<1> QED BY <1>1, <1>2 DEF IInv

\* The strengthening is an invariant.
THEOREM IInvHolds == Spec => []IInv
BY IInvInit, IInvNext, PTL DEF Spec

\* However runs crash, lose writes and resume with another plan: what the
\* report on disk calls done was verified on its node or planned by a dry run.
THEOREM ReportIsWitnessed == Spec => []ClaimsAreWitnessed
<1>1. IInv => ClaimsAreWitnessed
  BY DEF IInv, Witnessed, ClaimsAreWitnessed
<1> QED BY <1>1, IInvHolds, PTL

\* No step is checked, applied or verified before every step ahead of it in
\* the plan was found working at some time, or planned.
THEOREM PlanOrderIsKept == Spec => []OrderRespected
<1>1. IInv => OrderRespected
  <2> SUFFICES ASSUME IInv, NEW t \in plan, t < at
               PROVE  t \in verified \cup planned
    BY DEF OrderRespected
  <2>1. rep[t] \in Done /\ t \in Steps
    BY DEF IInv, Passed, TypeOK
  <2> QED BY <2>1 DEF IInv, Witnessed, Claimed
<1> QED BY <1>1, IInvHolds, PTL

\* The inventory comes to say "installed" only at the end of a run each of
\* whose steps was verified at some time, or planned.
THEOREM InstalledMeansDone == Spec => InstalledOnlyWhenDone
<1>1. IInv /\ [Next]_vars =>
        [(invFile'.status = "installed" /\ invFile' # invFile)
            => plan \subseteq verified \cup planned]_vars
  <2> SUFFICES ASSUME IInv, Next,
                      invFile'.status = "installed", invFile' # invFile
               PROVE  plan \subseteq verified \cup planned
    BY DEF vars, files
  <2>1. invFile' = inv /\ (Begin \/ Refuse \/ SaveInventory)
    <3>1. CASE Begin
      BY <3>1 DEF Begin
    <3>0. CASE Refuse
      BY <3>0 DEF Refuse, Written, NoInventory
    <3>2. CASE SaveInventory
      BY <3>2 DEF SaveInventory, Written, NoInventory
    <3>3. CASE Crash
      BY <3>3 DEF Crash, NoInventory
    <3>4. CASE StartRun
      BY <3>4 DEF StartRun, Start, files
    <3>5. ASSUME NEW s \in Steps,
                 \/ SkipCompleted(s) \/ DryRun(s) \/ CheckDone(s)
                 \/ CheckNotDone(s) \/ Drift(s) \/ Repair(s)
          PROVE  FALSE
      BY <3>5 DEF SkipCompleted, DryRun, CheckDone, CheckNotDone, Drift,
                  Repair, files
    <3>6. CASE \/ Apply \/ ApplyFails \/ VerifyOk \/ VerifyFails \/ LoopEnds
               \/ WriteReports
      BY <3>6 DEF Apply, ApplyFails, VerifyOk, VerifyFails, LoopEnds,
                  WriteReports, files
    <3> QED BY <3>0, <3>1, <3>2, <3>3, <3>4, <3>5, <3>6 DEF Next, Engine
  <2>2. pc = "saveEnd"
    BY <2>1 DEF Begin, Refuse, SaveInventory, IInv, InstalledAtEnd
  <2>3. \A t \in plan : rep[t] \in Done /\ t \in Steps
    BY <2>2 DEF IInv, InstalledAtEnd, Passed, Behind, TypeOK
  <2> QED BY <2>3 DEF IInv, Witnessed, Claimed
<1> QED BY <1>1, IInvHolds, PTL DEF Spec, InstalledOnlyWhenDone
------------------------------------------------------------------------------
(***************************************************************************)
(* What a run carries over from the report it found.                       *)
(***************************************************************************)

\* What the report on disk calls done, a resume knows of: it read it as
\* completed, or has recorded it since.
Carried ==
    pc \notin {"idle", "begin"} /\ IsResume(kind)
        => Claimed(reportFile) \subseteq completed \cup Claimed(rep)

\* No step ahead of the current one is recorded as done, nor is the current
\* one while it is being looked at, or after it failed.
Ahead ==
    /\ \A t \in Claimed(rep) : t <= at
    /\ pc = "begin" => Claimed(rep) = {}
    /\ pc \in {"confirm", "apply", "verify", "saveFail", "reportFail"} =>
          at \notin completed \cup Claimed(rep)

Ledger == Carried /\ Ahead

\* A process that has gone away holds no claim.
LEMMA ForgetLedger ==
    ASSUME Forget, pc' = "idle"
    PROVE  Ledger' /\ Claimed(rep') = {} /\ completed' = {}
BY ClaimedNothing DEF Forget, Ledger, Carried, Ahead, IsResume

\* Recording the current step as done moves no other claim.
LEMMA RecordLedger ==
    ASSUME IInv, Ledger, NEW s \in Steps, NEW st \in Done,
           at' = s, rep' = [rep EXCEPT ![s] = st], at <= s,
           pc \in {"next", "confirm", "verify"}, pc' \in {"saveSkip", "saveOk"},
           UNCHANGED <<kind, completed, reportFile>>
    PROVE  Ledger' /\ Claimed(rep') = Claimed(rep) \cup {s}
<1>1. rep \in [Steps -> StepStatus] /\ at \in Int
  BY ConstantFacts DEF IInv, TypeOK
<1>2. Claimed(rep') = Claimed(rep) \cup {s}
  BY <1>1 DEF Claimed
<1>3. \A t \in Claimed(rep') : t <= at'
  <2>1. \A t \in Claimed(rep) : t <= at /\ t \in Int
    BY ConstantFacts DEF Ledger, Ahead, Claimed
  <2>2. s \in Int
    BY ConstantFacts
  <2> QED
    BY <1>1, <1>2, <2>1, <2>2
<1> QED
  BY <1>2, <1>3 DEF Ledger, Carried, Ahead

\* Turning to a step, which is ahead of all claims.
LEMMA TurnLedger ==
    ASSUME IInv, Ledger, pc = "next", NEW s \in Steps, IsNext(s), s \notin completed,
           at' = s, pc' \in {"confirm", "apply"},
           UNCHANGED <<kind, completed, rep, reportFile>>
    PROVE  Ledger'
<1>1. \A t \in Claimed(rep) : t <= at /\ t \in Int
  BY ConstantFacts DEF Ledger, Ahead, Claimed
<1>2. at \in Int /\ s \in Int /\ at < s
  BY ConstantFacts DEF IInv, TypeOK, IsNext
<1>3. \A t \in Claimed(rep) : t <= s /\ t # s
  BY <1>1, <1>2
<1> QED
  BY <1>3 DEF Ledger, Carried, Ahead

\* A failure takes no claim away: the step that failed was not claimed.
LEMMA FailLedger ==
    ASSUME IInv, Ledger, Fail, pc \in {"confirm", "apply", "verify"},
           UNCHANGED reportFile
    PROVE  Ledger' /\ Claimed(rep') = Claimed(rep)
<1>1. rep \in [Steps -> StepStatus] /\ at \notin Claimed(rep)
  BY DEF IInv, TypeOK, Ledger, Ahead
<1>2. rep' = [rep EXCEPT ![at] = "failed"] /\ pc' = "saveFail"
      /\ UNCHANGED <<kind, plan, at, completed>>
  BY DEF Fail
<1>3. Claimed(rep') = Claimed(rep)
  BY <1>1, <1>2 DEF Claimed, Done
<1> QED
  BY <1>2, <1>3 DEF Ledger, Carried, Ahead

LEMMA LedgerInit == Init => Ledger
BY ClaimedNothing DEF Init, Ledger, Carried, Ahead

LEMMA LedgerEngine == IInv /\ Ledger /\ Engine => Ledger'
<1> SUFFICES ASSUME IInv, Ledger, Engine PROVE Ledger'
  OBVIOUS
<1>1. CASE Begin
  <2>1. /\ pc = "begin" /\ pc' = "next" /\ completed' = PriorClaims
        /\ UNCHANGED <<kind, at, rep, reportFile>>
    BY <1>1 DEF Begin
  <2>2. IsResume(kind) => Claimed(reportFile) \subseteq PriorClaims
    BY DEF PriorClaims
  <2> QED
    BY <2>1, <2>2 DEF Ledger, Carried, Ahead
<1>2. CASE Refuse
  BY <1>2, ForgetLedger DEF Refuse
<1>3. ASSUME NEW s \in Steps, SkipCompleted(s) \/ DryRun(s) PROVE Ledger'
  <2>1. PICK st \in Done : rep' = [rep EXCEPT ![s] = st]
    BY <1>3 DEF SkipCompleted, DryRun, Done
  <2>2. /\ pc = "next" /\ pc' = "saveSkip" /\ at' = s
        /\ UNCHANGED <<kind, completed, reportFile>>
    BY <1>3 DEF SkipCompleted, DryRun, files
  <2>3. at <= s
    BY <1>3, ConstantFacts DEF SkipCompleted, DryRun, IsNext, IInv, TypeOK
  <2> QED
    BY <2>1, <2>2, <2>3, RecordLedger
<1>4. ASSUME NEW s \in Steps, CheckDone(s) \/ CheckNotDone(s) PROVE Ledger'
  BY <1>4, TurnLedger DEF CheckDone, CheckNotDone, files
<1>5. CASE Apply
  BY <1>5 DEF Apply, memory, files, Ledger, Carried, Ahead
<1>6. CASE ApplyFails \/ VerifyFails
  BY <1>6, FailLedger DEF ApplyFails, VerifyFails, files
<1>7. CASE VerifyOk
  <2>1. PICK st \in Done : rep' = [rep EXCEPT ![at] = st]
    BY <1>7 DEF VerifyOk, Done
  <2>2. /\ pc \in {"confirm", "verify"} /\ pc' \in {"saveSkip", "saveOk"} /\ at' = at
        /\ UNCHANGED <<kind, completed, reportFile>>
    BY <1>7 DEF VerifyOk, files
  <2>3. at \in Steps /\ at <= at
    BY <2>2, ConstantFacts DEF IInv, TypeOK
  <2> QED
    BY <2>1, <2>2, <2>3, RecordLedger
<1>8. CASE LoopEnds
  BY <1>8 DEF LoopEnds, files, Ledger, Carried, Ahead
<1>9. CASE SaveInventory
  BY <1>9 DEF SaveInventory, memory, Ledger, Carried, Ahead
<1>10. CASE WriteReports
  <2>1. CASE pc = "reportOk"
    <3>1. reportFile' \in {reportFile, rep, NoReport} /\ pc' = "next"
          /\ UNCHANGED memory
      BY <1>10, <2>1 DEF WriteReports, Written
    <3> QED
      BY <2>1, <3>1, ClaimedNothing DEF memory, Ledger, Carried, Ahead
  <2>2. CASE pc # "reportOk"
    BY <1>10, <2>2, ForgetLedger DEF WriteReports
  <2> QED
    BY <2>1, <2>2
<1> QED
  BY <1>1, <1>2, <1>3, <1>4, <1>5, <1>6, <1>7, <1>8, <1>9, <1>10 DEF Engine

LEMMA LedgerNext == IInv /\ Ledger /\ [Next]_vars => Ledger'
<1> SUFFICES ASSUME IInv, Ledger, [Next]_vars PROVE Ledger'
  OBVIOUS
<1>1. CASE StartRun
  <2>1. PICK k \in AllRunKinds, p \in Plans : Start(k, p)
    BY <1>1 DEF StartRun
  <2> QED
    BY <2>1, ClaimedNothing DEF Start, files, Ledger, Carried, Ahead
<1>2. CASE Engine
  BY <1>2, LedgerEngine
<1>3. CASE Crash
  BY <1>3, ForgetLedger DEF Crash
<1>4. ASSUME NEW s \in Steps, Drift(s) \/ Repair(s) PROVE Ledger'
  BY <1>4 DEF Drift, Repair, memory, files, Ledger, Carried, Ahead
<1>5. CASE UNCHANGED vars
  BY <1>5 DEF vars, memory, files, Ledger, Carried, Ahead
<1> QED
  BY <1>1, <1>2, <1>3, <1>4, <1>5 DEF Next

LEMMA LedgerHolds == Spec => [](IInv /\ Ledger)
BY LedgerInit, LedgerNext, IInvInit, IInvNext, PTL DEF Spec

\* A resume never unlearns (install.go:134-155): the report it writes calls done
\* what the old one did, up to the step it stopped at; unless the write is lost.
THEOREM ProgressIsKept == Spec => ResumeKeepsProgress
<1>1. IInv /\ Ledger /\ [Next]_vars =>
        [(IsResume(kind) /\ reportFile' # reportFile /\ budget' = budget)
            => \A t \in Claimed(reportFile) \cap plan :
                  t <= at => t \in Claimed(reportFile')]_vars
  <2> SUFFICES ASSUME IInv, Ledger, Next, IsResume(kind),
                      reportFile' # reportFile, budget' = budget,
                      NEW t \in Claimed(reportFile) \cap plan, t <= at
               PROVE  t \in Claimed(reportFile')
    BY DEF vars, files
  <2>1. WriteReports
    <3>1. CASE Crash
      BY <3>1 DEF Crash, budget, IInv, TypeOK
    <3>2. CASE StartRun
      BY <3>2 DEF StartRun, Start, files
    <3>3. ASSUME NEW s \in Steps,
                 \/ SkipCompleted(s) \/ DryRun(s) \/ CheckDone(s)
                 \/ CheckNotDone(s) \/ Drift(s) \/ Repair(s)
          PROVE  FALSE
      BY <3>3 DEF SkipCompleted, DryRun, CheckDone, CheckNotDone, Drift,
                  Repair, files
    <3>4. CASE \/ Begin \/ Refuse \/ Apply \/ ApplyFails \/ VerifyOk
               \/ VerifyFails \/ LoopEnds \/ SaveInventory
      BY <3>4 DEF Begin, Refuse, Apply, ApplyFails, VerifyOk, VerifyFails,
                  LoopEnds, SaveInventory, files
    <3> QED
      BY <3>1, <3>2, <3>3, <3>4 DEF Next, Engine
  <2>2. reportFile' = rep
    <3>1. PICK f \in Written(reportFile, rep, NoReport) :
            reportFile' = f /\ Spend(f, rep)
      BY <2>1 DEF WriteReports
    <3>2. lost' = lost /\ lost \in Int
      BY ConstantFacts DEF budget, IInv, TypeOK
    <3> QED
      BY <3>1, <3>2 DEF Spend
  <2>3. pc \in {"reportOk", "reportFail", "reportEnd"}
    BY <2>1 DEF WriteReports
  <2>4. t \in Steps /\ t \in Int /\ at \in Int
    BY ConstantFacts DEF Claimed, IInv, TypeOK
  <2>5. CASE t < at \/ pc # "reportFail"
    <3>1. rep[t] \in Done
      BY <2>3, <2>4, <2>5 DEF IInv, Passed, Behind
    <3> QED
      BY <2>2, <2>4, <3>1 DEF Claimed
  <2>6. CASE t = at /\ pc = "reportFail"
    BY <2>3, <2>6 DEF Ledger, Carried, Ahead
  <2> QED
    BY <2>4, <2>5, <2>6
<1> QED
  BY <1>1, LedgerHolds, PTL DEF Spec, ResumeKeepsProgress

------------------------------------------------------------------------------
(* Half applied steps.                                                     *)

\* What is held to be done, on disk or in memory.
Held == Claimed(reportFile) \cup Claimed(rep) \cup completed

\* A claim of a half applied step, wherever it is held, is an outdated one.
Clean == dirty \cap Held \subseteq outdated

\* An Apply that comes to touch the current step leaves no other claim of a
\* half applied step than an outdated one: the run itself does not hold the
\* step done and, if it is a resume, neither does the report.
LEMMA TouchClean ==
    ASSUME IInv, Ledger, Clean, pc = "apply", Touch(at),
           Claimed(reportFile') \subseteq Claimed(reportFile),
           Claimed(rep') \subseteq Claimed(rep), completed' \subseteq completed
    PROVE  Clean'
<1>1. at \notin completed \cup Claimed(rep)
  BY DEF Ledger, Ahead
<1>2. CASE ~IsResume(kind) /\ at \in Claimed(reportFile)
  <2>1. dirty' = dirty \cup {at} /\ outdated' = outdated \cup {at}
    BY <1>2 DEF Touch
  <2> QED
    BY <2>1 DEF Clean, Held
<1>3. CASE ~(~IsResume(kind) /\ at \in Claimed(reportFile))
  <2>1. dirty' = dirty \cup {at} /\ outdated' = outdated \ {at}
    BY <1>3 DEF Touch
  <2>2. at \notin Claimed(reportFile)
    BY <1>1, <1>3 DEF Ledger, Carried
  <2> QED
    BY <1>1, <2>1, <2>2 DEF Clean, Held
<1> QED
  BY <1>2, <1>3

LEMMA CleanInit == Init => Clean
BY ClaimedNothing DEF Init, Clean, Held

LEMMA CleanEngine ==
    ASSUME IInv, Ledger, Clean, Engine
    PROVE  Clean'
<1>0. rep \in [Steps -> StepStatus]
  BY DEF IInv, TypeOK
<1>1. CASE Begin
  BY <1>1 DEF Begin, history, PriorClaims, Clean, Held
<1>2. CASE Refuse
  BY <1>2, ForgetLedger DEF Refuse, Forget, Clean, Held
<1>3. ASSUME NEW s \in Steps, SkipCompleted(s) PROVE Clean'
  <2>1. Claimed(rep') \subseteq Claimed(rep) \cup {s}
    BY <1>0, <1>3, ClaimedUpdate DEF SkipCompleted, StepStatus
  <2> QED
    BY <1>3, <2>1 DEF SkipCompleted, files, history, Clean, Held
<1>4. ASSUME NEW s \in Steps, DryRun(s) PROVE Clean'
  <2>1. Claimed(rep') \subseteq Claimed(rep) \cup {s}
    BY <1>0, <1>4, ClaimedUpdate DEF DryRun, StepStatus
  <2>2. /\ dirty' = dirty /\ outdated' = outdated \cup (dirty \cap {s})
        /\ UNCHANGED <<completed, reportFile>>
    BY <1>4 DEF DryRun, files
  <2> QED
    BY <2>1, <2>2 DEF Clean, Held
<1>5. ASSUME NEW s \in Steps, CheckDone(s) \/ CheckNotDone(s) PROVE Clean'
  BY <1>5 DEF CheckDone, CheckNotDone, files, history, Clean, Held
<1>6. CASE Apply \/ ApplyFails
  <2>1. pc = "apply" /\ Touch(at) /\ UNCHANGED <<completed, reportFile>>
    BY <1>6 DEF Apply, ApplyFails, Fail, memory, files
  <2>2. Claimed(rep') = Claimed(rep)
    BY <1>6, <2>1, FailLedger DEF Apply, ApplyFails, memory, files
  <2> QED
    BY <2>1, <2>2, TouchClean
<1>7. CASE VerifyOk
  <2>1. PICK st \in {"skipped", "ok"} : rep' = [rep EXCEPT ![at] = st]
    BY <1>7 DEF VerifyOk
  <2>2. at \in Steps
    BY <1>7 DEF VerifyOk, IInv, TypeOK
  <2>3. Claimed(rep') \subseteq Claimed(rep) \cup {at}
    BY <1>0, <2>1, <2>2, ClaimedUpdate DEF StepStatus
  <2>4. /\ dirty' = dirty \ {at} /\ outdated' = outdated \ {at}
        /\ UNCHANGED <<completed, reportFile>>
    BY <1>7 DEF VerifyOk, files
  <2> QED
    BY <2>3, <2>4 DEF Clean, Held
<1>8. CASE VerifyFails
  <2>1. Claimed(rep') = Claimed(rep)
    BY <1>8, FailLedger DEF VerifyFails, files
  <2> QED
    BY <1>8, <2>1 DEF VerifyFails, Fail, files, history, Clean, Held
<1>9. CASE LoopEnds \/ SaveInventory
  BY <1>9 DEF LoopEnds, SaveInventory, memory, files, history, Clean, Held
<1>10. CASE WriteReports
  <2>1. /\ reportFile' \in {reportFile, rep, NoReport}
        /\ dirty' = dirty /\ outdated' = outdated
    BY <1>10 DEF WriteReports, Written
  <2>2. dirty' \cap Claimed(reportFile') \subseteq outdated'
    BY <2>1, ClaimedNothing DEF Clean, Held
  <2>3. CASE pc = "reportOk"
    BY <1>10, <2>1, <2>2, <2>3 DEF WriteReports, memory, Clean, Held
  <2>4. CASE pc # "reportOk"
    BY <1>10, <2>2, <2>4, ForgetLedger DEF WriteReports, Forget, Clean, Held
  <2> QED
    BY <2>3, <2>4
<1> QED
  BY <1>1, <1>2, <1>3, <1>4, <1>5, <1>6, <1>7, <1>8, <1>9, <1>10 DEF Engine

LEMMA CleanNext ==
    ASSUME IInv, Ledger, Clean, [Next]_vars
    PROVE  Clean'
<1>1. CASE StartRun
  <2>1. PICK k \in AllRunKinds, p \in Plans : Start(k, p)
    BY <1>1 DEF StartRun
  <2> QED
    BY <2>1, ClaimedNothing DEF Start, files, history, Clean, Held
<1>2. CASE Engine
  BY <1>2, CleanEngine
<1>3. CASE Crash
  <2>1. reportFile' \in {reportFile, NoReport} /\ Claimed(rep') = {}
        /\ completed' = {}
    BY <1>3, ForgetLedger DEF Crash
  <2>2. Claimed(reportFile') \subseteq Claimed(reportFile)
    BY <2>1, ClaimedNothing
  <2>3. CASE pc = "apply"
    BY <1>3, <2>1, <2>2, <2>3, TouchClean DEF Crash
  <2>4. CASE pc # "apply"
    BY <1>3, <2>1, <2>2, <2>4 DEF Crash, Clean, Held
  <2> QED
    BY <2>3, <2>4
<1>4. ASSUME NEW s \in Steps, Drift(s) \/ Repair(s) PROVE Clean'
  BY <1>4 DEF Drift, Repair, memory, files, history, Clean, Held
<1>5. CASE UNCHANGED vars
  BY <1>5 DEF vars, memory, files, history, Clean, Held
<1> QED
  BY <1>1, <1>2, <1>3, <1>4, <1>5 DEF Next

\* Whatever runs the operator starts, dry runs and fresh runs over a report
\* among them, and whatever crashes, drifts or is lost: a report calls a step
\* done that was left half applied only if it is an earlier run's that a run
\* without --resume was killed over (or failed to replace), or a dry run's.  A
\* resume (install.go:134-155) leaves no such claim.
THEOREM NothingHalfApplied == Spec => []NoHalfAppliedClaim
<1>1. IInv /\ Ledger /\ Clean /\ [Next]_vars => Clean'
  BY CleanNext
<1>2. Clean => NoHalfAppliedClaim
  BY DEF Clean, Held, NoHalfAppliedClaim
<1> QED
  BY <1>1, <1>2, CleanInit, LedgerHolds, PTL DEF Spec

------------------------------------------------------------------------------
(* Rollback records.                                                       *)

\* A guarded step that is being applied has its record.
Recorded ==
    lost = 0 =>
        /\ dirty \cap Guarded \subseteq records
        /\ pc \in {"apply", "verify"} => {at} \cap Guarded \subseteq records

LEMMA RecordedNext == TypeOK /\ Recorded /\ [Next]_vars => Recorded'
<1> SUFFICES ASSUME TypeOK, Recorded, [Next]_vars PROVE Recorded'
  OBVIOUS
<1> USE ConstantFacts
<1>1. lost \in 0 .. MaxLost
  BY DEF TypeOK
<1>2. ASSUME NEW s \in Steps, CheckNotDone(s) PROVE Recorded'
  <2>1. PICK r \in Written(records, records \cup RecordOf(s), records) :
          records' = r /\ Spend(r, records \cup RecordOf(s))
    BY <1>2 DEF CheckNotDone
  <2>2. CASE lost' = 0
    <3>1. records' = records \cup RecordOf(s) /\ lost = 0
      BY <1>1, <2>1, <2>2 DEF Spend
    <3>2. at' = s /\ dirty' = dirty
      BY <1>2 DEF CheckNotDone, history
    <3> QED
      BY <3>1, <3>2 DEF Recorded, RecordOf
  <2>3. CASE lost' # 0
    BY <2>3 DEF Recorded
  <2> QED
    BY <2>2, <2>3
<1>3. ASSUME NEW f, NEW new, Spend(f, new), lost' = 0 PROVE lost = 0
  BY <1>1, <1>3 DEF Spend
<1>4. CASE Begin
  BY <1>4 DEF Begin, history, budget, Recorded
<1>5. CASE Refuse
  <2>1. pc' = "idle" /\ UNCHANGED <<records, dirty>>
        /\ (lost' = lost \/ \E f : Spend(f, inv))
    BY <1>5 DEF Refuse
  <2> QED
    BY <1>3, <2>1 DEF Recorded
<1>6. ASSUME NEW s \in Steps, SkipCompleted(s) \/ DryRun(s) \/ CheckDone(s)
      PROVE  Recorded'
  BY <1>6 DEF SkipCompleted, DryRun, CheckDone, files, history, budget, Recorded
<1>7. CASE Apply
  BY <1>7 DEF Apply, Touch, memory, files, Recorded
<1>8. CASE ApplyFails
  BY <1>8 DEF ApplyFails, Touch, Fail, files, Recorded
<1>9. CASE VerifyOk
  BY <1>9 DEF VerifyOk, files, budget, Recorded
<1>10. CASE VerifyFails
  BY <1>10 DEF VerifyFails, Fail, files, history, Recorded
<1>11. CASE LoopEnds
  BY <1>11 DEF LoopEnds, files, history, budget, Recorded
<1>12. CASE SaveInventory
  <2>1. pc' \notin {"apply", "verify"} /\ UNCHANGED <<records, dirty>>
        /\ \E f : Spend(f, inv)
    BY <1>12 DEF SaveInventory, history
  <2> QED
    BY <1>3, <2>1 DEF Recorded
<1>13. CASE WriteReports
  <2>1. pc' \notin {"apply", "verify"} /\ UNCHANGED <<records, dirty>>
        /\ \E f : Spend(f, rep)
    BY <1>13 DEF WriteReports
  <2> QED
    BY <1>3, <2>1 DEF Recorded
<1>14. CASE Crash
  BY <1>14 DEF Crash, Touch, Recorded
<1>15. CASE StartRun
  BY <1>15 DEF StartRun, Start, files, history, budget, Recorded
<1>16. ASSUME NEW s \in Steps, Drift(s) \/ Repair(s) PROVE Recorded'
  BY <1>16 DEF Drift, Repair, memory, files, history, budget, Recorded
<1>17. CASE UNCHANGED vars
  BY <1>17 DEF vars, memory, files, history, budget, Recorded
<1> QED
  BY <1>2, <1>4, <1>5, <1>6, <1>7, <1>8, <1>9, <1>10, <1>11, <1>12, <1>13, <1>14,
     <1>15, <1>16, <1>17 DEF Next, Engine

\* As long as no write was lost, a guarded step that an Apply touched and no
\* Verify confirmed has a rollback record, however many runs died in an Apply
\* ("Saves rollback records before live changes", ARCHITECTURE.md:332).
THEOREM HalfAppliedRecorded == Spec => []HalfAppliedHasRecord
<1>1. Init => Recorded
  BY DEF Init, Recorded
<1>2. Recorded => HalfAppliedHasRecord
  BY DEF Recorded, HalfAppliedHasRecord
<1> QED
  BY <1>1, <1>2, RecordedNext, TypeInit, TypeNext, PTL DEF Spec

------------------------------------------------------------------------------
(* The report and the inventory.                                           *)

\* The steps a report calls failed.
FailedSteps(r) == {s \in Steps : r[s] = "failed"}

\* The inventory in memory tells what the report in memory tells.
Together ==
    /\ pc # "idle" => plan \in Plans
    /\ Claimed(rep) # {} =>
          inv.last \in Claimed(rep) /\ \A t \in Claimed(rep) : t <= inv.last
    /\ pc \in {"saveFail", "reportFail"} =>
          /\ FailedSteps(rep) = {at} /\ at \in Steps
          /\ inv.status = "failed" /\ inv.failed = at
    /\ pc \notin {"saveFail", "reportFail"} => FailedSteps(rep) = {}
    /\ pc \in Behind /\ at # 0 => inv.failed = 0
    /\ pc \in {"saveEnd", "reportEnd"} => at # 0 /\ inv.status = "installed"

\* When the report is about to be written and no write was lost, the inventory
\* in memory is on disk; and when a run is over, the files agree.
Agreed ==
    lost = 0 => /\ pc \in {"reportOk", "reportFail", "reportEnd"} => invFile = inv
                /\ FilesAgree

LEMMA NothingFailed == FailedSteps(NoReport) = {}
BY DEF FailedSteps, NoReport

LEMMA TogetherInit == Init => Together /\ Agreed
BY ClaimedNothing, NothingFailed DEF Init, Together, Behind, Agreed, FilesAgree

\* A process that has gone away tells nothing.
LEMMA ForgetTogether == Forget /\ pc' = "idle" => Together'
BY ClaimedNothing, NothingFailed DEF Forget, Together, Behind

\* A step recorded as done is the last one of the inventory.
LEMMA RecordTogether ==
    ASSUME IInv, Ledger, Together, NEW s \in Steps, NEW st \in Done,
           at' = s, rep' = [rep EXCEPT ![s] = st], at <= s,
           inv' = MarkStepSuccess(inv, s),
           pc \in {"next", "confirm", "verify"}, pc' \in {"saveSkip", "saveOk"},
           UNCHANGED <<kind, plan, completed, reportFile>>
    PROVE  Together'
<1>1. Claimed(rep') = Claimed(rep) \cup {s}
  BY RecordLedger
<1>2. \A t \in Claimed(rep') : t <= s
  <2>1. \A t \in Claimed(rep) : t <= at /\ t \in Int
    BY ConstantFacts DEF Ledger, Ahead, Claimed
  <2>2. s \in Int /\ at \in Int
    BY ConstantFacts DEF IInv, TypeOK
  <2> QED
    BY <1>1, <2>1, <2>2
<1>3. FailedSteps(rep') = {}
  <2>1. rep \in [Steps -> StepStatus] /\ FailedSteps(rep) = {}
    BY DEF IInv, TypeOK, Together
  <2> QED
    BY <2>1 DEF FailedSteps, Done
<1>4. inv'.last = s /\ inv'.failed = 0
  BY DEF MarkStepSuccess
<1> QED
  BY <1>1, <1>2, <1>3, <1>4 DEF Together

\* A failing step is the only failed one, in both.
LEMMA FailTogether ==
    ASSUME IInv, Ledger, Together, Fail, pc \in {"confirm", "apply", "verify"},
           UNCHANGED reportFile
    PROVE  Together'
<1>1. Claimed(rep') = Claimed(rep)
  BY FailLedger
<1>2. at \in Steps
  BY DEF IInv, TypeOK
<1>3. FailedSteps(rep') = {at}
  <2>1. rep \in [Steps -> StepStatus] /\ FailedSteps(rep) = {}
    BY DEF IInv, TypeOK, Together
  <2>2. rep' = [rep EXCEPT ![at] = "failed"]
    BY DEF Fail
  <2> QED
    BY <1>2, <2>1, <2>2 DEF FailedSteps
<1>4. inv'.last = inv.last /\ inv'.failed = at /\ inv'.status = "failed"
  BY DEF Fail, MarkStepFailure
<1> QED
  BY <1>1, <1>2, <1>3, <1>4 DEF Fail, Together, Behind

\* The loop ends after the last step of the plan, which every plan has.
LEMMA EndTogether == IInv /\ Together /\ LoopEnds => Together'
<1> SUFFICES ASSUME IInv, Together, LoopEnds PROVE Together'
  OBVIOUS
<1>1. at # 0
  <2>1. Reports \in plan
    BY StepsAssumption DEF Together, LoopEnds
  <2> QED
    BY <2>1, ConstantFacts DEF LoopEnds, LoopIsOver, Steps
<1>2. inv'.last = inv.last /\ inv'.failed = inv.failed /\ inv'.status = "installed"
  BY DEF LoopEnds, MarkInstalled
<1>3. pc = "next" /\ pc' = "saveEnd" /\ UNCHANGED <<plan, at, rep>>
  BY DEF LoopEnds
<1> QED
  BY <1>1, <1>2, <1>3 DEF Together, Behind

LEMMA TogetherEngine == IInv /\ Ledger /\ Together /\ Engine => Together'
<1> SUFFICES ASSUME IInv, Ledger, Together, Engine PROVE Together'
  OBVIOUS
<1>1. CASE Begin
  <2>1. pc = "begin" /\ pc' = "next" /\ UNCHANGED <<plan, at, rep, inv>> /\ at = 0
    BY <1>1 DEF Begin, IInv, Passed
  <2> QED
    BY <2>1 DEF Together, Behind
<1>2. CASE Refuse
  BY <1>2, ForgetTogether DEF Refuse
<1>3. ASSUME NEW s \in Steps, SkipCompleted(s) \/ DryRun(s) PROVE Together'
  <2>1. PICK st \in Done : rep' = [rep EXCEPT ![s] = st]
    BY <1>3 DEF SkipCompleted, DryRun, Done
  <2>2. /\ pc = "next" /\ pc' = "saveSkip" /\ at' = s
        /\ inv' = MarkStepSuccess(inv, s)
        /\ UNCHANGED <<kind, plan, completed, reportFile>>
    BY <1>3 DEF SkipCompleted, DryRun, files
  <2>3. at <= s
    BY <1>3, ConstantFacts DEF SkipCompleted, DryRun, IsNext, IInv, TypeOK
  <2> QED
    BY <2>1, <2>2, <2>3, RecordTogether
<1>4. ASSUME NEW s \in Steps, CheckDone(s) \/ CheckNotDone(s) PROVE Together'
  BY <1>4 DEF CheckDone, CheckNotDone, Together, Behind
<1>5. CASE Apply
  BY <1>5 DEF Apply, memory, Together, Behind
<1>6. CASE ApplyFails \/ VerifyFails
  BY <1>6, FailTogether DEF ApplyFails, VerifyFails, files
<1>7. CASE VerifyOk
  <2>1. PICK st \in Done : rep' = [rep EXCEPT ![at] = st]
    BY <1>7 DEF VerifyOk, Done
  <2>2. /\ pc \in {"confirm", "verify"} /\ pc' \in {"saveSkip", "saveOk"}
        /\ inv' = MarkStepSuccess(inv, at)
        /\ UNCHANGED <<kind, plan, at, completed, reportFile>>
    BY <1>7 DEF VerifyOk, files
  <2>3. at \in Steps /\ at <= at
    BY <2>2, ConstantFacts DEF IInv, TypeOK
  <2> QED
    BY <2>1, <2>2, <2>3, RecordTogether
<1>8. CASE LoopEnds
  BY <1>8, EndTogether
<1>9. CASE SaveInventory
  BY <1>9 DEF SaveInventory, memory, Together, Behind
<1>10. CASE WriteReports
  <2>1. CASE pc = "reportOk"
    BY <1>10, <2>1 DEF WriteReports, memory, Together, Behind
  <2>2. CASE pc # "reportOk"
    BY <1>10, <2>2, ForgetTogether DEF WriteReports
  <2> QED
    BY <2>1, <2>2
<1> QED
  BY <1>1, <1>2, <1>3, <1>4, <1>5, <1>6, <1>7, <1>8, <1>9, <1>10 DEF Engine

LEMMA TogetherNext == IInv /\ Ledger /\ Together /\ [Next]_vars => Together'
<1> SUFFICES ASSUME IInv, Ledger, Together, [Next]_vars PROVE Together'
  OBVIOUS
<1>1. CASE StartRun
  <2>1. PICK k \in AllRunKinds, p \in Plans : Start(k, p)
    BY <1>1 DEF StartRun
  <2> QED
    BY <2>1, ClaimedNothing, NothingFailed DEF Start, Together, Behind
<1>2. CASE Engine
  BY <1>2, TogetherEngine
<1>3. CASE Crash
  BY <1>3, ForgetTogether DEF Crash
<1>4. ASSUME NEW s \in Steps, Drift(s) \/ Repair(s) PROVE Together'
  BY <1>4 DEF Drift, Repair, memory, Together, Behind
<1>5. CASE UNCHANGED vars
  BY <1>5 DEF vars, memory, Together, Behind
<1> QED
  BY <1>1, <1>2, <1>3, <1>4, <1>5 DEF Next

\* A run that ends with both files written leaves files that agree.
LEMMA LastWriteAgrees ==
    ASSUME IInv, Together, Agreed, WriteReports, pc # "reportOk", lost' = 0
    PROVE  FilesAgree'
<1>1. lost = 0 /\ reportFile' = rep
  <2>1. PICK f \in Written(reportFile, rep, NoReport) :
          reportFile' = f /\ Spend(f, rep)
    BY DEF WriteReports
  <2>2. lost \in Nat
    BY ConstantFacts DEF IInv, TypeOK
  <2> QED
    BY <2>1, <2>2 DEF Spend
<1>2. pc \in {"reportFail", "reportEnd"} /\ invFile' = inv
  BY <1>1 DEF WriteReports, Agreed
<1>3. exit' = IF pc = "reportFail" THEN "failed" ELSE "ok"
  BY DEF WriteReports
<1>4. Claimed(rep) # {} =>
          inv.last \in Claimed(rep) /\ \A t \in Claimed(rep) : t <= inv.last
  BY DEF Together
<1>5. CASE pc = "reportFail"
  <2>1. at \in Steps /\ at # 0 /\ FailedSteps(rep) = {at}
        /\ inv.status = "failed" /\ inv.failed = at
    BY <1>5, ConstantFacts DEF Together, Steps
  <2> QED
    BY <1>1, <1>2, <1>3, <1>4, <1>5, <2>1 DEF FilesAgree, FailedSteps
<1>6. CASE pc = "reportEnd"
  <2>1. FailedSteps(rep) = {} /\ inv.status = "installed" /\ inv.failed = 0
    BY <1>6 DEF Together, Behind
  <2> QED
    BY <1>1, <1>2, <1>3, <1>4, <1>6, <2>1 DEF FilesAgree, FailedSteps
<1> QED
  BY <1>2, <1>5, <1>6

LEMMA AgreedNext == IInv /\ Together /\ Agreed /\ [Next]_vars => Agreed'
<1> SUFFICES ASSUME IInv, Together, Agreed, [Next]_vars, lost' = 0 PROVE Agreed'
  BY DEF Agreed
<1>0. lost \in Nat
  BY ConstantFacts DEF IInv, TypeOK
<1>1. CASE SaveInventory
  <2>1. PICK f \in Written(invFile, inv, NoInventory) :
          invFile' = f /\ Spend(f, inv)
    BY <1>1 DEF SaveInventory
  <2>2. invFile' = inv /\ inv' = inv /\ pc' # "idle"
    BY <1>0, <1>1, <2>1 DEF Spend, SaveInventory, memory
  <2> QED
    BY <2>2 DEF Agreed, FilesAgree
<1>2. CASE WriteReports
  <2>1. CASE pc = "reportOk"
    BY <1>2, <2>1 DEF WriteReports, Agreed, FilesAgree
  <2>2. CASE pc # "reportOk"
    BY <1>2, <2>2, LastWriteAgrees DEF WriteReports, Agreed
  <2> QED
    BY <2>1, <2>2
<1>3. CASE Refuse \/ Crash
  BY <1>3 DEF Refuse, Crash, Agreed, FilesAgree
<1>4. CASE \/ Begin \/ LoopEnds \/ Apply \/ ApplyFails \/ VerifyOk \/ VerifyFails
           \/ \E s \in Steps : \/ SkipCompleted(s) \/ DryRun(s) \/ CheckDone(s)
                               \/ CheckNotDone(s)
  <2>1. pc' \notin {"idle", "reportOk", "reportFail", "reportEnd"}
    BY <1>4 DEF Begin, LoopEnds, Apply, ApplyFails, VerifyOk, VerifyFails, Fail,
                SkipCompleted, DryRun, CheckDone, CheckNotDone
  <2> QED
    BY <2>1 DEF Agreed, FilesAgree
<1>5. CASE StartRun
  BY <1>5 DEF StartRun, Start, Agreed, FilesAgree
<1>6. CASE UNCHANGED vars \/ \E s \in Steps : Drift(s) \/ Repair(s)
  <2>1. UNCHANGED <<pc, inv, invFile, reportFile, exit>> /\ lost = 0
    BY <1>6 DEF Drift, Repair, vars, memory, files, history, budget
  <2> QED
    BY <2>1 DEF Agreed, FilesAgree, Claimed
<1> QED
  BY <1>1, <1>2, <1>3, <1>4, <1>5, <1>6 DEF Next, Engine

\* Unless a write was lost, a run that was not killed leaves a report and an
\* inventory that tell one story of it: which step failed, which one succeeded
\* last, and whether the cluster is installed (install.go:105-203).
THEOREM FilesTellOneStory == Spec => []FilesAgree
<1>1. Agreed => FilesAgree
  BY DEF Agreed, FilesAgree
<1> QED
  BY <1>1, TogetherInit, TogetherNext, AgreedNext, LedgerHolds, PTL DEF Spec
================================================================================
