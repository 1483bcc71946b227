---------------------------- MODULE AclTokensProofs ----------------------------
(***************************************************************************)
(* Proofs about AclTokens, for any order of the steps and any number of    *)
(* installs, sets of secrets and faults: what is kept of Nomad's token,    *)
(* what the control plane has of it (for any order that has Nomad before   *)
(* the control plane), and that a resume completes an install.             *)
(***************************************************************************)
EXTENDS AclTokens, TLAPS

LEMMA RunFields ==
  ASSUME TypeOK
  PROVE  /\ run.at \in Places
         /\ run.step \in 1 .. Len(Order)
         /\ run.plan \in Secrets
         /\ run.secrets \in Secrets
         /\ run.done \in SUBSET Components
         /\ run.completed \in SUBSET Components
  BY DEF TypeOK, Runs

LEMMA StepIsComponent == ASSUME TypeOK PROVE Step \in Components
<1>1. Order \in Seq(Components)
  BY OrderAssumption
<1> QED
  BY <1>1, RunFields DEF Step

LEMMA GeneratedType ==
  ASSUME NEW g \in Gens
  PROVE  /\ Generated(g) \in Secrets
         /\ Generated(g).nomad = g
         /\ Generated(g).nomad # Boot
  BY TokensAssumption DEF Generated, Secrets

LEMMA NoSecretsType == NoSecrets \in Secrets /\ NoSecrets.nomad # Boot
<1>1. 0 \in Gens
  BY BoundAssumption DEF Gens
<1> QED
  BY <1>1, GeneratedType DEF NoSecrets

LEMMA RunningType ==
  ASSUME NEW place \in Places, NEW step \in 1 .. Len(Order),
         NEW plan \in Secrets, NEW secrets \in Secrets,
         NEW done \in SUBSET Components, NEW completed \in SUBSET Components
  PROVE  LET running == Running(place, step, plan, secrets, done, completed)
         IN  /\ running \in Runs
             /\ running.at = place
             /\ running.plan = plan
             /\ running.secrets = secrets
  BY DEF Running, Runs

LEMMA OverType ==
  ASSUME NEW outcome \in {"none", "failed", "installed"}
  PROVE  /\ Over(outcome) \in Runs
         /\ Over(outcome).at = outcome
         /\ Over(outcome).plan.nomad # Boot
         /\ Over(outcome).secrets.nomad # Boot
<1>1. 1 \in 1 .. Len(Order)
  BY OrderAssumption
<1> QED
  BY <1>1, NoSecretsType, RunningType DEF Over, Places

(***************************************************************************)
(* The inductive invariant of Nomad's token.  The token does not exist     *)
(* before Nomad has made it; that is why it is not among the secrets the   *)
(* executor strikes out when it is printed.  From then on it is in the     *)
(* file, or about to be saved; and an install that runs has it in memory,  *)
(* so that what it saves for another component does not undo it.           *)
(***************************************************************************)
NotThere == run.at = "generate" => file = Missing

Unknown ==
  ~booted => /\ file # Missing => file.nomad # Boot
             /\ run.plan.nomad # Boot
             /\ run.secrets.nomad # Boot

Filed == file # Missing /\ file.nomad = Boot

Known ==
  booted /\ lost = {} => /\ run.at = "save" \/ Filed
                         /\ ~Idle => run.secrets.nomad = Boot

IInv == TypeOK /\ NotThere /\ Unknown /\ Known

LEMMA InitIInv == Init => IInv
<1> SUFFICES ASSUME Init PROVE IInv
  OBVIOUS
<1>1. run.at = "none" /\ run.plan.nomad # Boot /\ run.secrets.nomad # Boot
  BY OverType DEF Init
<1>2. TypeOK
  <2>1. run \in Runs
    BY OverType DEF Init
  <2>2. kinds \in Seq({"install", "resume"})
    BY DEF Init
  <2> QED
    <3>1. gens \in Gens /\ faults \in 0 .. MaxFaults
      BY BoundAssumption DEF Init, Gens
    <3>2. booted \in BOOLEAN /\ env \in Secrets
      BY NoSecretsType DEF Init
    <3>3. file \in Secrets \cup {Missing} /\ report = {} /\ installed = {}
          /\ accepts = {} /\ lost = {} /\ emptied = FALSE
      BY DEF Init
    <3> QED
      BY <2>1, <2>2, <3>1, <3>2, <3>3 DEF TypeOK
<1>3. NotThere /\ Unknown /\ Known
  BY <1>1 DEF Init, NotThere, Unknown, Known
<1> QED
  BY <1>2, <1>3 DEF IInv

\* The next step of an install, or its end.
LEMMA AfterStep ==
  ASSUME TypeOK, NEW applied \in BOOLEAN, StepDone(applied)
  PROVE  /\ run' \in Runs
         /\ report' \subseteq Components
         /\ \/ /\ run'.at = "step"
               /\ run'.plan = run.plan
               /\ run'.secrets = run.secrets
            \/ run' = Over("installed")
<1> DEFINE done == run.done \cup {Step}
<1>1. done \in SUBSET Components
  BY StepIsComponent DEF TypeOK, Runs
<1>2. report' \subseteq Components
  BY <1>1 DEF StepDone, TypeOK
<1>3. CASE run.step = Len(Order)
  BY <1>2, <1>3, OverType DEF StepDone
<1>4. CASE run.step # Len(Order)
  <2>1. run.step + 1 \in 1 .. Len(Order)
    <3>1. Len(Order) \in Nat
      BY OrderAssumption
    <3> QED
      BY <1>4, <3>1, RunFields
  <2>2. run' = Running("step", run.step + 1, run.plan, run.secrets, done,
                       run.completed)
    BY <1>4 DEF StepDone, Plan
  <2> QED
    <3> "step" \in Places
      BY DEF Places
    <3> HIDE DEF done
    <3> QED
      BY <1>1, <1>2, <2>1, <2>2, RunFields, RunningType
<1> QED
  BY <1>3, <1>4

LEMMA AfterFailure ==
  ASSUME TypeOK, StepFailed
  PROVE  run' = Over("failed") /\ report' \subseteq Components
  BY DEF StepFailed, TypeOK, Runs

LEMMA AfterUpdate ==
  ASSUME TypeOK, NEW secrets \in Secrets, UpdateBootstrapSecrets(secrets)
  PROVE  /\ run' \in Runs
         /\ run'.at = "save"
         /\ run'.plan = run.plan
         /\ run'.secrets = secrets
<1> "save" \in Places
  BY DEF Places
<1> QED
  BY RunFields, RunningType DEF UpdateBootstrapSecrets, Plan

LEMMA AfterGoing ==
  ASSUME TypeOK, NEW place \in Places, To(place)
  PROVE  /\ run' \in Runs
         /\ run'.at = place
         /\ run'.plan = run.plan
         /\ run'.secrets = run.secrets
  BY DEF To, TypeOK, Runs

\* An install that ended, with the file and Nomad as they were.
LEMMA Ended ==
  ASSUME IInv, NEW outcome \in {"none", "failed", "installed"},
         run.at # "save", run' = Over(outcome), file' = file, booted' = booted,
         lost \subseteq lost'
  PROVE  (NotThere /\ Unknown /\ Known)'
  BY OverType DEF IInv, NotThere, Unknown, Known, Filed, Idle

\* A run that goes on, with the file and Nomad as they were.
LEMMA WentOn ==
  ASSUME IInv, run.at \in {"step", "verify"}, run'.at \in {"step", "verify", "save"},
         run'.plan = run.plan, run'.secrets.nomad = run.secrets.nomad,
         file' = file, booted' = booted, lost' = lost
  PROVE  (NotThere /\ Unknown /\ Known)'
  BY DEF IInv, NotThere, Unknown, Known, Filed, Idle

\* The step of an install is over, one way or another.
LEMMA StepEnded ==
  ASSUME IInv, run.at \in {"step", "verify"},
         NEW applied \in BOOLEAN, StepDone(applied) \/ StepFailed,
         file' = file, booted' = booted, lost' = lost
  PROVE  run' \in Runs /\ report' \subseteq Components
         /\ (NotThere /\ Unknown /\ Known)'
<1> TypeOK
  BY DEF IInv
<1>0. run.at # "save" /\ lost \subseteq lost'
  OBVIOUS
<1>1. CASE run' = Over("failed") /\ report' \subseteq Components
  <2>1. (NotThere /\ Unknown /\ Known)'
    BY <1>0, <1>1, Ended
  <2> QED
    BY <1>1, <2>1, OverType
<1>2. CASE run' = Over("installed") /\ report' \subseteq Components
  <2>1. (NotThere /\ Unknown /\ Known)'
    BY <1>0, <1>2, Ended
  <2> QED
    BY <1>2, <2>1, OverType
<1>3. CASE /\ run' \in Runs /\ report' \subseteq Components
           /\ run'.at = "step" /\ run'.plan = run.plan /\ run'.secrets = run.secrets
  BY <1>3, WentOn
<1> QED
  BY <1>1, <1>2, <1>3, AfterStep, AfterFailure, OverType

LEMMA StartPreserves ==
  ASSUME IInv, NEW kind \in {"install", "resume"}, Start(kind)
  PROVE  IInv'
<1> TypeOK
  BY DEF IInv
<1> DEFINE completed == IF kind = "resume" THEN report ELSE {}
<1>1. completed \in SUBSET Components
  BY DEF TypeOK
<1>2. 1 \in 1 .. Len(Order)
  BY OrderAssumption
<1>3. "step" \in Places /\ "generate" \in Places /\ {} \in SUBSET Components
  BY DEF Places
<1>4. kinds' \in Seq({"install", "resume"})
  <2>1. kinds' = Append(kinds, kind) /\ kinds \in Seq({"install", "resume"})
    BY DEF Start, TypeOK
  <2> QED
    BY <2>1
<1>5. UNCHANGED <<file, report, nodeVars, lost, emptied, faults>> /\ Idle
  BY DEF Start
<1>6. CASE /\ file # Missing /\ UNCHANGED gens
           /\ run' = Running("step", 1, file, file, {}, completed)
  <2>1. file \in Secrets
    BY <1>6 DEF TypeOK
  <2>2. run' \in Runs /\ run'.at = "step" /\ run'.plan = file /\ run'.secrets = file
    <3> HIDE DEF completed
    <3> QED
      BY <1>1, <1>2, <1>3, <1>6, <2>1, RunningType
  <2>3. TypeOK'
    BY <1>4, <1>5, <1>6, <2>2 DEF TypeOK, nodeVars
  <2>4. (NotThere /\ Unknown /\ Known)'
    BY <1>5, <1>6, <2>2 DEF IInv, NotThere, Unknown, Known, Filed, Idle, nodeVars
  <2> QED
    BY <2>3, <2>4 DEF IInv
<1>7. CASE /\ file = Missing /\ gens < MaxGens /\ gens' = gens + 1
           /\ run' = Running("generate", 1, Generated(gens + 1),
                             Generated(gens + 1), {}, completed)
  <2>1. gens + 1 \in Gens
    <3>1. gens \in 0 .. MaxGens /\ MaxGens \in Nat
      BY BoundAssumption DEF TypeOK, Gens
    <3> QED
      BY <1>7, <3>1 DEF Gens
  <2>2. Generated(gens + 1) \in Secrets /\ Generated(gens + 1).nomad # Boot
    BY <2>1, GeneratedType
  <2>3. /\ run' \in Runs /\ run'.at = "generate"
        /\ run'.plan.nomad # Boot /\ run'.secrets.nomad # Boot
    <3> HIDE DEF completed
    <3> QED
      BY <1>1, <1>2, <1>3, <1>7, <2>2, RunningType
  <2>4. TypeOK'
    BY <1>4, <1>5, <1>7, <2>1, <2>3 DEF TypeOK, nodeVars
  <2>5. (NotThere /\ Unknown /\ Known)'
    BY <1>5, <1>7, <2>3 DEF IInv, NotThere, Unknown, Known, Filed, Idle, nodeVars
  <2> QED
    BY <2>4, <2>5 DEF IInv
<1> QED
  BY <1>6, <1>7 DEF Start

LEMMA FaultType == ASSUME TypeOK, Fault PROVE faults' \in 0 .. MaxFaults
<1>1. faults \in 0 .. MaxFaults /\ MaxFaults \in Nat
  BY BoundAssumption DEF TypeOK
<1> QED
  BY <1>1 DEF Fault

LEMMA EmptiedType == ASSUME TypeOK, NoteEmptied PROVE emptied' \in BOOLEAN
  BY DEF TypeOK, NoteEmptied

LEMMA SaveGeneratedPreserves ==
  ASSUME IInv, SaveGenerated
  PROVE  IInv'
<1> TypeOK
  BY DEF IInv
<1>1. UNCHANGED <<report, nodeVars, gens, kinds, lost>> /\ run.at = "generate"
  BY DEF SaveGenerated
<1>2. file = Missing
  BY <1>1 DEF IInv, NotThere
<1>0. emptied' \in BOOLEAN
  BY EmptiedType DEF SaveGenerated
<1>3. CASE file' = run.secrets /\ To("step") /\ UNCHANGED faults
  <2>1. /\ run' \in Runs /\ run'.at = "step" /\ run'.plan = run.plan
        /\ run'.secrets = run.secrets
    <3> "step" \in Places
      BY DEF Places
    <3> QED
      BY <1>3, AfterGoing
  <2>2. file' \in Secrets
    BY <1>3, RunFields
  <2>3. TypeOK'
    BY <1>0, <1>1, <1>3, <2>1, <2>2 DEF TypeOK, nodeVars
  <2>4. (NotThere /\ Unknown /\ Known)'
    BY <1>1, <1>2, <1>3, <2>1 DEF IInv, NotThere, Unknown, Known, Filed, Idle, nodeVars
  <2> QED
    BY <2>3, <2>4 DEF IInv
<1>4. CASE file' \in {file, NoSecrets} /\ run' = Over("failed") /\ Fault
  <2>1. /\ run' \in Runs /\ run'.at = "failed"
        /\ run'.plan.nomad # Boot /\ run'.secrets.nomad # Boot
    BY <1>4, OverType
  <2>2. faults' \in 0 .. MaxFaults
    BY <1>4, FaultType
  <2>3. TypeOK'
    BY <1>0, <1>1, <1>4, <2>1, <2>2, NoSecretsType DEF TypeOK, nodeVars
  <2>4. (NotThere /\ Unknown /\ Known)'
    BY <1>1, <1>2, <1>4, <2>1, NoSecretsType
    DEF IInv, NotThere, Unknown, Known, Filed, Idle, nodeVars
  <2> QED
    BY <2>3, <2>4 DEF IInv
<1> QED
  BY <1>3, <1>4 DEF SaveGenerated

\* What a step leaves alone when it only moves the install on.
LEMMA SkipPreserves ==
  ASSUME IInv, SkipCompleted \/ VerifyChecked \/ VerifyApplied
  PROVE  IInv'
<1> TypeOK
  BY DEF IInv
<1>1. UNCHANGED <<file, nodeVars, gens, kinds, lost, emptied, faults>>
      /\ run.at \in {"step", "verify"}
  BY DEF SkipCompleted, VerifyChecked, VerifyApplied
<1>2. PICK applied \in BOOLEAN : StepDone(applied) \/ StepFailed
  <2>1. StepDone(FALSE) \/ StepDone(TRUE) \/ StepFailed
    BY DEF SkipCompleted, VerifyChecked, VerifyApplied
  <2> QED
    BY <2>1
<1>3. run' \in Runs /\ report' \subseteq Components
      /\ (NotThere /\ Unknown /\ Known)'
  BY <1>1, <1>2, StepEnded DEF nodeVars
<1>4. TypeOK'
  BY <1>1, <1>3 DEF TypeOK, nodeVars
<1> QED
  BY <1>3, <1>4 DEF IInv

LEMMA SecretsType ==
  ASSUME NEW s \in Secrets, NEW token
  PROVE  /\ token \in Gens \cup {Redacted} =>
              /\ [s EXCEPT !.consul = token] \in Secrets
              /\ [s EXCEPT !.consul = token].nomad = s.nomad
         /\ token \in Gens \cup {Redacted, Boot} =>
              /\ [s EXCEPT !.nomad = token] \in Secrets
              /\ [s EXCEPT !.nomad = token].nomad = token
  BY DEF Secrets

LEMMA ApplyConsulPreserves ==
  ASSUME IInv, ApplyConsul
  PROVE  IInv'
<1> TypeOK
  BY DEF IInv
<1>1. UNCHANGED <<file, report, booted, env, gens, kinds, lost, emptied, faults>>
      /\ run.at = "step" /\ installed' = installed \cup {"consul"}
  BY DEF ApplyConsul, Applying
<1>2. run.plan.consul \in Gens \cup {Redacted} /\ run.secrets \in Secrets
  BY RunFields DEF Secrets
<1>3. installed' \subseteq Components
  BY <1>1 DEF TypeOK, Components
<1>4. /\ run' \in Runs /\ run'.at \in {"save", "verify"} /\ run'.plan = run.plan
      /\ run'.secrets.nomad = run.secrets.nomad
      /\ accepts' \subseteq Gens \cup {Redacted}
  <2>1. CASE Plan.consul # 0
    <3> DEFINE secrets == [run.secrets EXCEPT !.consul = Printed(Plan.consul)]
    <3>1. UpdateBootstrapSecrets(secrets) /\ accepts' = accepts \cup {Plan.consul}
      BY <2>1 DEF ApplyConsul
    <3>2. Printed(Plan.consul) \in Gens \cup {Redacted}
      BY DEF Printed
    <3>3. secrets \in Secrets /\ secrets.nomad = run.secrets.nomad
      BY <1>2, <3>2, SecretsType
    <3>4. run' \in Runs /\ run'.at = "save" /\ run'.plan = run.plan /\ run'.secrets = secrets
      <4> HIDE DEF secrets
      <4> QED
        BY <3>1, <3>3, AfterUpdate
    <3>5. accepts' \subseteq Gens \cup {Redacted}
      BY <1>2, <3>1 DEF TypeOK, Plan
    <3> QED
      BY <3>3, <3>4, <3>5
  <2>2. CASE Plan.consul = 0
    <3>1. To("verify") /\ UNCHANGED accepts
      BY <2>2 DEF ApplyConsul
    <3>2. "verify" \in Places
      BY DEF Places
    <3> QED
      BY <3>1, <3>2, AfterGoing DEF TypeOK
  <2> QED
    BY <2>1, <2>2
<1>5. TypeOK'
  BY <1>1, <1>3, <1>4 DEF TypeOK
<1>6. (NotThere /\ Unknown /\ Known)'
  BY <1>1, <1>4, WentOn
<1> QED
  BY <1>5, <1>6 DEF IInv

LEMMA ApplyControlPlanePreserves ==
  ASSUME IInv, ApplyControlPlane
  PROVE  IInv'
<1> TypeOK
  BY DEF IInv
<1>1. UNCHANGED <<file, report, accepts, booted, gens, kinds, lost, emptied, faults>>
      /\ run.at = "step" /\ installed' = installed \cup {"control-plane"}
      /\ env' = run.plan /\ To("verify")
  BY DEF ApplyControlPlane, Applying, Plan
<1>2. installed' \subseteq Components /\ env' \in Secrets
  BY <1>1, RunFields DEF TypeOK, Components
<1>3. /\ run' \in Runs /\ run'.at = "verify" /\ run'.plan = run.plan
      /\ run'.secrets = run.secrets
  <2> "verify" \in Places
    BY DEF Places
  <2> QED
    BY <1>1, AfterGoing
<1>4. TypeOK'
  BY <1>1, <1>2, <1>3 DEF TypeOK
<1>5. (NotThere /\ Unknown /\ Known)'
  BY <1>1, <1>3, WentOn
<1> QED
  BY <1>4, <1>5 DEF IInv

\* The bootstrap of Nomad: the token it prints is none that is struck out.
LEMMA ApplyNomadPreserves ==
  ASSUME IInv, ApplyNomad
  PROVE  IInv'
<1> TypeOK
  BY DEF IInv
<1>1. UNCHANGED <<file, accepts, env, gens, kinds, emptied, faults>>
      /\ run.at = "step" /\ installed' = installed \cup {"nomad"} /\ booted' = TRUE
  BY DEF ApplyNomad, Applying
<1>2. installed' \subseteq Components
  BY <1>1 DEF TypeOK, Components
<1> DEFINE secrets == [run.secrets EXCEPT !.nomad = Printed(Boot)]
<1>3. secrets \in Secrets /\ secrets.nomad = Printed(Boot)
  <2>1. Printed(Boot) \in Gens \cup {Redacted, Boot}
    BY DEF Printed
  <2> QED
    BY <2>1, RunFields, SecretsType
<1>4. CASE /\ booted /\ Plan.nomad = Boot
           /\ UpdateBootstrapSecrets(secrets)
           /\ lost' = lost \cup {"printed again"}
           /\ UNCHANGED report
  <2>1. run' \in Runs /\ run'.at = "save"
    <3> HIDE DEF secrets
    <3> QED
      BY <1>3, <1>4, AfterUpdate
  <2>2. TypeOK'
    BY <1>1, <1>2, <1>4, <2>1 DEF TypeOK
  <2>3. (NotThere /\ Unknown /\ Known)'
    BY <1>1, <1>4, <2>1 DEF NotThere, Unknown, Known
  <2> QED
    BY <2>2, <2>3 DEF IInv
<1>5. CASE /\ ~booted
           /\ UpdateBootstrapSecrets(secrets)
           /\ UNCHANGED <<report, lost>>
  <2>1. Printed(Boot) = Boot
    <3>1. run.plan.nomad # Boot
      BY <1>5 DEF IInv, Unknown
    <3>2. run.plan.consul # Boot
      BY RunFields, TokensAssumption DEF Secrets
    <3> QED
      BY <3>1, <3>2 DEF Printed, Plan
  <2>2. run' \in Runs /\ run'.at = "save" /\ run'.secrets.nomad = Boot
    <3> HIDE DEF secrets
    <3> QED
      BY <1>3, <1>5, <2>1, AfterUpdate
  <2>3. TypeOK'
    BY <1>1, <1>2, <1>5, <2>2 DEF TypeOK
  <2>4. (NotThere /\ Unknown /\ Known)'
    BY <1>1, <2>2 DEF NotThere, Unknown, Known
  <2> QED
    BY <2>3, <2>4 DEF IInv
<1>6. CASE booted /\ Plan.nomad # Boot /\ StepFailed /\ UNCHANGED lost
  <2>1. booted' = booted /\ file' = file /\ lost' = lost
    BY <1>1, <1>6 DEF TypeOK
  <2>2. run' \in Runs /\ report' \subseteq Components
        /\ (NotThere /\ Unknown /\ Known)'
    BY <1>1, <1>6, <2>1, StepEnded
  <2>3. TypeOK'
    BY <1>1, <1>2, <2>1, <2>2 DEF TypeOK
  <2> QED
    BY <2>2, <2>3 DEF IInv
<1> QED
  BY <1>4, <1>5, <1>6 DEF ApplyNomad

\* A command that fails: when Nomad's token was made by it, it is lost.
LEMMA ApplyFailsPreserves ==
  ASSUME IInv, ApplyFails
  PROVE  IInv'
<1> TypeOK
  BY DEF IInv
<1>1. run.at = "step" /\ Fault /\ StepFailed /\ UNCHANGED <<file, gens, kinds, emptied>>
  BY DEF ApplyFails, Applying
<1>2. run' = Over("failed") /\ report' \subseteq Components /\ run' \in Runs
  BY <1>1, AfterFailure, OverType
<1>3. faults' \in 0 .. MaxFaults
  BY <1>1, FaultType
<1>4. run.plan \in Secrets /\ run.plan.consul \in Gens \cup {Redacted}
  BY RunFields DEF Secrets
<1>5. /\ installed' \subseteq Components
      /\ accepts' \subseteq Gens \cup {Redacted}
      /\ env' \in Secrets
      /\ lost \subseteq lost' /\ lost' \subseteq {"answer", "save", "printed again"}
      /\ booted' = booted \/ (booted' = TRUE /\ lost' # {})
  <2>1. CASE UNCHANGED <<nodeVars, lost>>
    BY <2>1 DEF TypeOK, nodeVars
  <2>2. CASE ~ UNCHANGED <<nodeVars, lost>>
    <3>1. installed' \subseteq Components
      <4>1. installed' = installed \cup {Step}
        BY <2>2 DEF ApplyFails
      <4> QED
        BY <4>1, StepIsComponent DEF TypeOK
    <3>2. accepts' \subseteq Gens \cup {Redacted}
      BY <1>4, <2>2 DEF ApplyFails, TypeOK, Plan
    <3>3. env' \in Secrets
      BY <1>4, <2>2 DEF ApplyFails, TypeOK, Plan
    <3>4. UNCHANGED <<booted, lost>> \/ (booted' = TRUE /\ lost' = lost \cup {"answer"})
      BY <2>2 DEF ApplyFails
    <3>5. lost \subseteq {"answer", "save", "printed again"}
      BY DEF TypeOK
    <3> QED
      BY <3>1, <3>2, <3>3, <3>4, <3>5
  <2> QED
    BY <2>1, <2>2
<1>6. TypeOK'
  <2>1. booted' \in BOOLEAN
    BY <1>5 DEF TypeOK
  <2> QED
    BY <1>1, <1>2, <1>3, <1>5, <2>1 DEF TypeOK
<1>7. (NotThere /\ Unknown /\ Known)'
  <2>1. CASE booted' = booted
    <3>1. run.at # "save" /\ lost \subseteq lost' /\ file' = file
      BY <1>1, <1>5
    <3> QED
      BY <1>2, <2>1, <3>1, Ended
  <2>2. CASE booted' = TRUE /\ lost' # {}
    BY <1>2, <2>2, OverType DEF NotThere, Unknown, Known
  <2> QED
    BY <1>5, <2>1, <2>2
<1> QED
  BY <1>6, <1>7 DEF IInv

LEMMA SaveSecretsPreserves ==
  ASSUME IInv, SaveSecrets
  PROVE  IInv'
<1> TypeOK
  BY DEF IInv
<1>1. run.at = "save" /\ To("verify")
      /\ UNCHANGED <<report, nodeVars, gens, kinds, emptied>>
  BY DEF SaveSecrets
<1>2. /\ run' \in Runs /\ run'.at = "verify" /\ run'.plan = run.plan
      /\ run'.secrets = run.secrets
  <2> "verify" \in Places
    BY DEF Places
  <2> QED
    BY <1>1, AfterGoing
<1>3. CASE file' = run.secrets /\ UNCHANGED <<lost, emptied, faults>>
  <2>1. file' \in Secrets /\ file' # Missing
    BY <1>3, RunFields, MissingAssumption
  <2>2. TypeOK'
    BY <1>1, <1>2, <1>3, <2>1 DEF TypeOK, nodeVars
  <2>3. (NotThere /\ Unknown /\ Known)'
    BY <1>1, <1>2, <1>3, <2>1 DEF IInv, NotThere, Unknown, Known, Filed, Idle, nodeVars
  <2> QED
    BY <2>2, <2>3 DEF IInv
<1>4. CASE file' \in {file, NoSecrets} /\ lost' = lost \cup {"save"} /\ Fault
  <2>1. faults' \in 0 .. MaxFaults
    BY <1>4, FaultType
  <2>2. lost' \subseteq {"answer", "save", "printed again"} /\ lost' # {}
    BY <1>4 DEF TypeOK
  <2>3. TypeOK'
    BY <1>1, <1>2, <1>4, <2>1, <2>2, NoSecretsType DEF TypeOK, nodeVars
  <2>4. (NotThere /\ Unknown /\ Known)'
    BY <1>1, <1>2, <1>4, <2>2, NoSecretsType
    DEF IInv, NotThere, Unknown, Known, nodeVars
  <2> QED
    BY <2>3, <2>4 DEF IInv
<1> QED
  BY <1>3, <1>4 DEF SaveSecrets

\* A killed install: when it was to save Nomad's token, that is lost; when it
\* was to save the secrets it made, there was no token.
LEMMA KillPreserves ==
  ASSUME IInv, Kill
  PROVE  IInv'
<1> TypeOK
  BY DEF IInv
<1>1. /\ ~Idle /\ Fault /\ run' = Over("failed")
      /\ UNCHANGED <<report, nodeVars, gens, kinds>>
      /\ file' = file \/ (run.at \in {"generate", "save"} /\ file' = NoSecrets)
      /\ lost' = IF run.at = "save" THEN lost \cup {"save"} ELSE lost
  BY DEF Kill
<1>2. /\ run' \in Runs /\ run'.at = "failed"
      /\ run'.plan.nomad # Boot /\ run'.secrets.nomad # Boot
  BY <1>1, OverType
<1>3. faults' \in 0 .. MaxFaults
  BY <1>1, FaultType
<1>4. lost' \subseteq {"answer", "save", "printed again"}
  BY <1>1 DEF TypeOK
<1>0. emptied' \in BOOLEAN
  BY EmptiedType DEF Kill
<1>5. TypeOK'
  BY <1>0, <1>1, <1>2, <1>3, <1>4, NoSecretsType DEF TypeOK, nodeVars
<1>6. (NotThere /\ Unknown /\ Known)'
  BY <1>1, <1>2, NoSecretsType DEF IInv, NotThere, Unknown, Known, Filed, Idle, nodeVars
<1> QED
  BY <1>5, <1>6 DEF IInv

LEMMA RemovePackagePreserves ==
  ASSUME IInv, NEW c \in Components, RemovePackage(c)
  PROVE  IInv'
<1> TypeOK
  BY DEF IInv
<1>1. Fault /\ installed' = installed \ {c}
      /\ UNCHANGED <<file, report, run, accepts, booted, env, gens, kinds, lost,
                     emptied>>
  BY DEF RemovePackage
<1>2. faults' \in 0 .. MaxFaults
  BY <1>1, FaultType
<1>3. TypeOK'
  BY <1>1, <1>2 DEF TypeOK
<1>4. (NotThere /\ Unknown /\ Known)'
  BY <1>1 DEF IInv, NotThere, Unknown, Known, Filed, Idle
<1> QED
  BY <1>3, <1>4 DEF IInv

LEMMA NextPreserves == IInv /\ [Next]_vars => IInv'
<1> SUFFICES ASSUME IInv, [Next]_vars PROVE IInv'
  OBVIOUS
<1>1. ASSUME NEW kind \in {"install", "resume"}, Start(kind) PROVE IInv'
  BY <1>1, StartPreserves
<1>2. CASE SaveGenerated
  BY <1>2, SaveGeneratedPreserves
<1>3. CASE SkipCompleted \/ VerifyChecked \/ VerifyApplied
  BY <1>3, SkipPreserves
<1>4. CASE ApplyConsul
  BY <1>4, ApplyConsulPreserves
<1>5. CASE ApplyNomad
  BY <1>5, ApplyNomadPreserves
<1>6. CASE ApplyControlPlane
  BY <1>6, ApplyControlPlanePreserves
<1>7. CASE ApplyFails
  BY <1>7, ApplyFailsPreserves
<1>8. CASE SaveSecrets
  BY <1>8, SaveSecretsPreserves
<1>9. CASE Kill
  BY <1>9, KillPreserves
<1>10. ASSUME NEW c \in Components, RemovePackage(c) PROVE IInv'
  BY <1>10, RemovePackagePreserves
<1>11. CASE UNCHANGED vars
  BY <1>11 DEF IInv, TypeOK, NotThere, Unknown, Known, Filed, Idle, vars
<1> QED
  BY <1>1, <1>2, <1>3, <1>4, <1>5, <1>6, <1>7, <1>8, <1>9, <1>10, <1>11 DEF Next

LEMMA Inductive == Spec => []IInv
BY InitIInv, NextPreserves, PTL DEF Spec

\* The secrets, the install and the servers have their types at every moment of
\* any number of installs (install.go, secrets.go).
THEOREM TypeCorrect == Spec => []TypeOK
<1>1. IInv => TypeOK
  BY DEF IInv
<1> QED
  BY <1>1, Inductive, PTL

\* A token that Nomad made is in the secrets file, or in the install that is to
\* save it, unless the answer or the save was lost or it was printed again
\* (install.go: updateBootstrapSecrets; remoteexec.go: Redact).
THEOREM NomadTokenKept == Spec => []NomadTokenIsKept
<1>1. IInv => NomadTokenIsKept
  <2> SUFFICES ASSUME IInv, booted, lost = {}
               PROVE  Boot \in {run.secrets.nomad, file.nomad}
    BY DEF NomadTokenIsKept
  <2> QED
    BY DEF IInv, Known, Filed, Idle
<1> QED
  BY <1>1, Inductive, PTL
------------------------------------------------------------------------------
(* Nomad's token on its way to the control plane.                            *)

\* The steps run in an order in which Nomad comes before the control plane, as
\* the roles of the examples do.
NomadFirst ==
    \A j \in 1 .. Len(Order) : Order[j] = "control-plane" =>
        \E i \in 1 .. j - 1 : Order[i] = "nomad"

\* Secrets whose token Nomad takes, or that have none.
Works(secrets) == secrets.nomad \in {0, Boot}

\* An install knows as much as the file: the token of its plan, or the one
\* Nomad made since.
Abreast ==
    /\ run.secrets.nomad \in {run.plan.nomad, Boot}
    /\ run.at # "generate" => file # Missing /\ file.nomad \in {run.plan.nomad, Boot}

\* Steps are passed in their order; and Nomad's is passed, or was, with a token
\* that works.
Passed ==
    /\ \A k \in 1 .. run.step - 1 : Order[k] \in run.done
    /\ "nomad" \in run.done \cup run.completed \cup report => Works(run.plan)

Reaches ==
    lost = {} =>
        /\ Works(env)
        /\ "nomad" \in report => file # Missing /\ Works(file)
        /\ ~Idle => Abreast /\ Passed

\* A step, or the end, of an install that passed its steps so far: what its plan
\* has is what reports and the file will say.
LEMMA StepPassed ==
  ASSUME IInv, Abreast, Passed, run.at \in {"step", "verify"},
         \/ StepFailed
         \/ /\ \E applied \in BOOLEAN : StepDone(applied)
            /\ Step = "nomad" => Works(run.plan),
         file' = file
  PROVE  /\ "nomad" \in report' => file' # Missing /\ Works(file')
         /\ ~Idle' => Abreast' /\ Passed'
<1>1. /\ file # Missing /\ file.nomad \in {run.plan.nomad, Boot}
      /\ run.secrets.nomad \in {run.plan.nomad, Boot}
  BY DEF Abreast
<1>2. CASE StepFailed
  <2>1. report' = run.done /\ run'.at = "failed"
    BY <1>2, OverType DEF StepFailed
  <2>2. "nomad" \in report' => Works(run.plan)
    BY <2>1 DEF Passed
  <2> QED
    BY <1>1, <2>1, <2>2 DEF Works, Idle
<1>3. CASE ~StepFailed
  <2> DEFINE done == run.done \cup {Step}
  <2>1. /\ report' \in {report, done}
        /\ \/ run' = Over("installed")
           \/ /\ run.step # Len(Order)
              /\ run' = Running("step", run.step + 1, run.plan, run.secrets, done,
                                run.completed)
    BY <1>3 DEF StepDone, Plan
  <2>2. "nomad" \in done \cup run.completed \cup report => Works(run.plan)
    BY <1>3 DEF Passed
  <2>3. "nomad" \in report' => file' # Missing /\ Works(file')
    BY <1>1, <2>1, <2>2 DEF Works
  <2>4. CASE run' = Over("installed")
    BY <2>3, <2>4, OverType DEF Idle
  <2>5. CASE run' = Running("step", run.step + 1, run.plan, run.secrets, done,
                            run.completed)
    <3>1. /\ run'.at = "step" /\ run'.step = run.step + 1 /\ run'.plan = run.plan
          /\ run'.secrets = run.secrets /\ run'.done = done
          /\ run'.completed = run.completed
      BY <2>5 DEF Running
    <3>2. Abreast'
      BY <1>1, <3>1 DEF Abreast
    <3>3. ASSUME NEW k \in 1 .. run'.step - 1 PROVE Order[k] \in run'.done
      <4>1. run.step \in Nat
        BY RunFields DEF IInv
      <4>2. CASE k = run.step
        BY <3>1, <4>2 DEF Step
      <4>3. CASE k # run.step
        <5>1. k \in 1 .. run.step - 1
          BY <3>1, <3>3, <4>1, <4>3
        <5> QED
          BY <3>1, <5>1 DEF Passed
      <4> QED
        BY <4>2, <4>3
    <3>4. "nomad" \in run'.done \cup run'.completed \cup report' => Works(run'.plan)
      BY <2>1, <2>2, <3>1
    <3>5. Passed'
      BY <3>3, <3>4 DEF Passed
    <3> QED
      BY <2>3, <3>2, <3>5
  <2> QED
    BY <2>1, <2>4, <2>5
<1> QED
  BY <1>2, <1>3

\* An install that goes on with its step, perhaps with a token more.
LEMMA StepGoesOn ==
  ASSUME Abreast, Passed,
         run'.at # "generate", run'.step = run.step, run'.plan = run.plan,
         run'.done = run.done, run'.completed = run.completed,
         run'.secrets.nomad \in {run.secrets.nomad, Boot},
         report' = report, file' # Missing,
         file'.nomad \in {run.plan.nomad, Boot}
  PROVE  Abreast' /\ Passed'
BY DEF Abreast, Passed, Works

\* When the control plane is configured Nomad's step is passed.
LEMMA PlanWorks ==
  ASSUME NomadFirst, IInv, Passed, Step = "control-plane"
  PROVE  Works(run.plan)
<1>1. run.step \in 1 .. Len(Order)
  BY RunFields DEF IInv
<1>2. PICK i \in 1 .. run.step - 1 : Order[i] = "nomad"
  BY <1>1 DEF NomadFirst, Step
<1> QED
  BY <1>2 DEF Passed

\* What the steps of an install make of the invariant, as long as no token is
\* lost.
Body == /\ Works(env)
        /\ "nomad" \in report => file # Missing /\ Works(file)
        /\ ~Idle => Abreast /\ Passed

LEMMA StartReaches ==
  ASSUME IInv, Body, NEW kind \in {"install", "resume"}, Start(kind)
  PROVE  Body'
<1> DEFINE completed == IF kind = "resume" THEN report ELSE {}
<1>1. UNCHANGED <<file, report, env>>
  BY DEF Start, nodeVars
<1>2. completed \subseteq report
  OBVIOUS
<1> DEFINE Begun(place, s) ==
             /\ run' = Running(place, 1, s, s, {}, completed)
             /\ place = "step" => file # Missing /\ s = file
             /\ place = "generate" => file = Missing
<1>0. gens < MaxGens => gens + 1 \in Gens
  <2>1. gens \in Gens
    BY DEF IInv, TypeOK
  <2> QED
    BY <2>1, BoundAssumption DEF Gens
<1>3. PICK place \in {"step", "generate"}, s \in Secrets : Begun(place, s)
  <2>1. CASE file # Missing
    <3>1. file \in Secrets
      BY <2>1 DEF IInv, TypeOK
    <3>2. Begun("step", file)
      BY <2>1 DEF Start
    <3> QED
      BY <3>1, <3>2
  <2>2. CASE file = Missing
    <3>1. Generated(gens + 1) \in Secrets
      BY <1>0, <2>2, GeneratedType DEF Start
    <3>2. Begun("generate", Generated(gens + 1))
      BY <2>2 DEF Start
    <3> QED
      BY <3>1, <3>2
  <2> QED
    BY <2>1, <2>2
<1> HIDE DEF completed
<1>4. /\ run'.at = place /\ run'.step = 1 /\ run'.plan = s /\ run'.secrets = s
      /\ run'.done = {} /\ run'.completed = completed
  BY <1>3 DEF Running
<1>5. Abreast'
  BY <1>1, <1>3, <1>4 DEF Abreast
<1>6. "nomad" \in report => Works(s)
  BY <1>3 DEF Body
<1>7. 1 .. run'.step - 1 = {}
  BY <1>4
<1>8. Passed'
  BY <1>1, <1>2, <1>4, <1>6, <1>7 DEF Passed
<1> QED
  BY <1>1, <1>5, <1>8 DEF Body

LEMMA ToKeeps ==
  ASSUME TypeOK, NEW place \in Places, To(place)
  PROVE  /\ run'.at = place /\ run'.step = run.step /\ run'.plan = run.plan
         /\ run'.done = run.done /\ run'.completed = run.completed
         /\ run'.secrets = run.secrets
BY DEF To, TypeOK, Runs

LEMMA SaveGeneratedReaches ==
  ASSUME IInv, Body, SaveGenerated
  PROVE  Body'
<1>1. UNCHANGED <<report, env>> /\ run.at = "generate" /\ ~Idle
  BY DEF SaveGenerated, nodeVars, Idle
<1>2. file = Missing /\ "nomad" \notin report
  BY <1>1 DEF IInv, NotThere, Body
<1>3. CASE file' = run.secrets /\ To("step")
  <2>0. "step" \in Places
    BY DEF Places
  <2>1. /\ run'.at = "step" /\ run'.step = run.step /\ run'.plan = run.plan
        /\ run'.done = run.done /\ run'.completed = run.completed
        /\ run'.secrets = run.secrets
    BY <1>3, <2>0, ToKeeps DEF IInv
  <2>2. file' # Missing
    BY <1>3, RunFields, MissingAssumption DEF IInv
  <2>3. Abreast /\ Passed
    BY <1>1 DEF Body
  <2>4. Abreast' /\ Passed'
    BY <1>1, <1>3, <2>1, <2>2, <2>3 DEF Abreast, Passed
  <2> QED
    BY <1>1, <1>2, <2>4 DEF Body
<1>4. CASE run' = Over("failed")
  <2>1. Idle'
    BY <1>4, OverType DEF Idle
  <2> QED
    BY <1>1, <1>2, <2>1 DEF Body
<1> QED
  BY <1>3, <1>4 DEF SaveGenerated

LEMMA SkipReaches ==
  ASSUME IInv, Body, SkipCompleted \/ VerifyChecked \/ VerifyApplied
  PROVE  Body'
<1>1. UNCHANGED <<file, env>> /\ run.at \in {"step", "verify"} /\ ~Idle
  BY DEF SkipCompleted, VerifyChecked, VerifyApplied, nodeVars, Idle
<1>2. Abreast /\ Passed
  BY <1>1 DEF Body
<1>3. \/ StepFailed
      \/ /\ \E applied \in BOOLEAN : StepDone(applied)
         /\ Step = "nomad" => Works(run.plan)
  <2>1. CASE SkipCompleted
    <3>1. Step = "nomad" => Works(run.plan)
      BY <1>2, <2>1 DEF SkipCompleted, Passed
    <3> QED
      BY <2>1, <3>1 DEF SkipCompleted
  <2>2. CASE VerifyChecked \/ VerifyApplied
    <3>1. CASE StepFailed
      BY <3>1
    <3>2. CASE Verifies(TRUE) /\ (StepDone(FALSE) \/ StepDone(TRUE))
      <4>1. Step = "nomad" => Works(run.plan)
        BY <3>2 DEF Verifies, Works, Plan
      <4> QED
        BY <3>2, <4>1
    <3> QED
      BY <2>2, <3>1, <3>2 DEF VerifyChecked, VerifyApplied
  <2> QED
    BY <2>1, <2>2
<1>4. /\ "nomad" \in report' => file' # Missing /\ Works(file')
      /\ ~Idle' => Abreast' /\ Passed'
  BY <1>1, <1>2, <1>3, StepPassed
<1> QED
  BY <1>1, <1>4 DEF Body

LEMMA UpdateKeeps ==
  ASSUME NEW secrets, UpdateBootstrapSecrets(secrets)
  PROVE  /\ run'.at = "save" /\ run'.step = run.step /\ run'.plan = run.plan
         /\ run'.done = run.done /\ run'.completed = run.completed
         /\ run'.secrets = secrets
BY DEF UpdateBootstrapSecrets, Running, Plan

LEMMA ApplyReaches ==
  ASSUME NomadFirst, IInv, Body, ApplyConsul \/ ApplyControlPlane
  PROVE  Body'
<1>1. UNCHANGED <<file, report>> /\ run.at = "step" /\ ~Idle
  BY DEF ApplyConsul, ApplyControlPlane, Applying, Idle
<1>2. Abreast /\ Passed
  BY <1>1 DEF Body
<1>3. file # Missing /\ file.nomad \in {run.plan.nomad, Boot}
  BY <1>1, <1>2 DEF Abreast
<1>4. /\ run'.at \in {"save", "verify"} /\ run'.step = run.step /\ run'.plan = run.plan
      /\ run'.done = run.done /\ run'.completed = run.completed
      /\ run'.secrets.nomad = run.secrets.nomad
  <2>1. CASE To("verify")
    <3>1. "verify" \in Places
      BY DEF Places
    <3> QED
      BY <2>1, <3>1, ToKeeps DEF IInv
  <2>2. CASE UpdateBootstrapSecrets([run.secrets EXCEPT !.consul = Printed(Plan.consul)])
    <3>1. run.secrets \in Secrets /\ Printed(Plan.consul) \in Gens \cup {Redacted}
      BY RunFields DEF IInv, Printed
    <3>2. [run.secrets EXCEPT !.consul = Printed(Plan.consul)].nomad = run.secrets.nomad
      BY <3>1, SecretsType
    <3> QED
      BY <2>2, <3>2, UpdateKeeps
  <2> QED
    BY <2>1, <2>2 DEF ApplyConsul, ApplyControlPlane
<1>5. Works(env')
  <2>1. CASE ApplyConsul
    BY <2>1 DEF ApplyConsul, Body
  <2>2. CASE ApplyControlPlane
    BY <1>2, <2>2, PlanWorks DEF ApplyControlPlane, Applying, Plan
  <2> QED
    BY <2>1, <2>2
<1>6. Abreast' /\ Passed'
  BY <1>1, <1>2, <1>3, <1>4, StepGoesOn
<1> QED
  BY <1>1, <1>5, <1>6 DEF Body

LEMMA ApplyNomadReaches ==
  ASSUME IInv, Body, ApplyNomad, lost' = {}
  PROVE  Body'
<1>1. UNCHANGED <<file, env>> /\ run.at = "step" /\ ~Idle
  BY DEF ApplyNomad, Applying, Idle
<1>2. Abreast /\ Passed
  BY <1>1 DEF Body
<1>3. file # Missing /\ file.nomad \in {run.plan.nomad, Boot}
  BY <1>1, <1>2 DEF Abreast
<1>4. CASE /\ ~booted /\ UNCHANGED report
           /\ UpdateBootstrapSecrets([run.secrets EXCEPT !.nomad = Printed(Boot)])
  <2>1. Printed(Boot) = Boot
    <3>1. run.plan.nomad # Boot
      BY <1>4 DEF IInv, Unknown
    <3>2. run.plan.consul # Boot
      BY RunFields, TokensAssumption DEF Secrets, IInv
    <3> QED
      BY <3>1, <3>2 DEF Printed, Plan
  <2>2. [run.secrets EXCEPT !.nomad = Printed(Boot)].nomad = Boot
    BY <2>1, RunFields, SecretsType DEF IInv
  <2>3. /\ run'.at = "save" /\ run'.step = run.step /\ run'.plan = run.plan
        /\ run'.done = run.done /\ run'.completed = run.completed
        /\ run'.secrets.nomad = Boot
    BY <1>4, <2>2, UpdateKeeps
  <2>4. Abreast' /\ Passed'
    BY <1>1, <1>2, <1>3, <1>4, <2>3, StepGoesOn
  <2> QED
    BY <1>1, <1>4, <2>4 DEF Body
<1>5. CASE StepFailed
  <2>1. /\ "nomad" \in report' => file' # Missing /\ Works(file')
        /\ ~Idle' => Abreast' /\ Passed'
    BY <1>1, <1>2, <1>5, StepPassed
  <2> QED
    BY <1>1, <2>1 DEF Body
<1>6. ASSUME lost' = lost \cup {"printed again"} PROVE FALSE
  BY <1>6
<1> QED
  BY <1>4, <1>5, <1>6 DEF ApplyNomad

LEMMA ApplyFailsReaches ==
  ASSUME NomadFirst, IInv, Body, ApplyFails
  PROVE  Body'
<1>1. UNCHANGED file /\ run.at = "step" /\ ~Idle /\ StepFailed
  BY DEF ApplyFails, Applying, Idle
<1>2. Abreast /\ Passed
  BY <1>1 DEF Body
<1>3. UNCHANGED env \/ (Step = "control-plane" /\ env' = run.plan)
  BY DEF ApplyFails, nodeVars, Plan
<1>4. Works(env')
  BY <1>2, <1>3, PlanWorks DEF Body
<1>5. /\ "nomad" \in report' => file' # Missing /\ Works(file')
      /\ ~Idle' => Abreast' /\ Passed'
  BY <1>1, <1>2, StepPassed
<1> QED
  BY <1>4, <1>5 DEF Body

LEMMA SaveSecretsReaches ==
  ASSUME IInv, Body, SaveSecrets, lost' = {}
  PROVE  Body'
<1>1. UNCHANGED <<report, env>> /\ run.at = "save" /\ ~Idle /\ To("verify")
      /\ file' = run.secrets
  BY DEF SaveSecrets, nodeVars, Idle
<1>2. Abreast /\ Passed
  BY <1>1 DEF Body
<1>3. "verify" \in Places /\ file' # Missing
  BY <1>1, RunFields, MissingAssumption DEF Places, IInv
<1>4. /\ run'.at = "verify" /\ run'.step = run.step /\ run'.plan = run.plan
      /\ run'.done = run.done /\ run'.completed = run.completed
      /\ run'.secrets = run.secrets
  BY <1>1, <1>3, ToKeeps DEF IInv
<1>5. file'.nomad \in {run.plan.nomad, Boot}
  BY <1>1, <1>2 DEF Abreast
<1>6. Abreast' /\ Passed'
  BY <1>1, <1>2, <1>3, <1>4, <1>5, StepGoesOn
<1>7. "nomad" \in report => Works(file')
  BY <1>2, <1>5 DEF Passed, Works
<1> QED
  BY <1>1, <1>3, <1>6, <1>7 DEF Body

LEMMA KillReaches ==
  ASSUME IInv, Body, Kill, lost' = {}
  PROVE  Body'
<1>1. UNCHANGED <<report, env>> /\ run' = Over("failed") /\ run.at # "save"
  BY DEF Kill, nodeVars
<1>2. Idle'
  BY <1>1, OverType DEF Idle
<1>3. "nomad" \in report => file' = file
  BY <1>1 DEF Kill, IInv, NotThere, Body
<1> QED
  BY <1>1, <1>2, <1>3 DEF Body

LEMMA ReachesStep ==
  ASSUME NomadFirst, IInv, Reaches, [Next]_vars
  PROVE  Reaches'
<1> SUFFICES ASSUME lost' = {} PROVE Body'
  BY DEF Reaches, Body
<1>1. lost = {}
  <2>1. lost \subseteq lost'
    BY DEF Next, Start, SaveGenerated, SkipCompleted, VerifyChecked, ApplyConsul,
       ApplyNomad, ApplyControlPlane, ApplyFails, SaveSecrets, VerifyApplied, Kill,
       RemovePackage, vars
  <2> QED
    BY <2>1
<1>2. Body
  BY <1>1 DEF Reaches, Body
<1>3. ASSUME NEW kind \in {"install", "resume"}, Start(kind) PROVE Body'
  BY <1>2, <1>3, StartReaches
<1>4. CASE SaveGenerated
  BY <1>2, <1>4, SaveGeneratedReaches
<1>5. CASE SkipCompleted \/ VerifyChecked \/ VerifyApplied
  BY <1>2, <1>5, SkipReaches
<1>6. CASE ApplyConsul \/ ApplyControlPlane
  BY <1>2, <1>6, ApplyReaches
<1>7. CASE ApplyNomad
  BY <1>2, <1>7, ApplyNomadReaches
<1>8. CASE ApplyFails
  BY <1>2, <1>8, ApplyFailsReaches
<1>9. CASE SaveSecrets
  BY <1>2, <1>9, SaveSecretsReaches
<1>10. CASE Kill
  BY <1>2, <1>10, KillReaches
<1>11. ASSUME NEW c \in Components, RemovePackage(c) PROVE Body'
  BY <1>2, <1>11 DEF RemovePackage, Body, Abreast, Passed, Idle
<1>12. CASE UNCHANGED vars
  BY <1>2, <1>12 DEF vars, Body, Abreast, Passed, Idle
<1> QED
  BY <1>3, <1>4, <1>5, <1>6, <1>7, <1>8, <1>9, <1>10, <1>11, <1>12 DEF Next

\* Secrets that were made: none of them is empty.
Made(secrets) == secrets.gen # 0 /\ secrets.nomad # 0

\* An install that has applied the control plane, or skips or passed its step,
\* has given it Nomad's token.
Configured ==
    \/ "control-plane" \in run.done \cup run.completed
    \/ run.at \in {"save", "verify"} /\ Step = "control-plane"

\* The secrets are those that were made, as long as their save left no empty
\* file; so the check of the control plane, which compares a secret, does not
\* take the first environment for the one of the plan.
Serving ==
    /\ env.gen = 0 \/ env.nomad = Boot
    /\ file # Missing => Made(file)
    /\ "control-plane" \in report => env.nomad = Boot
    /\ ~Idle => Made(run.plan) /\ Made(run.secrets)
    /\ ~Idle /\ Configured => env.nomad = Boot

Serves == lost = {} /\ ~emptied => Serving

LEMMA BootIsMade == Boot # 0
<1>1. 0 \in Gens
  BY BoundAssumption DEF Gens
<1> QED
  BY <1>1, TokensAssumption

LEMMA StartServes ==
  ASSUME IInv, Serving, NEW kind \in {"install", "resume"}, Start(kind)
  PROVE  Serving'
<1> DEFINE completed == IF kind = "resume" THEN report ELSE {}
<1>1. UNCHANGED <<file, report, env>>
  BY DEF Start, nodeVars
<1>2. completed \subseteq report
  OBVIOUS
<1>3. gens < MaxGens => Made(Generated(gens + 1))
  <2>1. gens \in Nat
    <3>1. gens \in 0 .. MaxGens
      BY DEF IInv, TypeOK, Gens
    <3> QED
      BY <3>1
  <2> QED
    BY <2>1 DEF Made, Generated
<1> DEFINE Begun(place, s) == run' = Running(place, 1, s, s, {}, completed)
<1>4. CASE file # Missing
  <2>1. Begun("step", file) /\ Made(file)
    BY <1>4 DEF Start, Serving
  <2> HIDE DEF completed
  <2>2. /\ run'.at = "step" /\ run'.plan = file /\ run'.secrets = file
        /\ run'.done = {} /\ run'.completed = completed
    BY <2>1 DEF Running
  <2> QED
    BY <1>1, <1>2, <2>1, <2>2 DEF Serving, Configured
<1>5. CASE file = Missing
  <2> DEFINE s == Generated(gens + 1)
  <2>1. Begun("generate", s) /\ Made(s)
    BY <1>3, <1>5 DEF Start
  <2> HIDE DEF completed, s
  <2>2. /\ run'.at = "generate" /\ run'.plan = s /\ run'.secrets = s
        /\ run'.done = {} /\ run'.completed = completed
    BY <2>1 DEF Running
  <2> QED
    BY <1>1, <1>2, <2>1, <2>2 DEF Serving, Configured
<1> QED
  BY <1>4, <1>5

\* The install is over, and nothing was written but a report of what is done.
LEMMA OverServes ==
  ASSUME Serving, Idle', env' = env, file' = file \/ Made(file'),
         "control-plane" \in report' => env.nomad = Boot
  PROVE  Serving'
BY DEF Serving

LEMMA SaveGeneratedServes ==
  ASSUME IInv, Serving, SaveGenerated, ~emptied'
  PROVE  Serving'
<1>1. UNCHANGED <<report, env>> /\ run.at = "generate" /\ ~Idle
  BY DEF SaveGenerated, nodeVars, Idle
<1>2. file' # NoSecrets
  BY <1>1 DEF SaveGenerated, NoteEmptied
<1>3. CASE file' = run.secrets /\ To("step")
  <2>0. "step" \in Places
    BY DEF Places
  <2>1. /\ run'.at = "step" /\ run'.plan = run.plan /\ run'.done = run.done
        /\ run'.completed = run.completed /\ run'.secrets = run.secrets
    BY <1>3, <2>0, ToKeeps DEF IInv
  <2> QED
    BY <1>1, <1>3, <2>1 DEF Serving, Configured
<1>4. CASE file' \in {file, NoSecrets} /\ run' = Over("failed")
  <2>1. Idle' /\ file' = file
    BY <1>2, <1>4, OverType DEF Idle
  <2> QED
    BY <1>1, <2>1, OverServes DEF Serving
<1> QED
  BY <1>3, <1>4 DEF SaveGenerated

\* A step, or the end, of an install whose control plane has the token when the
\* step was the control plane's.
LEMMA StepServes ==
  ASSUME Serving, ~Idle, file' = file,
         \/ StepFailed /\ ("control-plane" \in run.done => env'.nomad = Boot)
         \/ /\ \E applied \in BOOLEAN : StepDone(applied)
            /\ "control-plane" \in report \cup run.done \cup run.completed \cup {Step}
                 => env'.nomad = Boot,
         env'.gen = 0 \/ env'.nomad = Boot
  PROVE  Serving'
<1>1. CASE /\ StepFailed
           /\ "control-plane" \in run.done => env'.nomad = Boot
  <2>1. report' = run.done /\ Idle'
    BY <1>1, OverType DEF StepFailed, Idle
  <2> QED
    BY <1>1, <2>1 DEF Serving
<1>2. CASE /\ \E applied \in BOOLEAN : StepDone(applied)
           /\ "control-plane" \in report \cup run.done \cup run.completed \cup {Step}
                => env'.nomad = Boot
  <2> DEFINE done == run.done \cup {Step}
  <2>1. report' \in {report, done}
    BY <1>2 DEF StepDone
  <2>2. CASE run' = Over("installed")
    <3>1. Idle'
      BY <2>2, OverType DEF Idle
    <3> QED
      BY <1>2, <2>1, <3>1 DEF Serving
  <2>3. CASE run' = Running("step", run.step + 1, run.plan, run.secrets, done,
                            run.completed)
    <3>1. /\ run'.at = "step" /\ run'.plan = run.plan /\ run'.secrets = run.secrets
          /\ run'.done = done /\ run'.completed = run.completed
      BY <2>3 DEF Running
    <3> QED
      BY <1>2, <2>1, <3>1 DEF Serving, Configured
  <2> QED
    BY <1>2, <2>2, <2>3 DEF StepDone, Plan
<1> QED
  BY <1>1, <1>2

LEMMA SkipServes ==
  ASSUME IInv, Serving, SkipCompleted \/ VerifyChecked \/ VerifyApplied
  PROVE  Serving'
<1>1. UNCHANGED <<file, env>> /\ run.at \in {"step", "verify"} /\ ~Idle
  BY DEF SkipCompleted, VerifyChecked, VerifyApplied, nodeVars, Idle
<1>2. "control-plane" \in report \cup run.done \cup run.completed => env.nomad = Boot
  BY <1>1 DEF Serving, Configured
<1>3. CASE StepFailed
  BY <1>1, <1>2, <1>3, StepServes DEF Serving
<1>4. CASE ~StepFailed
  <2>1. \E applied \in BOOLEAN : StepDone(applied)
    BY <1>4 DEF SkipCompleted, VerifyChecked, VerifyApplied
  <2>2. Step = "control-plane" => env.nomad = Boot
    <3>1. CASE SkipCompleted
      BY <1>2, <3>1 DEF SkipCompleted
    <3>2. CASE VerifyChecked
      BY <1>1, <3>2 DEF VerifyChecked, Checks, Serving, Made, Plan
    <3>3. CASE VerifyApplied
      BY <1>1, <3>3 DEF VerifyApplied, Serving, Configured
    <3> QED
      BY <3>1, <3>2, <3>3
  <2> QED
    BY <1>1, <1>2, <2>1, <2>2, StepServes DEF Serving
<1> QED
  BY <1>3, <1>4

\* A step of another component that is applied.
LEMMA ApplyOtherServes ==
  ASSUME Serving, run.at = "step", Step # "control-plane",
         UNCHANGED <<file, report, env>>,
         run'.step = run.step, run'.plan = run.plan, run'.done = run.done,
         run'.completed = run.completed, Made(run'.secrets)
  PROVE  Serving'
BY DEF Serving, Configured, Step, Idle

LEMMA ApplyConsulServes ==
  ASSUME IInv, Serving, ApplyConsul
  PROVE  Serving'
<1>1. UNCHANGED <<file, report, env>> /\ run.at = "step" /\ Step # "control-plane"
  BY DEF ApplyConsul, Applying
<1>2. Made(run.secrets)
  BY <1>1 DEF Serving, Idle
<1>3. /\ run'.step = run.step /\ run'.plan = run.plan /\ run'.done = run.done
      /\ run'.completed = run.completed /\ Made(run'.secrets)
  <2>1. CASE To("verify")
    <3>1. "verify" \in Places
      BY DEF Places
    <3> QED
      BY <1>2, <2>1, <3>1, ToKeeps DEF IInv
  <2>2. CASE UpdateBootstrapSecrets([run.secrets EXCEPT !.consul = Printed(Plan.consul)])
    <3> DEFINE secrets == [run.secrets EXCEPT !.consul = Printed(Plan.consul)]
    <3>1. secrets.gen = run.secrets.gen /\ secrets.nomad = run.secrets.nomad
      BY RunFields DEF IInv, Secrets
    <3>2. Made(secrets)
      BY <1>2, <3>1 DEF Made
    <3> HIDE DEF secrets
    <3> QED
      BY <2>2, <3>2, UpdateKeeps DEF secrets
  <2> QED
    BY <2>1, <2>2 DEF ApplyConsul
<1> QED
  BY <1>1, <1>3, ApplyOtherServes

LEMMA ApplyNomadServes ==
  ASSUME IInv, Serving, ApplyNomad
  PROVE  Serving'
<1>1. UNCHANGED <<file, env>> /\ run.at = "step" /\ ~Idle /\ Step # "control-plane"
  BY DEF ApplyNomad, Applying, Idle
<1>2. Made(run.secrets)
  BY <1>1 DEF Serving
<1> DEFINE secrets == [run.secrets EXCEPT !.nomad = Printed(Boot)]
<1>3. CASE UpdateBootstrapSecrets(secrets) /\ UNCHANGED report
  <2>1. secrets.gen = run.secrets.gen /\ secrets.nomad = Printed(Boot)
    BY RunFields DEF IInv, Secrets
  <2>2. Printed(Boot) # 0
    <3>1. 0 \in Gens
      BY BoundAssumption DEF Gens
    <3> QED
      BY <3>1, BootIsMade, TokensAssumption DEF Printed
  <2>3. Made(secrets)
    BY <1>2, <2>1, <2>2 DEF Made
  <2> HIDE DEF secrets
  <2>4. /\ run'.step = run.step /\ run'.plan = run.plan /\ run'.done = run.done
        /\ run'.completed = run.completed /\ run'.secrets = secrets
    BY <1>3, UpdateKeeps
  <2> QED
    BY <1>1, <1>3, <2>3, <2>4, ApplyOtherServes
<1>4. CASE StepFailed
  <2>1. "control-plane" \in run.done => env.nomad = Boot
    BY <1>1 DEF Serving, Configured
  <2> QED
    BY <1>1, <1>4, <2>1, StepServes DEF Serving
<1> QED
  BY <1>3, <1>4 DEF ApplyNomad

\* The token of the plan is Nomad's when the control plane is configured: it
\* works, and it is one that was made.
LEMMA PlanHasToken ==
  ASSUME NomadFirst, IInv, Body, Serving, run.at = "step", Step = "control-plane"
  PROVE  run.plan.nomad = Boot
<1>1. ~Idle
  BY DEF Idle
<1>2. Passed /\ Made(run.plan)
  BY <1>1 DEF Body, Serving
<1> QED
  BY <1>2, PlanWorks DEF Works, Made

LEMMA ApplyControlPlaneServes ==
  ASSUME NomadFirst, IInv, Body, Serving, ApplyControlPlane
  PROVE  Serving'
<1>1. UNCHANGED <<file, report>> /\ To("verify") /\ ~Idle /\ env' = run.plan
      /\ env'.nomad = Boot
  BY PlanHasToken DEF ApplyControlPlane, Applying, Plan, Idle
<1>2. "verify" \in Places
  BY DEF Places
<1>3. run'.plan = run.plan /\ run'.secrets = run.secrets
  BY <1>1, <1>2, ToKeeps DEF IInv
<1> QED
  BY <1>1, <1>3 DEF Serving

LEMMA ApplyFailsServes ==
  ASSUME NomadFirst, IInv, Body, Serving, ApplyFails
  PROVE  Serving'
<1>1. UNCHANGED file /\ run.at = "step" /\ ~Idle /\ StepFailed
  BY DEF ApplyFails, Applying, Idle
<1>2. UNCHANGED env \/ (Step = "control-plane" /\ env' = run.plan)
  BY DEF ApplyFails, nodeVars, Plan
<1>3. UNCHANGED env \/ env'.nomad = Boot
  BY <1>1, <1>2, PlanHasToken
<1>4. "control-plane" \in run.done => env'.nomad = Boot
  BY <1>1, <1>3 DEF Serving, Configured
<1> QED
  BY <1>1, <1>3, <1>4, StepServes DEF Serving

LEMMA SaveSecretsServes ==
  ASSUME IInv, Serving, SaveSecrets, lost' = {}
  PROVE  Serving'
<1>1. UNCHANGED <<report, env>> /\ run.at = "save" /\ ~Idle /\ To("verify")
      /\ file' = run.secrets
  BY DEF SaveSecrets, nodeVars, Idle
<1>2. "verify" \in Places
  BY DEF Places
<1>3. /\ run'.at = "verify" /\ run'.step = run.step /\ run'.plan = run.plan
      /\ run'.done = run.done /\ run'.completed = run.completed
      /\ run'.secrets = run.secrets
  BY <1>1, <1>2, ToKeeps DEF IInv
<1> QED
  BY <1>1, <1>3 DEF Serving, Configured, Step

LEMMA KillServes ==
  ASSUME Serving, Kill, lost' = {}, ~emptied'
  PROVE  Serving'
<1>1. UNCHANGED <<report, env>> /\ run' = Over("failed") /\ run.at # "save"
  BY DEF Kill, nodeVars
<1>2. Idle'
  BY <1>1, OverType DEF Idle
<1>3. file' = file
  BY <1>1 DEF Kill, NoteEmptied
<1> QED
  BY <1>1, <1>2, <1>3, OverServes DEF Serving

LEMMA ServesStep ==
  ASSUME NomadFirst, IInv, Reaches, Serves, [Next]_vars
  PROVE  Serves'
<1> SUFFICES ASSUME lost' = {}, ~emptied' PROVE Serving'
  BY DEF Serves
<1>1. lost = {}
  <2>1. lost \subseteq lost'
    BY DEF Next, Start, SaveGenerated, SkipCompleted, VerifyChecked, ApplyConsul,
       ApplyNomad, ApplyControlPlane, ApplyFails, SaveSecrets, VerifyApplied, Kill,
       RemovePackage, vars
  <2> QED
    BY <2>1
<1>2. ~emptied
  <2>1. emptied' = emptied \/ NoteEmptied
    BY DEF Next, Start, SaveGenerated, SkipCompleted, VerifyChecked, ApplyConsul,
       ApplyNomad, ApplyControlPlane, ApplyFails, SaveSecrets, VerifyApplied, Kill,
       RemovePackage, vars
  <2>2. CASE emptied' = emptied
    BY <2>2
  <2>3. CASE NoteEmptied
    BY <2>3 DEF NoteEmptied
  <2> QED
    BY <2>1, <2>2, <2>3
<1>3. Body /\ Serving
  BY <1>1, <1>2 DEF Reaches, Body, Serves
<1>4. ASSUME NEW kind \in {"install", "resume"}, Start(kind) PROVE Serving'
  BY <1>3, <1>4, StartServes
<1>5. CASE SaveGenerated
  BY <1>3, <1>5, SaveGeneratedServes
<1>6. CASE SkipCompleted \/ VerifyChecked \/ VerifyApplied
  BY <1>3, <1>6, SkipServes
<1>7. CASE ApplyConsul
  BY <1>3, <1>7, ApplyConsulServes
<1>8. CASE ApplyNomad
  BY <1>3, <1>8, ApplyNomadServes
<1>9. CASE ApplyControlPlane
  BY <1>3, <1>9, ApplyControlPlaneServes
<1>10. CASE ApplyFails
  BY <1>3, <1>10, ApplyFailsServes
<1>11. CASE SaveSecrets
  BY <1>3, <1>11, SaveSecretsServes
<1>12. CASE Kill
  BY <1>3, <1>12, KillServes
<1>13. ASSUME NEW c \in Components, RemovePackage(c) PROVE Serving'
  BY <1>3, <1>13 DEF RemovePackage, Serving, Configured, Step, Idle
<1>14. CASE UNCHANGED vars
  BY <1>3, <1>14 DEF vars, Serving, Configured, Step, Idle
<1> QED
  BY <1>4, <1>5, <1>6, <1>7, <1>8, <1>9, <1>10, <1>11, <1>12, <1>13, <1>14 DEF Next

\* Where Nomad is installed before the control plane, the control plane that a
\* report calls done has Nomad's token: a step is passed with a token that
\* worked, now or in an install before, and what a resume loads is that token;
\* unless the token was lost, or the file was left empty before there was one
\* (install.go: Run, installControlPlaneCommand; secrets.go: LoadOrGenerate).
THEOREM ControlPlaneReaches ==
  ASSUME NomadFirst
  PROVE  Spec => []ControlPlaneReachesNomad
<1>1. Init => IInv /\ Reaches /\ Serves
  <2>1. Init => Reaches
    BY OverType DEF Init, Reaches, Works, NoSecrets, Generated, Idle
  <2>2. Init => Serves
    BY OverType DEF Init, Serves, Serving, NoSecrets, Generated, Idle
  <2> QED
    BY <2>1, <2>2, InitIInv
<1>2. IInv /\ Reaches /\ Serves /\ [Next]_vars => (IInv /\ Reaches /\ Serves)'
  BY NextPreserves, ReachesStep, ServesStep
<1>3. Serves => ControlPlaneReachesNomad
  BY DEF Serves, Serving, ControlPlaneReachesNomad
<1> QED
  BY <1>1, <1>2, <1>3, PTL DEF Spec
------------------------------------------------------------------------------
(***************************************************************************)
(* An install and its resume, without a fault.  The install gets as far as *)
(* Nomad, or through when the plan has no Nomad; the report has the steps  *)
(* before, and the file Nomad's token.  The resume skips those steps, finds *)
(* Nomad there and its token right, and applies what comes after.          *)
(***************************************************************************)
First == Len(kinds) = 1 /\ kinds[1] = "install"
Second == Len(kinds) = 2 /\ kinds[1] = "install" /\ kinds[2] = "resume"

\* The steps before step k of the order.
Before(k) == {c \in Components : \E j \in 1 .. Len(Order) : j < k /\ Order[j] = c}

Working == {"step", "save", "verify"}

NothingYet ==
  faults = 0 /\ kinds = <<>> =>
     run.at = "none" /\ file = Missing /\ installed = {} /\ ~booted /\ gens = 0

\* The plan is one of secrets just made.
OwnPlan ==
  /\ run.plan.consul # 0 /\ run.plan.nomad \notin {0, Boot} /\ run.secrets.consul # 0
  /\ run.completed = {} /\ run.done = Before(run.step)

\* The install stopped at step k, the one of Nomad, or there was none.
Stopped(k) ==
  /\ report = Before(k) /\ installed = Before(k + 1) /\ file # Missing
  /\ k <= Len(Order) => /\ Order[k] = "nomad" /\ booted
                        /\ file.nomad = Boot /\ file.consul # 0

InstallGoes ==
  faults = 0 /\ First =>
     /\ run.at # "none"
     /\ run.at = "generate" => OwnPlan /\ run.step = 1 /\ installed = {} /\ ~booted
     /\ run.at \in Working => OwnPlan /\ file # Missing /\ file.consul # 0
     /\ run.at = "step" => installed = Before(run.step) /\ ~booted
     /\ run.at \in {"save", "verify"} =>
           /\ installed = Before(run.step + 1)
           /\ booted <=> Step = "nomad"
           /\ Step = "consul" => run.plan.consul \in accepts
           /\ Step = "nomad" => run.secrets.nomad = Boot
           /\ Step = "nomad" /\ run.at = "verify" => file.nomad = Boot
     /\ Idle => \E k \in 1 .. Len(Order) + 1 : Stopped(k)

\* The resume of an install that stopped at step k.
Resuming(k) ==
  /\ run.completed = Before(k)
  /\ k <= Len(Order) => /\ Order[k] = "nomad" /\ "nomad" \in installed /\ booted
                        /\ run.plan.nomad = Boot /\ run.plan.consul # 0
  /\ run.at = "step" =>
        \A j \in 1 .. Len(Order) : j > k /\ j >= run.step => Order[j] \notin installed
  /\ run.at \in {"save", "verify"} =>
        /\ run.step > k
        /\ \A j \in 1 .. Len(Order) : j > run.step => Order[j] \notin installed
        /\ Step = "consul" => run.plan.consul \in accepts

ResumeGoes ==
  faults = 0 /\ Second =>
     /\ run.at \in Working \cup {"installed"}
     /\ run.at \in Working => \E k \in 1 .. Len(Order) + 1 : Resuming(k)

Book == NothingYet /\ InstallGoes /\ ResumeGoes

LEMMA LenOrder == Len(Order) \in Nat /\ \A k \in 1 .. Len(Order) : Order[k] \in Components
BY OrderAssumption

LEMMA BeforeFirst == Before(1) = {}
BY DEF Before

LEMMA BeforeNext ==
  ASSUME NEW k \in 1 .. Len(Order)
  PROVE  Before(k + 1) = Before(k) \cup {Order[k]}
<1>1. Order[k] \in Components /\ k \in Nat /\ Len(Order) \in Nat
  BY LenOrder
<1>2. \A j \in 1 .. Len(Order) : j < k + 1 <=> j < k \/ j = k
  BY <1>1
<1> QED
  BY <1>1, <1>2 DEF Before

LEMMA BeforeLast == Before(Len(Order) + 2) = Before(Len(Order) + 1)
<1>1. \A j \in 1 .. Len(Order) : j < Len(Order) + 1 /\ j < Len(Order) + 2
  BY LenOrder
<1> QED
  BY <1>1 DEF Before

LEMMA NotBefore ==
  ASSUME NEW k \in Nat, NEW j \in 1 .. Len(Order)
  PROVE  Order[j] \in Before(k) <=> j < k
<1>1. \A i \in 1 .. Len(Order) : Order[i] = Order[j] => i = j
  BY OrderAssumption
<1> QED
  BY <1>1, LenOrder DEF Before

LEMMA StepAt ==
  ASSUME TypeOK
  PROVE  /\ run.step \in 1 .. Len(Order) /\ run.step \in Nat /\ run.step + 1 \in Nat
         /\ Step = Order[run.step]
         /\ Step \notin Before(run.step)
         /\ Before(run.step + 1) = Before(run.step) \cup {Step}
<1>1. run.step \in 1 .. Len(Order)
  BY RunFields
<1>2. run.step \in Nat
  BY <1>1, LenOrder
<1>3. Order[run.step] \notin Before(run.step)
  BY <1>1, <1>2, NotBefore
<1> QED
  BY <1>1, <1>2, <1>3, BeforeNext DEF Step

\* There is one step of Nomad.
LEMMA OneNomad ==
  ASSUME NEW k \in 1 .. Len(Order), Order[k] = "nomad", NEW j \in 1 .. Len(Order),
         Order[j] = "nomad"
  PROVE  j = k
BY OrderAssumption

LEMMA NoTokenIsAnother ==
  /\ 0 \in Gens /\ Redacted # 0 /\ Boot # 0 /\ Boot # Redacted
  /\ \A s \in Secrets : s.consul # Boot
<1>1. 0 \in Gens
  BY BoundAssumption DEF Gens
<1> QED
  BY <1>1, TokensAssumption DEF Secrets

\* A fault is counted.
LEMMA FaultCounts == ASSUME TypeOK, Fault PROVE faults' # 0
<1>1. faults \in 0 .. MaxFaults /\ MaxFaults \in Nat
  BY BoundAssumption DEF TypeOK
<1> QED
  BY <1>1 DEF Fault

LEMMA GoesTo ==
  ASSUME TypeOK, NEW place \in Places, To(place)
  PROVE  /\ run'.at = place /\ run'.step = run.step /\ run'.plan = run.plan
         /\ run'.secrets = run.secrets /\ run'.done = run.done
         /\ run'.completed = run.completed
BY DEF To, TypeOK, Runs

LEMMA StepBecomes ==
  ASSUME TypeOK, NEW applied \in BOOLEAN, StepDone(applied)
  PROVE  \/ /\ run.step < Len(Order)
            /\ run'.at = "step" /\ run'.step = run.step + 1 /\ run'.plan = run.plan
            /\ run'.secrets = run.secrets /\ run'.done = run.done \cup {Step}
            /\ run'.completed = run.completed
         \/ /\ run.step = Len(Order)
            /\ run'.at = "installed" /\ report' = run.done \cup {Step}
<1>1. run.step \in 1 .. Len(Order)
  BY StepAt
<1>2. CASE run.step = Len(Order)
  BY <1>2, OverType DEF StepDone
<1>3. CASE run.step # Len(Order)
  <2>1. run.step < Len(Order)
    BY <1>1, <1>3, LenOrder
  <2> QED
    BY <1>3, <2>1 DEF StepDone, Running, Plan
<1> QED
  BY <1>2, <1>3

\* The install or the resume before it: what the first and second are.
LEMMA Begins ==
  ASSUME TypeOK, NEW kind \in {"install", "resume"}, kinds' = Append(kinds, kind)
  PROVE  /\ kinds' # <<>>
         /\ First' => kinds = <<>> /\ kind = "install"
         /\ Second' => First /\ kind = "resume"
<1>1. kinds \in Seq({"install", "resume"}) /\ Len(kinds) \in Nat
  <2>1. kinds \in Seq({"install", "resume"})
    BY DEF TypeOK
  <2> QED
    BY <2>1
<1>2. /\ Len(kinds') = Len(kinds) + 1 /\ kinds'[Len(kinds) + 1] = kind
      /\ \A j \in 1 .. Len(kinds) : kinds'[j] = kinds[j]
  BY <1>1
<1>3. Len(kinds') = Len(kinds) + 1 /\ Len(kinds) \in Nat
  BY <1>1, <1>2
<1>4. ASSUME First' PROVE kinds = <<>> /\ kind = "install"
  <2>1. Len(kinds) = 0
    BY <1>1, <1>2, <1>4 DEF First
  <2> QED
    BY <1>1, <1>2, <1>4, <2>1 DEF First
<1>5. ASSUME Second' PROVE First /\ kind = "resume"
  <2>1. Len(kinds') = 2
    BY <1>5 DEF Second
  <2>2. Len(kinds) = 1
    BY <1>3, <2>1
  <2>3. kinds'[1] = kinds[1] /\ kinds'[2] = kind
    BY <1>2, <2>2
  <2> QED
    BY <1>5, <2>2, <2>3 DEF First, Second
<1>6. kinds' # <<>>
  BY <1>1, <1>2
<1> QED
  BY <1>4, <1>5, <1>6

\* Who is at work, without a fault, has begun.
LEMMA NotIdleBegan ==
  ASSUME NothingYet, faults = 0, ~Idle, kinds' = kinds
  PROVE  NothingYet'
BY DEF NothingYet, Idle

LEMMA StartBooks ==
  ASSUME IInv, Book, NEW kind \in {"install", "resume"}, Start(kind), faults = 0
  PROVE  Book'
<1> DEFINE completed == IF kind = "resume" THEN report ELSE {}
<1> TypeOK
  BY DEF IInv
<1>1. /\ UNCHANGED <<file, report, installed, accepts, booted, env, lost, emptied, faults>>
      /\ Idle /\ kinds' = Append(kinds, kind)
  BY DEF Start, nodeVars
<1>2. CASE /\ file # Missing
           /\ run' = Running("step", 1, file, file, {}, completed)
  <2>1. /\ run'.at = "step" /\ run'.step = 1 /\ run'.plan = file
        /\ run'.completed = completed
    BY <1>2 DEF Running
  <2>2. NothingYet' /\ InstallGoes'
    BY <1>1, <1>2, Begins DEF Book, NothingYet, InstallGoes
  <2>3. ASSUME Second' PROVE \E k \in 1 .. Len(Order) + 1 : Resuming(k)'
    <3>1. First /\ completed = report
      BY <1>1, <2>3, Begins
    <3>2. PICK k \in 1 .. Len(Order) + 1 : Stopped(k)
      BY <1>1, <3>1 DEF Book, InstallGoes
    <3>3. k + 1 \in Nat /\ Len(Order) \in Nat /\ k \in Nat
      BY LenOrder
    <3>4. \A j \in 1 .. Len(Order) : j > k => Order[j] \notin installed
      BY <3>2, <3>3, NotBefore DEF Stopped
    <3>5. k <= Len(Order) => "nomad" \in installed
      BY <3>2, <3>3, NotBefore DEF Stopped
    <3>6. Resuming(k)'
      BY <1>1, <2>1, <3>1, <3>2, <3>4, <3>5 DEF Stopped, Resuming
    <3> QED
      BY <3>6
  <2>4. ResumeGoes'
    BY <2>1, <2>3 DEF ResumeGoes, Working
  <2> QED
    BY <2>2, <2>4 DEF Book
<1>3. CASE /\ file = Missing /\ gens < MaxGens
           /\ run' = Running("generate", 1, Generated(gens + 1), Generated(gens + 1),
                             {}, completed)
  <2>1. /\ run'.at = "generate" /\ run'.step = 1 /\ run'.plan = Generated(gens + 1)
        /\ run'.secrets = Generated(gens + 1) /\ run'.done = {}
        /\ run'.completed = completed
    BY <1>3 DEF Running
  <2>2. gens + 1 # 0 /\ gens + 1 # Boot
    <3>1. gens \in 0 .. MaxGens /\ MaxGens \in Nat
      BY BoundAssumption DEF TypeOK, Gens
    <3>2. gens + 1 \in Gens /\ gens + 1 # 0
      BY <1>3, <3>1 DEF Gens
    <3> QED
      BY <3>2, TokensAssumption
  <2>3. NothingYet'
    BY <1>1, Begins DEF NothingYet
  <2>4. ASSUME First' PROVE OwnPlan' /\ installed' = {} /\ ~booted'
    <3>1. kinds = <<>> /\ completed = {}
      BY <1>1, <2>4, Begins
    <3>2. installed = {} /\ ~booted
      BY <3>1 DEF Book, NothingYet
    <3> QED
      BY <1>1, <2>1, <2>2, <3>1, <3>2, BeforeFirst DEF OwnPlan, Generated, Before
  <2>5. InstallGoes'
    BY <2>1, <2>4 DEF InstallGoes, Working, Idle
  <2>6. ~Second'
    <3>1. First => \E k \in 1 .. Len(Order) + 1 : Stopped(k)
      BY <1>1 DEF Book, InstallGoes
    <3> QED
      BY <1>1, <1>3, <3>1, Begins DEF Stopped
  <2> QED
    BY <2>3, <2>5, <2>6 DEF Book, ResumeGoes
<1> QED
  BY <1>2, <1>3 DEF Start

LEMMA GenerateBooks ==
  ASSUME IInv, Book, SaveGenerated, faults = 0, faults' = 0
  PROVE  Book'
<1> TypeOK
  BY DEF IInv
<1>1. /\ UNCHANGED <<report, nodeVars, gens, kinds, lost>> /\ run.at = "generate"
      /\ file' = run.secrets /\ To("step")
  BY FaultCounts DEF SaveGenerated
<1>2. /\ run'.at = "step" /\ run'.step = run.step /\ run'.plan = run.plan
      /\ run'.secrets = run.secrets /\ run'.done = run.done
      /\ run'.completed = run.completed
  BY <1>1, GoesTo DEF Places
<1>3. NothingYet'
  BY <1>1, NotIdleBegan DEF Book, Idle
<1>4. file' # Missing
  BY <1>1, RunFields, MissingAssumption
<1>5. First <=> First'
  BY <1>1 DEF First
<1>6. ASSUME First PROVE OwnPlan' /\ file'.consul # 0 /\ installed' = Before(run'.step) /\ ~booted'
  BY <1>1, <1>2, <1>6, BeforeFirst DEF Book, InstallGoes, OwnPlan, nodeVars, Before
<1>7. InstallGoes'
  BY <1>2, <1>4, <1>5, <1>6 DEF InstallGoes, Working, Idle
<1>8. ~Second'
  BY <1>1 DEF Book, ResumeGoes, Second, Working
<1> QED
  BY <1>3, <1>7, <1>8 DEF Book, ResumeGoes

LEMMA VerifiesWhat ==
  ASSUME TypeOK
  PROVE  /\ Step = "nomad" /\ (Verifies(TRUE) \/ ~Verifies(FALSE)) =>
               run.plan.nomad = 0 \/ (booted /\ run.plan.nomad = Boot)
         /\ Step = "nomad" /\ booted /\ run.plan.nomad = Boot => ~Verifies(FALSE)
         /\ Step = "consul" /\ run.plan.consul # 0 /\ run.plan.consul \in accepts
               => ~Verifies(FALSE)
         /\ Step = "control-plane" => ~Verifies(FALSE)
BY DEF Verifies, Plan, TypeOK

\* Where a resume is that does not skip: at Nomad's step, where the install
\* stopped, or behind it.
LEMMA NotSkipped ==
  ASSUME TypeOK, NEW k \in 1 .. Len(Order) + 1, Resuming(k), run.at = "step",
         Step \notin run.completed
  PROVE  \/ run.step = k /\ Step = "nomad" /\ Step \in installed
         \/ run.step > k /\ Step # "nomad" /\ Step \notin installed
<1>1. k \in Nat /\ run.step \in 1 .. Len(Order) /\ run.step \in Nat
  BY LenOrder, StepAt
<1>2. run.step >= k
  BY <1>1, NotBefore, StepAt DEF Resuming
<1>3. CASE run.step = k
  BY <1>1, <1>3, LenOrder, StepAt DEF Resuming
<1>4. CASE run.step > k
  <2>1. k \in 1 .. Len(Order) /\ k <= Len(Order)
    BY <1>1, <1>4, LenOrder
  <2>2. Step # "nomad"
    BY <1>1, <1>4, <2>1, OneNomad, StepAt DEF Resuming
  <2>3. Step \notin installed
    BY <1>1, <1>4, StepAt DEF Resuming
  <2> QED
    BY <1>4, <2>2, <2>3
<1> QED
  BY <1>1, <1>2, <1>3, <1>4

\* A step is done: in the install one that was applied and is not Nomad's, in
\* the resume one that is not behind Nomad's or was applied.
LEMMA DoneBooks ==
  ASSUME IInv, Book, faults = 0, faults' = 0,
         NEW applied \in BOOLEAN, StepDone(applied),
         UNCHANGED <<file, nodeVars, kinds>>, run.at \in {"step", "verify"},
         First => run.at = "verify" /\ Step # "nomad",
         Second => \A k \in 1 .. Len(Order) + 1 :
                      Resuming(k) => run.at = "verify" \/ run.step <= k
  PROVE  Book'
<1> TypeOK
  BY DEF IInv
<1>1. /\ UNCHANGED <<file, installed, accepts, booted, kinds>>
      /\ (First' <=> First) /\ (Second' <=> Second)
  BY DEF nodeVars, First, Second
<1>2. NothingYet'
  BY <1>1, NotIdleBegan DEF Book, Idle
<1>3. /\ run.step \in 1 .. Len(Order) /\ run.step \in Nat /\ Len(Order) \in Nat
      /\ Before(run.step + 1) = Before(run.step) \cup {Step}
  BY StepAt, LenOrder
<1>4. \/ /\ run.step < Len(Order)
         /\ run'.at = "step" /\ run'.step = run.step + 1 /\ run'.plan = run.plan
         /\ run'.secrets = run.secrets /\ run'.done = run.done \cup {Step}
         /\ run'.completed = run.completed
      \/ /\ run.step = Len(Order)
         /\ run'.at = "installed" /\ report' = run.done \cup {Step}
  BY StepBecomes
<1>5. ASSUME First PROVE InstallGoes'
  <2>1. /\ OwnPlan /\ file # Missing /\ file.consul # 0
        /\ installed = Before(run.step + 1) /\ ~booted
    BY <1>5 DEF Book, InstallGoes, Working
  <2>2. CASE run'.at = "step"
    <3>1. OwnPlan'
      BY <1>3, <1>4, <2>1, <2>2 DEF OwnPlan, Before
    <3>2. installed' = Before(run'.step)
      BY <1>1, <1>4, <2>1, <2>2
    <3> QED
      BY <1>1, <2>1, <2>2, <3>1, <3>2 DEF InstallGoes, Working, Idle, Before
  <2>3. CASE run'.at = "installed"
    <3> DEFINE k == Len(Order) + 1
    <3>1. report' = Before(k) /\ installed' = Before(k)
      BY <1>1, <1>3, <1>4, <2>1, <2>3 DEF OwnPlan
    <3>2. Before(k + 1) = Before(k) /\ ~(k <= Len(Order))
      <4>1. Len(Order) + 2 = k + 1 /\ ~(k <= Len(Order))
        BY <1>3
      <4> QED
        BY <4>1, BeforeLast
    <3>3. Stopped(k)' /\ k \in 1 .. Len(Order) + 1
      BY <1>1, <1>3, <2>1, <3>1, <3>2 DEF Stopped, Before
    <3> QED
      BY <2>3, <3>3 DEF InstallGoes, Working
  <2> QED
    BY <1>4, <2>2, <2>3
<1>6. ASSUME Second PROVE ResumeGoes'
  <2>1. PICK k \in 1 .. Len(Order) + 1 : Resuming(k)
    BY <1>6 DEF Book, ResumeGoes, Working
  <2>2. CASE run'.at = "step"
    <3>1. k \in Nat /\ run'.step = run.step + 1
      BY <1>3, <1>4, <2>2
    <3>2. ASSUME NEW j \in 1 .. Len(Order), j > k, j >= run.step + 1
          PROVE  Order[j] \notin installed
      <4>1. j > run.step
        BY <1>3, <3>1, <3>2
      <4> QED
        BY <1>3, <2>1, <3>1, <3>2, <4>1 DEF Resuming
    <3>3. Resuming(k)'
      BY <1>1, <1>4, <2>1, <2>2, <3>1, <3>2 DEF Resuming, Before
    <3> QED
      BY <2>2, <3>3 DEF ResumeGoes, Working
  <2> QED
    BY <1>4, <2>2 DEF ResumeGoes, Working
<1>7. InstallGoes' /\ ResumeGoes'
  BY <1>1, <1>5, <1>6 DEF InstallGoes, ResumeGoes
<1> QED
  BY <1>2, <1>7 DEF Book

LEMMA SkipBooks ==
  ASSUME IInv, Book, SkipCompleted, faults = 0
  PROVE  Book'
<1> TypeOK
  BY DEF IInv
<1>1. /\ UNCHANGED <<file, nodeVars, kinds>> /\ faults' = 0
      /\ run.at = "step" /\ Step \in run.completed /\ StepDone(FALSE)
  BY DEF SkipCompleted
<1>2. ~First
  BY <1>1 DEF Book, InstallGoes, OwnPlan, Working
<1>3. ASSUME NEW k \in 1 .. Len(Order) + 1, Resuming(k) PROVE run.step <= k
  <2>1. Step \in Before(k) /\ k \in Nat
    BY <1>1, <1>3, LenOrder DEF Resuming
  <2> QED
    BY <2>1, NotBefore, StepAt
<1> QED
  BY <1>1, <1>2, <1>3, DoneBooks

LEMMA CheckedBooks ==
  ASSUME IInv, Book, VerifyChecked, faults = 0
  PROVE  Book'
<1> TypeOK
  BY DEF IInv
<1>1. /\ UNCHANGED <<file, nodeVars, kinds>> /\ faults' = 0
      /\ run.at = "step" /\ Step \notin run.completed /\ Step \in installed
  BY DEF VerifyChecked, Checks
<1>2. ~First
  BY <1>1, StepAt DEF Book, InstallGoes
<1>3. ASSUME NEW k \in 1 .. Len(Order) + 1, Resuming(k)
      PROVE  run.step = k /\ ~Verifies(FALSE)
  <2>1. run.step = k /\ Step = "nomad"
    BY <1>1, <1>3, NotSkipped
  <2>2. k <= Len(Order)
    BY <2>1, StepAt, LenOrder
  <2>3. booted /\ run.plan.nomad = Boot
    BY <1>3, <2>2 DEF Resuming
  <2> QED
    BY <2>1, <2>3, VerifiesWhat
<1>4. CASE Second
  <2>1. \E k \in 1 .. Len(Order) + 1 : Resuming(k)
    BY <1>1, <1>4 DEF Book, ResumeGoes, Working
  <2>2. StepDone(FALSE)
    BY <1>3, <2>1 DEF VerifyChecked
  <2>3. ASSUME NEW k \in 1 .. Len(Order) + 1, Resuming(k) PROVE run.step <= k
    <3>1. run.step = k
      BY <1>3, <2>3
    <3> QED
      BY <3>1, StepAt
  <2> QED
    BY <1>1, <1>2, <2>2, <2>3, DoneBooks
<1>5. CASE ~Second
  <2>1. NothingYet'
    BY <1>1, NotIdleBegan DEF Book, Idle
  <2> QED
    BY <1>1, <1>2, <1>5, <2>1 DEF Book, InstallGoes, ResumeGoes, First, Second
<1> QED
  BY <1>4, <1>5

LEMMA VerifiedBooks ==
  ASSUME IInv, Book, VerifyApplied, faults = 0
  PROVE  Book'
<1> TypeOK
  BY DEF IInv
<1>1. /\ UNCHANGED <<file, nodeVars, kinds>> /\ faults' = 0 /\ run.at = "verify"
      /\ \/ Verifies(TRUE) /\ StepDone(TRUE)
         \/ Verifies(FALSE) /\ StepFailed
  BY DEF VerifyApplied
<1>2. Step \in Components
  BY StepIsComponent
<1>3. CASE First /\ Step = "nomad"
  <2>1. /\ OwnPlan /\ installed = Before(run.step + 1) /\ booted
        /\ file # Missing /\ file.nomad = Boot /\ file.consul # 0
    BY <1>1, <1>3 DEF Book, InstallGoes, Working
  <2>2. StepFailed
    BY <1>1, <1>3, <2>1, VerifiesWhat DEF OwnPlan
  <2>3. run'.at = "failed" /\ report' = Before(run.step)
    BY <2>1, <2>2, OverType DEF StepFailed, OwnPlan
  <2>4. PICK k \in 1 .. Len(Order) + 1 : k = run.step
    BY StepAt, LenOrder
  <2>5. Stopped(k)'
    BY <1>1, <1>3, <2>1, <2>3, <2>4, StepAt DEF Stopped, nodeVars, Before
  <2>6. \E j \in 1 .. Len(Order) + 1 : Stopped(j)'
    BY <2>5
  <2>7. InstallGoes' /\ ~Second'
    BY <1>1, <1>3, <2>3, <2>6 DEF InstallGoes, Working, First, Second
  <2>8. NothingYet'
    BY <1>1, NotIdleBegan DEF Book, Idle
  <2> QED
    BY <2>7, <2>8 DEF Book, ResumeGoes
<1>4. CASE First /\ Step # "nomad"
  <2>1. OwnPlan /\ (Step = "consul" => run.plan.consul \in accepts)
    BY <1>1, <1>4 DEF Book, InstallGoes, Working
  <2>2. StepDone(TRUE)
    BY <1>1, <1>2, <1>4, <2>1, VerifiesWhat DEF OwnPlan, Components
  <2> QED
    BY <1>1, <1>4, <2>2, DoneBooks
<1>5. CASE Second
  <2>1. PICK k \in 1 .. Len(Order) + 1 : Resuming(k)
    BY <1>1, <1>5 DEF Book, ResumeGoes, Working
  <2>2. /\ k \in Nat /\ run.step \in Nat /\ run.step > k
        /\ k \in 1 .. Len(Order) /\ k <= Len(Order)
    BY <1>1, <2>1, StepAt, LenOrder DEF Resuming
  <2>3. Step # "nomad"
    <3>1. Order[k] = "nomad"
      BY <2>1, <2>2 DEF Resuming
    <3> QED
      BY <2>2, <3>1, OneNomad, StepAt
  <2>4. run.plan.consul # 0 /\ (Step = "consul" => run.plan.consul \in accepts)
    BY <1>1, <2>1, <2>2 DEF Resuming
  <2>5. StepDone(TRUE)
    BY <1>1, <1>2, <2>3, <2>4, VerifiesWhat DEF Components
  <2>6. ~First
    BY <1>5 DEF First, Second
  <2> QED
    BY <1>1, <2>5, <2>6, DoneBooks
<1>6. CASE ~First /\ ~Second
  <2>1. NothingYet'
    BY <1>1, NotIdleBegan DEF Book, Idle
  <2> QED
    BY <1>1, <1>6, <2>1 DEF Book, InstallGoes, ResumeGoes, First, Second
<1> QED
  BY <1>3, <1>4, <1>5, <1>6

\* A step is applied, or what it printed is to be saved.
LEMMA ApplyingBooks ==
  ASSUME IInv, Book, faults = 0, NEW c \in Components, Applying(c),
         UNCHANGED <<file, report, kinds, faults>>,
         run'.at \in {"save", "verify"}, run'.step = run.step, run'.plan = run.plan,
         run'.done = run.done, run'.completed = run.completed,
         run.secrets.consul # 0 => run'.secrets.consul # 0,
         installed' = installed \cup {c},
         c = "consul" /\ run.plan.consul # 0 => run.plan.consul \in accepts',
         c = "nomad" => booted' /\ (First => run'.secrets.nomad = Boot /\ run'.at = "save"),
         c # "nomad" => booted' = booted
  PROVE  Book'
<1> TypeOK
  BY DEF IInv
<1>1. /\ run.at = "step" /\ Step = c /\ Step \notin run.completed
      /\ (First' <=> First) /\ (Second' <=> Second) /\ Step' = Step
  BY DEF Applying, First, Second, Step
<1>2. NothingYet'
  BY <1>1, NotIdleBegan DEF Book, Idle
<1>3. ASSUME First PROVE InstallGoes'
  <2>1. /\ OwnPlan /\ file # Missing /\ file.consul # 0
        /\ installed = Before(run.step) /\ ~booted
    BY <1>1, <1>3 DEF Book, InstallGoes, Working
  <2>2. OwnPlan'
    BY <2>1 DEF OwnPlan, Before
  <2>3. installed' = Before(run.step + 1)
    BY <1>1, <2>1, StepAt
  <2> QED
    BY <1>1, <1>3, <2>1, <2>2, <2>3 DEF InstallGoes, Working, Idle, Before, OwnPlan
<1>4. ASSUME Second PROVE ResumeGoes'
  <2>1. PICK k \in 1 .. Len(Order) + 1 : Resuming(k)
    BY <1>1, <1>4 DEF Book, ResumeGoes, Working
  <2>2. ~(Step = "nomad" /\ Step \in installed)
    BY <1>1 DEF Applying, Checks
  <2>3. run.step > k /\ Step # "nomad" /\ Step \notin installed
    BY <1>1, <2>1, <2>2, NotSkipped
  <2>4. k \in Nat /\ run.step \in Nat /\ run.step \in 1 .. Len(Order)
    BY StepAt, LenOrder
  <2>5. /\ k <= Len(Order) /\ run.plan.consul # 0 /\ booted
    BY <2>1, <2>3, <2>4, LenOrder DEF Resuming
  <2>6. ASSUME NEW j \in 1 .. Len(Order), j > run.step PROVE Order[j] \notin installed'
    <3>1. Order[j] # Step
      BY <2>4, <2>6, StepAt, OrderAssumption
    <3>2. j > k /\ j >= run.step
      BY <2>3, <2>4, <2>6
    <3> QED
      BY <1>1, <2>1, <3>1, <3>2 DEF Resuming
  <2>7. Resuming(k)'
    BY <1>1, <2>1, <2>3, <2>5, <2>6 DEF Resuming, Before
  <2> QED
    BY <2>7 DEF ResumeGoes, Working
<1> QED
  BY <1>1, <1>2, <1>3, <1>4 DEF Book, InstallGoes, ResumeGoes

LEMMA ConsulBooks ==
  ASSUME IInv, Book, ApplyConsul, faults = 0
  PROVE  Book'
<1> TypeOK
  BY DEF IInv
<1>1. /\ Applying("consul") /\ "consul" \in Components /\ Step = "consul"
      /\ UNCHANGED <<file, report, booted, kinds, faults>>
      /\ installed' = installed \cup {"consul"}
  BY DEF ApplyConsul, Applying, Components
<1>2. CASE Plan.consul = 0 /\ To("verify")
  <2>1. /\ run'.at = "verify" /\ run'.step = run.step /\ run'.plan = run.plan
        /\ run'.secrets = run.secrets /\ run'.done = run.done
        /\ run'.completed = run.completed
    BY <1>2, GoesTo DEF Places
  <2> QED
    BY <1>1, <1>2, <2>1, ApplyingBooks DEF Plan
<1>3. CASE /\ accepts' = accepts \cup {Plan.consul}
           /\ UpdateBootstrapSecrets([run.secrets EXCEPT !.consul = Printed(Plan.consul)])
  <2>1. Printed(Plan.consul) # 0
    BY NoTokenIsAnother DEF Printed
  <2>2. /\ run'.at = "save" /\ run'.step = run.step /\ run'.plan = run.plan
        /\ run'.secrets = [run.secrets EXCEPT !.consul = Printed(Plan.consul)]
        /\ run'.done = run.done /\ run'.completed = run.completed
    BY <1>3 DEF UpdateBootstrapSecrets, Running, Plan
  <2>3. run'.secrets.consul # 0
    BY <2>1, <2>2, RunFields DEF Secrets
  <2> QED
    BY <1>1, <1>3, <2>2, <2>3, ApplyingBooks DEF Plan
<1> QED
  BY <1>2, <1>3 DEF ApplyConsul

LEMMA NomadBooks ==
  ASSUME IInv, Book, ApplyNomad, faults = 0
  PROVE  Book'
<1> TypeOK
  BY DEF IInv
<1>1. /\ Applying("nomad") /\ "nomad" \in Components
      /\ UNCHANGED <<file, kinds, faults>>
      /\ run.at = "step" /\ Step = "nomad" /\ Step \notin run.completed
      /\ Step \notin installed
  BY DEF ApplyNomad, Applying, Components, Checks
<1>2. ~Second
  BY <1>1, NotSkipped DEF Book, ResumeGoes, Working
<1>3. CASE First
  <2>1. OwnPlan /\ ~booted
    BY <1>1, <1>3 DEF Book, InstallGoes, Working
  <2>2. Printed(Boot) = Boot
    BY <2>1, RunFields, NoTokenIsAnother DEF OwnPlan, Printed, Plan
  <2>3. /\ UpdateBootstrapSecrets([run.secrets EXCEPT !.nomad = Boot])
        /\ UNCHANGED report /\ installed' = installed \cup {"nomad"} /\ booted'
    BY <2>1, <2>2 DEF ApplyNomad
  <2>4. /\ run'.at = "save" /\ run'.step = run.step /\ run'.plan = run.plan
        /\ run'.secrets = [run.secrets EXCEPT !.nomad = Boot]
        /\ run'.done = run.done /\ run'.completed = run.completed
    BY <2>3 DEF UpdateBootstrapSecrets, Running, Plan
  <2>5. run'.secrets.nomad = Boot /\ run'.secrets.consul = run.secrets.consul
    BY <2>4, RunFields DEF Secrets
  <2> QED
    BY <1>1, <2>3, <2>4, <2>5, ApplyingBooks
<1>4. CASE ~First
  <2>1. NothingYet'
    BY <1>1, NotIdleBegan DEF Book, Idle
  <2> QED
    BY <1>1, <1>2, <1>4, <2>1 DEF Book, InstallGoes, ResumeGoes, First, Second
<1> QED
  BY <1>3, <1>4

LEMMA ControlPlaneBooks ==
  ASSUME IInv, Book, ApplyControlPlane, faults = 0
  PROVE  Book'
<1> TypeOK
  BY DEF IInv
<1>1. /\ Applying("control-plane") /\ "control-plane" \in Components
      /\ UNCHANGED <<file, report, accepts, booted, kinds, faults>>
      /\ installed' = installed \cup {"control-plane"} /\ To("verify")
  BY DEF ApplyControlPlane, Components
<1>2. /\ run'.at = "verify" /\ run'.step = run.step /\ run'.plan = run.plan
      /\ run'.secrets = run.secrets /\ run'.done = run.done
      /\ run'.completed = run.completed
  BY <1>1, GoesTo DEF Places
<1> QED
  BY <1>1, <1>2, ApplyingBooks

LEMMA SaveBooks ==
  ASSUME IInv, Book, SaveSecrets, faults = 0, faults' = 0
  PROVE  Book'
<1> TypeOK
  BY DEF IInv
<1>1. /\ UNCHANGED <<report, installed, accepts, booted, kinds>>
      /\ run.at = "save" /\ file' = run.secrets /\ To("verify")
  BY FaultCounts DEF SaveSecrets, nodeVars
<1>2. /\ run'.at = "verify" /\ run'.step = run.step /\ run'.plan = run.plan
      /\ run'.secrets = run.secrets /\ run'.done = run.done
      /\ run'.completed = run.completed
  BY <1>1, GoesTo DEF Places
<1>3. NothingYet'
  BY <1>1, NotIdleBegan DEF Book, Idle
<1>4. file' # Missing /\ Step' = Step /\ (First' <=> First) /\ (Second' <=> Second)
  BY <1>1, <1>2, RunFields, MissingAssumption DEF Step, First, Second
<1>5. ASSUME First PROVE InstallGoes'
  <2>1. OwnPlan /\ installed = Before(run.step + 1)
    BY <1>1, <1>5 DEF Book, InstallGoes, Working
  <2>2. OwnPlan'
    BY <1>2, <2>1 DEF OwnPlan, Before
  <2> QED
    BY <1>1, <1>2, <1>4, <1>5, <2>1, <2>2
    DEF Book, InstallGoes, Working, Idle, Before, OwnPlan
<1>6. ASSUME Second PROVE ResumeGoes'
  <2>1. PICK k \in 1 .. Len(Order) + 1 : Resuming(k)
    BY <1>1, <1>6 DEF Book, ResumeGoes, Working
  <2>2. Resuming(k)'
    BY <1>1, <1>2, <1>4, <2>1 DEF Resuming, Before
  <2> QED
    BY <1>2, <2>2 DEF ResumeGoes, Working
<1> QED
  BY <1>3, <1>4, <1>5, <1>6 DEF Book, InstallGoes, ResumeGoes

LEMMA BookStep == IInv /\ Book /\ [Next]_vars => Book'
<1> SUFFICES ASSUME IInv, Book, [Next]_vars PROVE Book'
  OBVIOUS
<1> TypeOK
  BY DEF IInv
<1>1. CASE faults' # 0
  BY <1>1 DEF Book, NothingYet, InstallGoes, ResumeGoes
<1>2. CASE faults' = 0 /\ UNCHANGED vars
  <2>1. /\ UNCHANGED <<file, report, run, installed, accepts, booted, gens, kinds, faults>>
        /\ \A k \in 1 .. Len(Order) + 1 :
              (Stopped(k)' <=> Stopped(k)) /\ (Resuming(k)' <=> Resuming(k))
    BY <1>2 DEF vars, Stopped, Resuming, Before, Step
  <2> QED
    BY <2>1 DEF Book, NothingYet, InstallGoes, ResumeGoes, First, Second, OwnPlan,
                Working, Idle, Step, Before
<1>3. CASE faults' = 0 /\ Next
  <2>1. faults = 0
    <3>1. faults \in 0 .. MaxFaults /\ MaxFaults \in Nat
      BY BoundAssumption DEF TypeOK
    <3>2. faults' \in {faults, faults + 1}
      BY <1>3 DEF Next, Start, SaveGenerated, SkipCompleted, VerifyChecked, ApplyConsul,
                  ApplyNomad, ApplyControlPlane, ApplyFails, SaveSecrets, VerifyApplied,
                  Kill, RemovePackage, Fault
    <3> QED
      BY <1>3, <3>1, <3>2
  <2>2. ~Fault
    BY <1>3, FaultCounts
  <2>3. ~ApplyFails /\ ~Kill /\ \A c \in Components : ~RemovePackage(c)
    BY <2>2 DEF ApplyFails, Kill, RemovePackage
  <2> QED
    BY <1>3, <2>1, <2>3, StartBooks, GenerateBooks, SkipBooks, CheckedBooks,
       ConsulBooks, NomadBooks, ControlPlaneBooks, SaveBooks, VerifiedBooks DEF Next
<1> QED
  BY <1>1, <1>2, <1>3

\* Without a fault the resume of an install completes it, whatever the order of
\* the steps: the token that Nomad made, and the plan did not know, is in the
\* file the resume loads (install.go: Run, applyStep, verifyStep,
\* updateBootstrapSecrets).
THEOREM Resumed == Spec => []ResumeCompletes
<1>1. Init => Book
  <2> SUFFICES ASSUME Init PROVE Book
    OBVIOUS
  <2>1. Len(kinds) = 0 /\ run.at = "none"
    BY OverType DEF Init
  <2> QED
    BY <2>1 DEF Init, Book, NothingYet, InstallGoes, ResumeGoes, First, Second
<1>2. Book => ResumeCompletes
  <2> SUFFICES ASSUME Book, kinds = <<"install", "resume">>, faults = 0, Idle
               PROVE  run.at = "installed"
    BY DEF ResumeCompletes
  <2>1. Second
    BY DEF Second
  <2> QED
    BY <2>1 DEF Book, ResumeGoes, Working, Idle
<1> QED
  BY <1>1, <1>2, InitIInv, NextPreserves, BookStep, PTL DEF Spec
================================================================================
