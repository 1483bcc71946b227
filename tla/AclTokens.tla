-------------------------------- MODULE AclTokens --------------------------------
(***************************************************************************)
(* The ACL tokens of Consul and Nomad in an install                        *)
(* (src/internal/stackforge/install/install.go, secrets/secrets.go,        *)
(* remoteexec/remoteexec.go): what generated-secrets.yaml, the servers and *)
(* the environment of the control plane say of them.                       *)
(*                                                                         *)
(* An install loads the secrets, or makes them, and puts them into the     *)
(* commands of all its steps before the first step runs.  The commands     *)
(* that install Consul and Nomad print the token that works in the end;    *)
(* the executor strikes out of what they print every secret the install    *)
(* knew when it made them; and what is left is saved as the token.         *)
(*                                                                         *)
(* Consul takes the token it is configured with; Nomad makes one, once.    *)
(* ACLs are enabled for both, and Order is the order of the steps.         *)
(***************************************************************************)
EXTENDS Naturals, Sequences, FiniteSets

CONSTANTS
    Order,     \* the steps that have to do with tokens, as the roles order them
    Redacted,  \* what the executor leaves of a secret
    Boot,      \* the token that Nomad makes
    Missing,   \* no secrets file
    MaxGens,   \* bound: sets of secrets made
    MaxRuns,   \* bound: installs
    MaxFaults  \* bound: failed calls, full disks, dying processes, removals

Components == {"consul", "nomad", "control-plane"}

ASSUME OrderAssumption ==
    /\ Order \in Seq(Components) /\ Order # <<>>
    /\ \A i, j \in 1 .. Len(Order) : Order[i] = Order[j] => i = j
ASSUME BoundAssumption == MaxGens \in Nat /\ MaxRuns \in Nat /\ MaxFaults \in Nat

\* Sets of secrets are numbered, and a token made with the set g is called g,
\* as is its database password.  0: the empty text.
Gens == 0 .. MaxGens
ASSUME TokensAssumption == {Redacted, Boot} \cap Gens = {} /\ Redacted # Boot

VARIABLES
    file,      \* generated-secrets.yaml
    report,    \* install-report.json: the steps that are done
    run,       \* the install that runs
    installed, \* the components whose program is on the node
    accepts,   \* the management tokens Consul accepts
    booted,    \* are Nomad's ACLs bootstrapped?
    env,       \* stackforge.env: the secrets the control plane has
    gens,      \* number of the set of secrets made last
    kinds,     \* history: the installs begun, "install" or "resume"
    lost,      \* history: how tokens were lost
    emptied,   \* history: was the save of new secrets cut off, the file left empty?
    faults     \* spent of MaxFaults

vars == <<file, report, run, installed, accepts, booted, env, gens, kinds,
          lost, emptied, faults>>
nodeVars == <<installed, accepts, booted, env>>

Secrets == [gen : Gens, consul : Gens \cup {Redacted},
            nomad : Gens \cup {Redacted, Boot}]

ASSUME MissingAssumption == Missing \notin Secrets

\* LoadOrGenerate: what it makes, and what it loads from an empty file.
Generated(g) == [gen |-> g, consul |-> g, nomad |-> g]
NoSecrets == Generated(0)

\* plan: the secrets in the commands; secrets: the SecretSet as it is now.
Running(place, step, plan, secrets, done, completed) ==
    [at |-> place, step |-> step, plan |-> plan, secrets |-> secrets,
     done |-> done, completed |-> completed]

Over(outcome) == Running(outcome, 1, NoSecrets, NoSecrets, {}, {})

Places == {"none", "failed", "installed", "generate", "step", "save", "verify"}

Runs == [at : Places, step : 1 .. Len(Order), plan : Secrets, secrets : Secrets,
         done : SUBSET Components, completed : SUBSET Components]

Idle == run.at \in {"none", "failed", "installed"}
Step == Order[run.step]
Plan == run.plan
To(place) == run' = [run EXCEPT !.at = place]
Fault == faults < MaxFaults /\ faults' = faults + 1

------------------------------------------------------------------------------
Init ==
    /\ file = Missing
    /\ report = {}
    /\ run = Over("none")
    /\ installed = {}
    /\ accepts = {}
    /\ booted = FALSE
    /\ env = NoSecrets
    /\ gens = 0
    /\ kinds = <<>>
    /\ lost = {}
    /\ emptied = FALSE
    /\ faults = 0

\* install, or install --resume: the secrets are loaded, or made when there is
\* no file.  A resume skips what the report says is done.
Start(kind) ==
    /\ Idle
    /\ Len(kinds) < MaxRuns
    /\ kinds' = Append(kinds, kind)
    /\ LET completed == IF kind = "resume" THEN report ELSE {}
       IN  \/ /\ file # Missing
              /\ run' = Running("step", 1, file, file, {}, completed)
              /\ UNCHANGED gens
           \/ /\ file = Missing
              /\ gens < MaxGens
              /\ gens' = gens + 1
              /\ run' = Running("generate", 1, Generated(gens + 1),
                                Generated(gens + 1), {}, completed)
    /\ UNCHANGED <<file, report, nodeVars, lost, emptied, faults>>

\* What a save that was cut off leaves: later installs load an empty file, and
\* make no tokens.
NoteEmptied ==
    emptied' = (emptied \/ (run.at = "generate" /\ file' = NoSecrets))

\* The secrets made are saved; without that the install ends.
SaveGenerated ==
    /\ run.at = "generate"
    /\ \/ file' = run.secrets /\ To("step") /\ UNCHANGED faults
       \/ file' \in {file, NoSecrets} /\ run' = Over("failed") /\ Fault
    /\ NoteEmptied
    /\ UNCHANGED <<report, nodeVars, gens, kinds, lost>>

\* A step is done; the next one begins, or the install is over.  Reports are
\* written after a step that was applied and when the install ends.
StepDone(applied) ==
    LET done == run.done \cup {Step}
        last == run.step = Len(Order)
    IN  /\ run' = IF last THEN Over("installed")
                  ELSE Running("step", run.step + 1, Plan, run.secrets, done,
                               run.completed)
        /\ report' = IF last \/ applied THEN done ELSE report

\* A step fails, and the install with it.
StepFailed == run' = Over("failed") /\ report' = run.done

\* A step the report has is skipped: neither checked nor verified.
SkipCompleted ==
    /\ run.at = "step" /\ Step \in run.completed
    /\ StepDone(FALSE)
    /\ UNCHANGED <<file, nodeVars, gens, kinds, lost, emptied, faults>>

\* The check of a step: is the program there; does the control plane run with
\* the database password of these secrets?
Checks ==
    /\ Step \in installed
    /\ Step = "control-plane" => env.gen = Plan.gen

\* The verification of a step with the tokens of the plan.  Consul may answer
\* to a request without a token; without one nothing is asked of Nomad.
Verifies(passes) ==
    CASE Step = "consul" -> passes = (Plan.consul \in accepts) \/ Plan.consul = 0
      [] Step = "nomad"  ->
            passes = (Plan.nomad = 0 \/ (booted /\ Plan.nomad = Boot))
      [] OTHER -> passes

\* A step whose check says it is done is verified, and not applied.
VerifyChecked ==
    /\ run.at = "step" /\ Step \notin run.completed
    /\ Checks
    /\ \/ Verifies(TRUE) /\ StepDone(FALSE)
       \/ Verifies(FALSE) /\ StepFailed
    /\ UNCHANGED <<file, nodeVars, gens, kinds, lost, emptied, faults>>

Applying(component) ==
    /\ run.at = "step" /\ Step = component /\ Step \notin run.completed
    /\ ~Checks

\* Mutant: a new token is struck out as well.
PrintedStruck(token) == Redacted

\* What arrives of a token that a command prints.
Printed(token) == IF token \in {Plan.consul, Plan.nomad} THEN Redacted ELSE token

\* Mutant: the SecretSet is kept for the install, and not saved.
UpdateBootstrapSecretsOnly(secrets) ==
    run' = Running("verify", run.step, Plan, secrets, run.done, run.completed)

\* updateBootstrapSecrets: the SecretSet has what was printed, to be saved.
UpdateBootstrapSecrets(secrets) ==
    run' = Running("save", run.step, Plan, secrets, run.done, run.completed)

\* Consul is configured with the token of the plan, if it has one, which it
\* then accepts; and the command prints it.
ApplyConsul ==
    /\ Applying("consul")
    /\ installed' = installed \cup {"consul"}
    /\ \/ /\ Plan.consul # 0
          /\ accepts' = accepts \cup {Plan.consul}
          /\ UpdateBootstrapSecrets([run.secrets EXCEPT !.consul = Printed(Plan.consul)])
       \/ /\ Plan.consul = 0
          /\ To("verify")
          /\ UNCHANGED accepts
    /\ UNCHANGED <<file, report, booted, env, gens, kinds, lost, emptied, faults>>

\* Nomad's token is the one of the plan when that works; else Nomad is
\* bootstrapped and prints its own; else it was bootstrapped already, which is
\* an error.
ApplyNomad ==
    /\ Applying("nomad")
    /\ installed' = installed \cup {"nomad"}
    /\ booted' = TRUE
    /\ \/ /\ booted /\ Plan.nomad = Boot
          /\ UpdateBootstrapSecrets([run.secrets EXCEPT !.nomad = Printed(Boot)])
          /\ lost' = lost \cup {"printed again"}
          /\ UNCHANGED report
       \/ /\ ~booted
          /\ UpdateBootstrapSecrets([run.secrets EXCEPT !.nomad = Printed(Boot)])
          /\ UNCHANGED <<report, lost>>
       \/ /\ booted /\ Plan.nomad # Boot
          /\ StepFailed
          /\ UNCHANGED lost
    /\ UNCHANGED <<file, accepts, env, gens, kinds, emptied, faults>>

\* The control plane gets the secrets of the plan.
ApplyControlPlane ==
    /\ Applying("control-plane")
    /\ installed' = installed \cup {"control-plane"}
    /\ env' = Plan
    /\ To("verify")
    /\ UNCHANGED <<file, report, accepts, booted, gens, kinds, lost, emptied, faults>>

\* The command of a step fails: before the program was there, or after it was
\* started, or its answer is lost.  What it printed is not looked at.
ApplyFails ==
    /\ \E c \in Components : Applying(c)
    /\ Fault
    /\ \/ UNCHANGED <<nodeVars, lost>>
       \/ /\ installed' = installed \cup {Step}
          /\ \/ UNCHANGED <<accepts, booted, env, lost>>
             \/ /\ Step = "consul" /\ Plan.consul # 0
                /\ accepts' = accepts \cup {Plan.consul}
                /\ UNCHANGED <<booted, env, lost>>
             \/ /\ Step = "nomad" /\ ~booted
                /\ booted' = TRUE
                /\ lost' = lost \cup {"answer"}
                /\ UNCHANGED <<accepts, env>>
             \/ /\ Step = "control-plane"
                /\ env' = Plan
                /\ UNCHANGED <<accepts, booted, lost>>
    /\ StepFailed
    /\ UNCHANGED <<file, gens, kinds, emptied>>

\* The SecretSet is saved; an error of that is dropped.  A save that fails may
\* leave an empty file.
SaveSecrets ==
    /\ run.at = "save"
    /\ \/ file' = run.secrets /\ UNCHANGED <<lost, faults>>
       \/ /\ file' \in {file, NoSecrets}
          /\ lost' = lost \cup {"save"}
          /\ Fault
    /\ To("verify")
    /\ UNCHANGED <<report, nodeVars, gens, kinds, emptied>>

\* Mutant: the verification of what was applied is dropped.
VerifyAppliedAnyway ==
    /\ run.at = "verify"
    /\ StepDone(TRUE)
    /\ UNCHANGED <<file, nodeVars, gens, kinds, lost, emptied, faults>>

\* What was applied is verified, with the tokens of the plan.
VerifyApplied ==
    /\ run.at = "verify"
    /\ \/ Verifies(TRUE) /\ StepDone(TRUE)
       \/ Verifies(FALSE) /\ StepFailed
    /\ UNCHANGED <<file, nodeVars, gens, kinds, lost, emptied, faults>>

\* The install is killed.  A file it was writing is as it was, or empty.
Kill ==
    /\ ~Idle
    /\ Fault
    /\ run' = Over("failed")
    /\ \/ UNCHANGED file
       \/ run.at \in {"generate", "save"} /\ file' = NoSecrets
    /\ lost' = IF run.at = "save" THEN lost \cup {"save"} ELSE lost
    /\ NoteEmptied
    /\ UNCHANGED <<report, nodeVars, gens, kinds>>

\* The package of a component is removed from the node, and its data kept.
RemovePackage(c) ==
    /\ Idle
    /\ c \in installed \cap {"consul", "nomad"}
    /\ installed' = installed \ {c}
    /\ Fault
    /\ UNCHANGED <<file, report, run, accepts, booted, env, gens, kinds, lost,
                   emptied>>

Next ==
    \/ \E kind \in {"install", "resume"} : Start(kind)
    \/ SaveGenerated
    \/ SkipCompleted \/ VerifyChecked
    \/ ApplyConsul \/ ApplyNomad \/ ApplyControlPlane \/ ApplyFails
    \/ SaveSecrets \/ VerifyApplied
    \/ Kill
    \/ \E c \in Components : RemovePackage(c)

Spec == Init /\ [][Next]_vars

------------------------------------------------------------------------------
(* Properties.                                                             *)

\* The secrets, the install and the servers have their types.
TypeOK ==
    /\ file \in Secrets \cup {Missing}
    /\ report \subseteq Components
    /\ run \in Runs
    /\ installed \subseteq Components
    /\ accepts \subseteq Gens \cup {Redacted}
    /\ booted \in BOOLEAN
    /\ env \in Secrets
    /\ gens \in Gens
    /\ kinds \in Seq({"install", "resume"})
    /\ lost \subseteq {"answer", "save", "printed again"}
    /\ emptied \in BOOLEAN
    /\ faults \in 0 .. MaxFaults

\* Nomad makes its token once, and prints it once.  From then on the install
\* that runs or the secrets file has it; unless the answer or a save was lost,
\* or the token was printed again, and struck out, by a second installation.
NomadTokenIsKept ==
    booted /\ lost = {} =>
        Boot \in {run.secrets.nomad, file.nomad}

\* The control plane that a report calls done has the token that Nomad takes,
\* though a resume skips the steps that are done without verifying the tokens
\* again; unless the token was lost, or there was none because the save of new
\* secrets had left an empty file.
ControlPlaneReachesNomad ==
    "control-plane" \in report /\ lost = {} /\ ~emptied => env.nomad = Boot

\* An install whose tokens are made by the way cannot get through at once: the
\* step of Nomad verifies the token of the plan.  Its resume can.
ResumeCompletes ==
    kinds = <<"install", "resume">> /\ faults = 0 /\ Idle => run.at = "installed"

\* The token in the secrets file is one that Consul accepts, once the step of
\* Consul is done.
StoredConsulTokenWorks ==
    "consul" \in report /\ faults = 0 => file.consul \in accepts
==============================================================================
