------------------------------ MODULE Onboarding ------------------------------
(***************************************************************************)
(* Commands that prepare servers over SSH: nodes bootstrap, nodes onboard, *)
(* components install and firewall apply (runOnboard and firewallCmd of    *)
(* src/internal/stackforge/cli/onboarding.go, and the packages bootstrap,  *)
(* components, validate, install and verify they call).                    *)
(*                                                                         *)
(* One command at a time.  It goes through its stages, and in a stage      *)
(* through the nodes, one remote command an action; any of them may fail   *)
(* half way, which ends the command and leaves the rest of the nodes as    *)
(* they are.  What the stages know of one another they know from           *)
(* inventory.yaml.  nodes bootstrap is an onboarding with the first stage  *)
(* only; components install is the second or the fourth stage for nodes    *)
(* the inventory has.                                                      *)
(*                                                                         *)
(* The loop of the install stage with its reports is InstallEngine's; here *)
(* are the steps the plan of a node holds, and what they find and do.      *)
(***************************************************************************)
EXTENDS FirewallRules

CONSTANTS
    Files,       \* the configuration files in use
    ConfigOf,    \* what each holds
    NoFile,      \* not one of them
    OptionSets,  \* the options and flags commands are called with
    MaxFaults    \* bound: remote commands and saves that fail, services that stop

ASSUME OnboardingAssumption ==
    /\ ConfigOf \in [Files -> ConfigType]
    /\ NoFile \notin Files
    /\ MaxFaults \in Nat

VARIABLES
    hosts,     \* the servers, see Host
    inventory, \* inventory.yaml, see Inventories
    run,       \* the command under way, see Runs
    result,    \* history: the onboarding that reported success last, until the
               \* next command
    witness,   \* history: nodes all of whose services verify is to look at ran
               \* when it looked
    faults     \* spent of MaxFaults

vars == <<hosts, inventory, run, result, witness, faults>>

Stages == 1 .. 7
Bootstrap == 1   Base == 2     Preflight == 3   Docker == 4
Install == 5     Verify == 6   Firewall == 7

\* The option that asks for a stage.
Asks == <<"copy", "base", "preflight", "docker", "components", "components", "apply">>
Options == Members(Asks) \cup {"firewall"} \cup Flags

\* firewall apply is a command of its own.
ASSUME OptionsAssumption ==
    \A opts \in OptionSets :
        /\ opts \subseteq Options
        /\ "apply" \in opts => opts \subseteq {"apply"} \cup Flags

Steps == Parts \cup {"base", "firewall"}

Host == [key : {"no", "yes"}, packages : {"no", "yes"}, docker : {"no", "yes"},
         ufw : {"inactive", "active"}, rules : SUBSET AllRules,
         services : [Parts -> {"absent", "stopped", "running"}]]

\* stage: 0 between commands.  todo: the nodes the stage has still to turn to.
\* left: the install steps of the first of them.  failed: a check of verify.
Runs == [stage : 0 .. 7, file : Files \cup {NoFile}, opts : SUBSET Options,
         todo : Seq(Nodes), left : Seq(Steps), failed : {"no", "yes"}]
Idle == [stage |-> 0, file |-> NoFile, opts |-> {}, todo |-> <<>>, left |-> <<>>,
         failed |-> "no"]

Results == [file : Files \cup {NoFile}, opts : SUBSET Options]
NoResult == [file |-> NoFile, opts |-> {}]

\* there: "no" when Load returns an error; "cut" when a save was cut off in it,
\* of the last of its nodes then perhaps not all lines are left.  nodes: in
\* order.  ready: those called "ssh-ready".
Inventories == [there : {"no", "cut", "yes"}, nodes : Seq(Nodes), ready : SUBSET Nodes]
NoInventory == [there |-> "no", nodes |-> <<>>, ready |-> {}]

\* What a save that is cut off leaves of the file: nothing Load reads, or its
\* beginning.
CutOffSaves(inv) ==
    {NoInventory} \cup
    {[there |-> "cut", nodes |-> SubSeq(inv.nodes, 1, k),
      ready |-> inv.ready \cap Members(SubSeq(inv.nodes, 1, k))] : k \in 0 .. Len(inv.nodes)}

Init ==
    /\ hosts = [n \in Nodes |->
                  [key |-> "no", packages |-> "no", docker |-> "no",
                   ufw |-> "inactive", rules |-> {},
                   services |-> [p \in Parts |-> "absent"]]]
    /\ inventory = NoInventory
    /\ run = Idle
    /\ result = NoResult
    /\ witness = {}
    /\ faults = 0

Fault == faults < MaxFaults /\ faults' = faults + 1

SaveCutOff(inv) == Fault /\ inventory' \in CutOffSaves(inv)

\* A host after a change of some of its fields.
Changes(n, host) == hosts' = [hosts EXCEPT ![n] = host]

Cfg == ConfigOf[run.file]
Node == Head(run.todo)
At(stage) == run.stage = stage /\ run.todo # <<>>

\* The stage goes on with the next node, or the command is over.
Advances == run' = [run EXCEPT !.todo = Tail(@)]
Stops == run' = Idle

------------------------------------------------------------------------------
(* From stage to stage.                                                    *)

\* A command is called.
Start(file, opts) ==
    /\ run.stage = 0
    /\ run' = [run EXCEPT !.stage = IF "apply" \in opts THEN Firewall ELSE Bootstrap,
                          !.file = file, !.opts = opts,
                          !.todo = IF {"copy", "apply"} \cap opts # {}
                                   THEN ConfigOf[file].nodes ELSE <<>>]
    /\ "apply" \in opts => PlanAccepted(ConfigOf[file], opts)
    /\ result' = NoResult
    /\ witness' = {}
    /\ UNCHANGED <<hosts, inventory, faults>>

\* The nodes of the inventory the installer starts with.
InitialInventory(cfg) == [there |-> "yes", nodes |-> cfg.nodes, ready |-> {}]

\* A dry run of an onboarding plans only, but its install stage saves the
\* inventory it would start with.
DryRun(file, opts) ==
    /\ run.stage = 0
    /\ "components" \in opts
    /\ IsValid(ConfigOf[file])
    /\ \/ inventory' = InitialInventory(ConfigOf[file]) /\ UNCHANGED faults
       \/ SaveCutOff(InitialInventory(ConfigOf[file]))
    /\ result' = NoResult
    /\ witness' = {}
    /\ UNCHANGED <<hosts, run>>

Later == {s \in Stages : s > run.stage /\ Asks[s] \in run.opts}

\* The stage is through with its nodes and s is the next one asked for.
Enters(s) ==
    /\ run.stage \in 1 .. 5 /\ run.todo = <<>>
    /\ s \in Later
    /\ \A t \in Later : s <= t

Goes(s, todo, left) ==
    run' = [run EXCEPT !.stage = s, !.todo = todo, !.left = left]

\* Base packages and Docker go to the nodes of the inventory when it loads,
\* whether it names any or not.
Targets == IF inventory.there = "no" THEN Cfg.nodes ELSE inventory.nodes

EnterPackages(s) ==
    /\ Enters(s)
    /\ Goes(s, Targets, <<>>)
    /\ UNCHANGED <<hosts, inventory, result, witness, faults>>

NoFirewall == "firewall" \notin run.opts \/ "allow-no-firewall" \in run.opts

Running(n) == {p \in Parts : hosts[n].services[p] = "running"}

\* parsePreflight: ufw is there, and the ports are free.
NodePasses(n) == (NoFirewall \/ hosts[n].packages = "yes") /\ Running(n) = {}

\* validate.RunWithOptions: the rules of the configuration, with a plan that
\* has not heard of --allow-public-ssh, and each node.
PreflightPasses ==
    /\ IsValid(Cfg)
    /\ IsSafe(Cfg, run.opts)
    /\ Cfg.values = "real"
    /\ NoFirewall \/ PlanAccepted(Cfg, {})
    /\ \A n \in NodesOf(Cfg) : NodePasses(n)

RunPreflight ==
    /\ Enters(Preflight)
    /\ \/ PreflightPasses /\ Goes(Preflight, <<>>, <<>>) /\ UNCHANGED faults
       \/ ~PreflightPasses /\ Stops /\ UNCHANGED faults
       \/ Fault /\ Stops
    /\ UNCHANGED <<hosts, inventory, result, witness>>

\* Mutant: the role docker-host makes a step as well.
StepsOfDocker(n) ==
    <<"base", "docker">> \o (IF NoFirewall THEN <<>> ELSE <<"firewall">>) \o Cfg.parts[n]

\* The plan of a node: install.Plan, without the ssh and os steps, which change
\* nothing.
StepsOf(n) ==
    <<"base">> \o (IF NoFirewall THEN <<>> ELSE <<"firewall">>) \o Cfg.parts[n]

\* install.Plan returns steps and no error.
PlansInstall ==
    /\ NoFirewall \/ PlanAccepted(Cfg, run.opts)
    /\ Cfg.engine = "mysql" => With(Cfg, "postgres") = {}

\* install.Run refuses a configuration; or cannot replace the inventory; or
\* refuses its plan, when the inventory has been replaced already; or begins.
EnterInstall ==
    /\ Enters(Install)
    /\ \/ /\ ~(IsValid(Cfg) /\ IsSafe(Cfg, run.opts))
          /\ Stops
          /\ UNCHANGED <<inventory, faults>>
       \/ /\ IsValid(Cfg) /\ IsSafe(Cfg, run.opts)
          /\ inventory' = InitialInventory(Cfg)
          /\ IF PlansInstall THEN Goes(Install, Cfg.nodes, StepsOf(Head(Cfg.nodes)))
             ELSE Stops
          /\ UNCHANGED faults
       \/ /\ IsValid(Cfg) /\ IsSafe(Cfg, run.opts)
          /\ SaveCutOff(InitialInventory(Cfg))
          /\ Stops
    /\ UNCHANGED <<hosts, result, witness>>

\* The install ends with a save of the inventory nobody asks the outcome of.
\* Post-onboarding verification then is of the nodes of the inventory, and is
\* left out when that does not load.
EnterVerify ==
    /\ Enters(Verify)
    /\ \/ UNCHANGED <<inventory, faults>>
       \/ SaveCutOff(inventory)
    /\ Goes(Verify, inventory'.nodes, <<>>)
    /\ UNCHANGED <<hosts, result, witness>>

\* No later stage is asked for: the command returns, without an error unless a
\* check of verify failed.
Finish ==
    /\ run.stage \in 1 .. 7 /\ run.todo = <<>> /\ Later = {}
    /\ result' = IF run.failed = "yes" THEN NoResult
                 ELSE [file |-> run.file, opts |-> run.opts]
    /\ Stops
    /\ UNCHANGED <<hosts, inventory, witness, faults>>

------------------------------------------------------------------------------
(* In the stages.                                                          *)

\* Mutant: only nodes the inventory knows are updated.
UpsertedIfKnown(n) ==
    [there |-> "yes", nodes |-> inventory.nodes,
     ready |-> inventory.ready \cup ({n} \cap Members(inventory.nodes))]

\* upsertInventoryNode.
Upserted(n) ==
    [there |-> "yes",
     nodes |-> IF n \in Members(inventory.nodes) THEN inventory.nodes
               ELSE Append(inventory.nodes, n),
     ready |-> inventory.ready \cup {n}]

\* Mutant: the node is entered when its key was sent, before a login proved it.
BootstrapNodeEarly ==
    /\ At(Bootstrap)
    /\ inventory' = Upserted(Node)
    /\ \/ /\ Changes(Node, [hosts[Node] EXCEPT !.key = "yes"])
          /\ Advances
          /\ UNCHANGED faults
       \/ Fault /\ Stops /\ UNCHANGED hosts
    /\ UNCHANGED <<result, witness>>

\* The public key is appended to authorized_keys, a login with it is tried, and
\* the node is entered in the inventory, which is saved.  Each may fail.
BootstrapNode ==
    /\ At(Bootstrap)
    /\ \/ /\ Changes(Node, [hosts[Node] EXCEPT !.key = "yes"])
          /\ inventory' = Upserted(Node)
          /\ Advances
          /\ UNCHANGED faults
       \/ /\ \/ UNCHANGED hosts
             \/ Changes(Node, [hosts[Node] EXCEPT !.key = "yes"])
          /\ Fault
          /\ Stops
          /\ UNCHANGED inventory
       \/ /\ Changes(Node, [hosts[Node] EXCEPT !.key = "yes"])
          /\ SaveCutOff(Upserted(Node))
          /\ Stops
    /\ UNCHANGED <<result, witness>>

\* components.RunInstall: what is there already is left alone.
InstallPackages ==
    /\ \/ /\ At(Base)
          /\ Changes(Node, [hosts[Node] EXCEPT !.packages = "yes"])
       \/ /\ At(Docker)
          /\ Changes(Node, [hosts[Node] EXCEPT !.docker = "yes"])
    /\ Advances
    /\ UNCHANGED <<inventory, result, witness, faults>>

\* A remote command of these stages fails: the command ends, the nodes after
\* this one are not turned to.
PackagesFail ==
    /\ At(Base) \/ At(Docker)
    /\ Fault
    /\ Stops
    /\ UNCHANGED <<hosts, inventory, result, witness>>

Step == Head(run.left)

\* The next step of the node, or the steps of the next node.
StepDone ==
    run' = IF Len(run.left) > 1 THEN [run EXCEPT !.left = Tail(@)]
           ELSE [run EXCEPT !.todo = Tail(@),
                            !.left = IF Len(run.todo) > 1
                                     THEN StepsOf(run.todo[2]) ELSE <<>>]

InstallBase ==
    /\ At(Install) /\ Step = "base"
    /\ Changes(Node, [hosts[Node] EXCEPT !.packages = "yes"])
    /\ StepDone
    /\ UNCHANGED <<inventory, result, witness, faults>>

\* The firewall's step asks whether ufw is there, and with the base packages it
\* is: the rules are never applied.  Its verify takes the word "active" in
\* "Status: inactive" for an answer, and looks at the ports of an active one.
InstallFirewall ==
    /\ At(Install) /\ Step = "firewall"
    /\ hosts[Node].packages = "yes"
    /\ IF hosts[Node].ufw = "inactive" \/ PortsVerified(hosts[Node].rules)
       THEN StepDone ELSE Stops
    /\ UNCHANGED <<hosts, inventory, result, witness, faults>>

State(n, p) == hosts[n].services[p]
Sets(n, p, s) == Changes(n, [hosts[n] EXCEPT !.services[p] = s])

\* The check of a component: of three that its binary answers, of the others
\* that their service is active.
IsInstalled(n, p) ==
    IF p \in {"consul", "nomad", "traefik"} THEN State(n, p) # "absent"
    ELSE State(n, p) = "running"

\* With sqlite the plan has no step for the database.
IsLeftOut(p) == p = "postgres" /\ Cfg.engine = "sqlite"

LeaveOut ==
    /\ At(Install) /\ IsLeftOut(Step)
    /\ StepDone
    /\ UNCHANGED <<hosts, inventory, result, witness, faults>>

\* A component that is installed is verified, one that is not is applied and
\* then verified.
InstallComponent ==
    /\ At(Install) /\ Step \in Parts /\ ~IsLeftOut(Step)
    /\ \/ /\ IsInstalled(Node, Step)
          /\ IF State(Node, Step) = "running" THEN StepDone ELSE Stops
          /\ UNCHANGED hosts
       \/ /\ ~IsInstalled(Node, Step)
          /\ Sets(Node, Step, "running")
          /\ StepDone
    /\ UNCHANGED <<inventory, result, witness, faults>>

\* A step fails, an apply perhaps when the component is installed but its
\* service not started, or the command is killed: the install ends, in the
\* middle of a save perhaps.
StepFails ==
    /\ At(Install)
    /\ \/ UNCHANGED hosts
       \/ /\ Step \in Parts /\ ~IsLeftOut(Step) /\ ~IsInstalled(Node, Step)
          /\ Sets(Node, Step, "stopped")
    /\ Fault
    /\ inventory' \in {inventory} \cup CutOffSaves(inventory)
    /\ Stops
    /\ UNCHANGED <<result, witness>>

\* The services checkNode has a check for, by the roles of the node: Nomad's on
\* its servers, not where only its client role put it.
LookedAt(n) ==
    Members(Cfg.parts[n]) \ (IF n \in Cfg.nomadServers THEN {} ELSE {"nomad"})

\* checkNode, of the services the node's roles in the inventory call for, and
\* that ufw is there.
CheckNode(n, services) == services \subseteq Running(n) /\ hosts[n].packages = "yes"

\* Of a file that was cut off the roles of a node may be missing.
MayLookAt(n) == IF inventory.there = "cut" THEN SUBSET LookedAt(n) ELSE {LookedAt(n)}

\* verify has looked at a node.
Looked(services) ==
    /\ run' = [run EXCEPT !.todo = Tail(@),
                          !.failed = IF CheckNode(Node, services) THEN run.failed
                                     ELSE "yes"]
    /\ witness' = witness \cup {n \in {Node} : LookedAt(n) \subseteq Running(n)}
    /\ UNCHANGED faults

\* Mutant: a node that cannot be reached is skipped.
VerifyNodeLenient ==
    /\ At(Verify)
    /\ \/ \E services \in MayLookAt(Node) : Looked(services)
       \/ Fault /\ Advances /\ UNCHANGED witness
    /\ UNCHANGED <<hosts, inventory, result>>

\* verify goes through all nodes, whatever it finds or cannot find out.
VerifyNode ==
    /\ At(Verify)
    /\ \/ \E services \in MayLookAt(Node) : Looked(services)
       \/ /\ Fault
          /\ run' = [run EXCEPT !.todo = Tail(@), !.failed = "yes"]
          /\ UNCHANGED witness
    /\ UNCHANGED <<hosts, inventory, result>>

\* What the chain of ufw commands leaves when it is cut off: after the reset,
\* the first rules, or all of them.
CutOff(cfg) == {{}, SshRules(cfg), Rules(cfg)}

\* Mutant: the firewall is enabled first and its rules are then added.
ApplyRulesEnabled ==
    /\ At(Firewall)
    /\ hosts[Node].packages = "yes"
    /\ \/ /\ Changes(Node, [hosts[Node] EXCEPT !.ufw = "active",
                                               !.rules = Rules(Cfg)])
          /\ Advances
          /\ UNCHANGED faults
       \/ /\ \E rules \in CutOff(Cfg) :
                Changes(Node, [hosts[Node] EXCEPT !.ufw = "active",
                                                  !.rules = rules])
          /\ Fault
          /\ Stops
    /\ UNCHANGED <<inventory, result, witness>>

\* firewall apply: reset, the defaults, each rule, enable, in one command.  It
\* may be cut off in it, or its answer be lost.
ApplyRules ==
    /\ At(Firewall)
    /\ hosts[Node].packages = "yes"
    /\ \/ /\ Changes(Node, [hosts[Node] EXCEPT !.ufw = "active",
                                               !.rules = Rules(Cfg)])
          /\ Advances
          /\ UNCHANGED faults
       \/ /\ \E rules \in CutOff(Cfg) :
                Changes(Node, [hosts[Node] EXCEPT !.ufw = "inactive",
                                                  !.rules = rules])
          /\ Fault
          /\ Stops
       \/ /\ Changes(Node, [hosts[Node] EXCEPT !.ufw = "active",
                                               !.rules = Rules(Cfg)])
          /\ Fault
          /\ Stops
    /\ UNCHANGED <<inventory, result, witness>>

\* It fails before the reset: no connection, or no ufw.
RulesFail ==
    /\ At(Firewall)
    /\ \/ hosts[Node].packages = "no" /\ UNCHANGED faults
       \/ Fault
    /\ Stops
    /\ UNCHANGED <<hosts, inventory, result, witness>>

\* A service stops by itself.
ServiceStops(n, p) ==
    /\ State(n, p) = "running"
    /\ Sets(n, p, "stopped")
    /\ Fault
    /\ UNCHANGED <<inventory, run, result, witness>>

Next ==
    \/ \E file \in Files, opts \in OptionSets : Start(file, opts) \/ DryRun(file, opts)
    \/ EnterPackages(Base) \/ EnterPackages(Docker) \/ RunPreflight
    \/ EnterInstall \/ EnterVerify \/ Finish
    \/ BootstrapNode \/ InstallPackages \/ PackagesFail
    \/ InstallBase \/ InstallFirewall \/ LeaveOut \/ InstallComponent \/ StepFails
    \/ VerifyNode \/ ApplyRules \/ RulesFail
    \/ \E n \in Nodes, p \in Parts : ServiceStops(n, p)

Spec == Init /\ [][Next]_vars

------------------------------------------------------------------------------
(* Properties.                                                             *)

\* Hosts, inventory and command have their types.
TypeOK ==
    /\ hosts \in [Nodes -> Host]
    /\ inventory \in Inventories
    /\ run \in Runs
    /\ result \in Results
    /\ witness \subseteq Nodes
    /\ faults \in 0 .. MaxFaults

\* Wherever firewall apply is cut off, on a host that had a firewall or none: a
\* firewall that is active holds all rules of a configuration, the SSH rules
\* and the nodes' own traffic among them, never the first few.
ActiveIsWhole ==
    \A n \in Nodes :
        hosts[n].ufw = "active" => \E file \in Files : hosts[n].rules = Rules(ConfigOf[file])

\* No active firewall opens a database, Consul, Nomad, the API or the dashboard
\* to everyone, although firewall apply asks neither config.Validate nor
\* safety.Check ("Required internal/admin services would be exposed publicly",
\* SERVER_ONBOARDING.md).
NothingExposed ==
    \A n \in Nodes :
        hosts[n].ufw = "active" =>
            \A r \in Exposed(hosts[n].rules) : r.purpose \in {"ssh", "http", "https"}

\* A node the inventory calls "ssh-ready" accepts the key, although a bootstrap
\* of several nodes may fail at any of them, is repeated, and meets dry runs
\* and installs that rewrite the inventory in between.
ReadyHasKey == \A n \in inventory.ready : hosts[n].key = "yes"

Onboarded(option) == result.file # NoFile /\ {"components", option} \subseteq result.opts

\* An onboarding that returned without an error, and left an inventory that was
\* written to its end, has had every node of its configuration looked at by
\* verify with all services running that it has a check for: no failure of an
\* earlier stage, no node, and no inventory of an earlier run that names others
\* comes in between.
OnboardedWasVerified ==
    Onboarded("components") /\ inventory.there = "yes" =>
        NodesOf(ConfigOf[result.file]) \subseteq witness

\* An onboarding that returned without an error has put Docker on every node of
\* the configuration, when it copied its key to them: without that the inventory of an earlier run hides the new nodes from
\* the Docker stage.
OnboardedHasDocker ==
    Onboarded("copy") /\ "docker" \in result.opts =>
        \A n \in NodesOf(ConfigOf[result.file]) : hosts[n].docker = "yes"

\* "Force-enable UFW", "Verify UFW is active" (INFRA_COMPONENTS.md:394): an
\* onboarding with its firewall applied leaves it active.
OnboardedHasFirewall ==
    Onboarded("firewall") => \A n \in NodesOf(ConfigOf[result.file]) : hosts[n].ufw = "active"
================================================================================
