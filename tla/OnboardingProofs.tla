--------------------------- MODULE OnboardingProofs ---------------------------
(***************************************************************************)
(* Proofs about Onboarding, for any servers, configurations, options and   *)
(* any number of remote commands that fail.                                *)
(*                                                                         *)
(* The stages tell each other what they know by the inventory alone, so    *)
(* the invariants follow the nodes of the configuration through it: the    *)
(* nodes of the key copying stage to Docker's (DockerGoesRound), and those *)
(* of the install stage to verify's (LooksAtAll).                          *)
(***************************************************************************)
EXTENDS Onboarding, TLAPS

\* A command under way has its configuration and its options; firewall apply
\* goes through no other stage, and the others not through that one.
Called ==
    /\ run.stage # 0 => run.file \in Files /\ run.opts \in OptionSets
    /\ run.stage \in 1 .. 6 => "apply" \notin run.opts
    /\ run.stage = Firewall =>
          "apply" \in run.opts /\ PlanAccepted(Cfg, run.opts)

------------------------------------------------------------------------------
(* Sequences of nodes.                                                     *)

\* Members of a sequence, of its tail, and of one that grew.
LEMMA MembersOfTail ==
    ASSUME NEW S, NEW s \in Seq(S), s # <<>>
    PROVE  /\ Head(s) \in S /\ Tail(s) \in Seq(S)
           /\ Members(s) \subseteq {Head(s)} \cup Members(Tail(s))
<1>1. Head(s) \in S /\ Tail(s) \in Seq(S)
  OBVIOUS
<1>2. ASSUME NEW k \in DOMAIN s
      PROVE  s[k] \in {Head(s)} \cup Members(Tail(s))
  <2>1. k \in 1 .. Len(s) /\ Len(s) \in Nat
    OBVIOUS
  <2>2. CASE k = 1
    BY <2>2
  <2>3. CASE k # 1
    <3>1. k - 1 \in 1 .. Len(Tail(s)) /\ Tail(s)[k - 1] = s[k]
      BY <2>1, <2>3
    <3>2. k - 1 \in DOMAIN Tail(s)
      BY <1>1, <3>1
    <3> QED
      BY <3>1, <3>2 DEF Members
  <2> QED
    BY <2>2, <2>3
<1> QED
  BY <1>1, <1>2 DEF Members

LEMMA MembersOfAppend ==
    ASSUME NEW S, NEW s \in Seq(S), NEW e \in S
    PROVE  /\ Append(s, e) \in Seq(S)
           /\ Members(s) \cup {e} \subseteq Members(Append(s, e))
<1>1. Append(s, e) \in Seq(S) /\ Len(Append(s, e)) = Len(s) + 1 /\ Len(s) \in Nat
  OBVIOUS
<1>2. \A k \in 1 .. Len(s) : Append(s, e)[k] = s[k]
  OBVIOUS
<1>3. Append(s, e)[Len(s) + 1] = e
  OBVIOUS
<1>4. DOMAIN s = 1 .. Len(s) /\ DOMAIN Append(s, e) = 1 .. Len(Append(s, e))
  BY <1>1
<1>5. 1 .. Len(s) \subseteq DOMAIN Append(s, e) /\ Len(s) + 1 \in DOMAIN Append(s, e)
  BY <1>1, <1>4
<1> QED
  BY <1>1, <1>2, <1>3, <1>4, <1>5 DEF Members

LEMMA MembersOfNone == Members(<<>>) = {}
BY DEF Members

\* What a configuration is made of.
LEMMA ConfigFacts ==
    ASSUME NEW file \in Files
    PROVE  /\ ConfigOf[file].nodes \in Seq(Nodes)
           /\ ConfigOf[file].parts \in [Nodes -> Seq(Parts)]
BY OnboardingAssumption DEF ConfigType

LEMMA StepsAreSteps ==
    ASSUME run.file \in Files, NEW n \in Nodes
    PROVE  StepsOf(n) \in Seq(Steps)
<1>1. Cfg.parts[n] \in Seq(Steps)
  <2>1. Cfg.parts[n] \in Seq(Parts)
    BY ConfigFacts DEF Cfg
  <2> QED
    BY <2>1 DEF Steps
<1>2. <<"base">> \in Seq(Steps) /\ <<"firewall">> \in Seq(Steps) /\ <<>> \in Seq(Steps)
  BY DEF Steps
<1> DEFINE wall == IF NoFirewall THEN <<>> ELSE <<"firewall">>
<1>3. wall \in Seq(Steps)
  BY <1>2
<1> HIDE DEF wall
<1>4. <<"base">> \o wall \o Cfg.parts[n] \in Seq(Steps)
  BY <1>1, <1>2, <1>3
<1> QED
  BY <1>4 DEF StepsOf, wall

\* The run after a step that goes on in a stage or ends.
LEMMA IdleIsRun == Idle \in Runs /\ Idle.stage = 0 /\ Idle.todo = <<>>
BY DEF Idle, Runs

LEMMA GoesRun ==
    ASSUME run \in Runs, NEW s \in Stages, NEW todo \in Seq(Nodes),
           NEW left \in Seq(Steps), Goes(s, todo, left)
    PROVE  /\ run' \in Runs
           /\ run'.stage = s /\ run'.todo = todo
           /\ run'.file = run.file /\ run'.opts = run.opts /\ run'.failed = run.failed
<1>1. s \in 0 .. 7
  BY DEF Stages
<1>2. run' \in Runs
  BY <1>1 DEF Goes, Runs
<1> QED
  BY <1>2 DEF Goes, Runs

\* A stage that goes on: same command, and the nodes it had still to turn to or
\* all but the first of them.
SameStage ==
    /\ run' \in Runs
    /\ run'.stage = run.stage /\ run'.file = run.file /\ run'.opts = run.opts
    /\ run'.todo \in {run.todo, Tail(run.todo)}

LEMMA AdvancesRun ==
    ASSUME run \in Runs, run.todo # <<>>, Advances
    PROVE  SameStage /\ run'.todo = Tail(run.todo)
<1>1. Tail(run.todo) \in Seq(Nodes)
  BY MembersOfTail DEF Runs
<1>2. run' \in Runs
  BY <1>1 DEF Advances, Runs
<1> QED
  BY <1>2 DEF Advances, Runs, SameStage

LEMMA StepDoneRun ==
    ASSUME run \in Runs, run.file \in Files, run.todo # <<>>, StepDone
    PROVE  SameStage
<1>1. Tail(run.todo) \in Seq(Nodes)
  BY MembersOfTail DEF Runs
<1>2. CASE Len(run.left) > 1
  <2>0. Tail(run.left) \in Seq(Steps)
    BY <1>2 DEF Runs
  <2>1. run' = [run EXCEPT !.left = Tail(run.left)]
    BY <1>2 DEF StepDone
  <2>2. run' \in Runs
    BY <2>0, <2>1 DEF Runs
  <2> QED
    BY <2>1, <2>2 DEF Runs, SameStage
<1>3. CASE ~(Len(run.left) > 1)
  <2> DEFINE left == IF Len(run.todo) > 1 THEN StepsOf(run.todo[2]) ELSE <<>>
  <2>1. left \in Seq(Steps)
    <3>1. CASE Len(run.todo) > 1
      <4>1. run.todo[2] \in Nodes
        BY <3>1 DEF Runs
      <4> QED
        BY <3>1, <4>1, StepsAreSteps
    <3> QED
      BY <3>1
  <2> HIDE DEF left
  <2>2. run' = [run EXCEPT !.todo = Tail(run.todo), !.left = left]
    BY <1>3 DEF StepDone, left
  <2>3. run' \in Runs
    BY <1>1, <2>1, <2>2 DEF Runs
  <2> QED
    BY <2>2, <2>3 DEF Runs, SameStage
<1> QED
  BY <1>2, <1>3

\* A host that only gains: its key, its Docker and its firewall stay.
HostsGrow ==
    /\ hosts' \in [Nodes -> Host]
    /\ \A n \in Nodes :
          /\ hosts[n].key = "yes" => hosts'[n].key = "yes"
          /\ hosts[n].docker = "yes" => hosts'[n].docker = "yes"
          /\ hosts'[n].ufw = hosts[n].ufw /\ hosts'[n].rules = hosts[n].rules

LEMMA GetsKey ==
    ASSUME hosts \in [Nodes -> Host], NEW n \in Nodes,
           Changes(n, [hosts[n] EXCEPT !.key = "yes"])
    PROVE  HostsGrow /\ hosts'[n].key = "yes"
<1>1. hosts' \in [Nodes -> Host]
  BY DEF Changes, Host
<1> QED
  BY <1>1 DEF Changes, Host, HostsGrow

LEMMA GetsPackages ==
    ASSUME hosts \in [Nodes -> Host], NEW n \in Nodes,
           Changes(n, [hosts[n] EXCEPT !.packages = "yes"])
    PROVE  HostsGrow
<1>1. hosts' \in [Nodes -> Host]
  BY DEF Changes, Host
<1> QED
  BY <1>1 DEF Changes, Host, HostsGrow

LEMMA GetsDocker ==
    ASSUME hosts \in [Nodes -> Host], NEW n \in Nodes,
           Changes(n, [hosts[n] EXCEPT !.docker = "yes"])
    PROVE  HostsGrow /\ hosts'[n].docker = "yes"
<1>1. hosts' \in [Nodes -> Host]
  BY DEF Changes, Host
<1> QED
  BY <1>1 DEF Changes, Host, HostsGrow

LEMMA SetsService ==
    ASSUME hosts \in [Nodes -> Host], NEW n \in Nodes, NEW p \in Parts,
           NEW s \in {"stopped", "running"}, Sets(n, p, s)
    PROVE  HostsGrow
<1> DEFINE services == [hosts[n].services EXCEPT ![p] = s]
           host == [hosts[n] EXCEPT !.services = services]
<1>1. hosts' = [hosts EXCEPT ![n] = host]
  BY DEF Changes, Sets
<1>2. services \in [Parts -> {"absent", "stopped", "running"}]
  BY DEF Host
<1> HIDE DEF services
<1>3. /\ host \in Host
      /\ host.key = hosts[n].key /\ host.docker = hosts[n].docker
      /\ host.ufw = hosts[n].ufw /\ host.rules = hosts[n].rules
  BY <1>2 DEF Host
<1> HIDE DEF host
<1> QED
  BY <1>1, <1>3 DEF HostsGrow

\* A host whose firewall is set.
LEMMA SetsFirewall ==
    ASSUME hosts \in [Nodes -> Host], NEW n \in Nodes, NEW u \in {"inactive", "active"},
           NEW rules \in SUBSET AllRules,
           Changes(n, [hosts[n] EXCEPT !.ufw = u, !.rules = rules])
    PROVE  /\ hosts' \in [Nodes -> Host]
           /\ hosts'[n].ufw = u /\ hosts'[n].rules = rules
           /\ \A m \in Nodes : hosts'[m].key = hosts[m].key
                               /\ hosts'[m].docker = hosts[m].docker
           /\ \A m \in Nodes : m # n => hosts'[m] = hosts[m]
<1> DEFINE host == [hosts[n] EXCEPT !.ufw = u, !.rules = rules]
<1>1. hosts' = [hosts EXCEPT ![n] = host]
  BY DEF Changes
<1>2. hosts[n] \in Host
  OBVIOUS
<1>3. host.ufw = u /\ host.rules = rules
      /\ host.key = hosts[n].key /\ host.docker = hosts[n].docker
  BY <1>2 DEF Host
<1>4. host \in Host
  <2>1. CASE u = "inactive"
    BY <1>2, <2>1 DEF Host
  <2>2. CASE u = "active"
    BY <1>2, <2>2 DEF Host
  <2> QED
    BY <2>1, <2>2
<1> HIDE DEF host
<1> QED
  BY <1>1, <1>3, <1>4

\* The rules of a configuration are rules.
LEMMA RulesTyped ==
    ASSUME NEW file \in Files
    PROVE  CutOff(ConfigOf[file]) \cup {Rules(ConfigOf[file])} \subseteq SUBSET AllRules
<1> DEFINE cfg == ConfigOf[file]
<1>1. cfg.ssh \subseteq Cidrs /\ cfg.admin \subseteq Cidrs
  BY OnboardingAssumption DEF ConfigType
<1>2. PrivateSource(cfg) \in {"the node", "10.0.0.0/8"}
  BY DEF PrivateSource
<1>3. \A p \in Purposes, c \in Cidrs \cup Public \cup {"the node", "10.0.0.0/8"} :
         Rule(p, c) \in AllRules
  BY DEF Rule, AllRules
<1>4. SshRules(cfg) \subseteq AllRules
  BY <1>1, <1>3 DEF SshRules, Purposes
<1>5. {Rule(p, "0.0.0.0/0") : p \in {"http", "https"}} \subseteq AllRules
  BY <1>3 DEF Public, Purposes
<1>6. {Rule(p, c) : p \in AdminServices, c \in cfg.admin} \subseteq AllRules
  <2>1. \A p \in AdminServices, c \in cfg.admin : Rule(p, c) \in AllRules
    BY <1>1, <1>3 DEF Purposes
  <2> QED
    BY <2>1
<1>7. {Rule(p, PrivateSource(cfg)) : p \in PrivateServices} \subseteq AllRules
  BY <1>2, <1>3 DEF Purposes
<1>8. {Rule("dashboard", c) : c \in IF cfg.dashboard = "off" THEN {} ELSE cfg.admin}
         \subseteq AllRules
  BY <1>1, <1>3 DEF Purposes
<1>9. Rules(cfg) \subseteq AllRules
  BY <1>4, <1>5, <1>6, <1>7, <1>8 DEF Rules
<1> QED
  BY <1>4, <1>9 DEF CutOff

------------------------------------------------------------------------------
(* The steps.                                                              *)

\* The remote commands of the stages.
InStage ==
    \/ BootstrapNode \/ InstallPackages \/ PackagesFail
    \/ InstallBase \/ InstallFirewall \/ LeaveOut \/ InstallComponent \/ StepFails
    \/ VerifyNode \/ ApplyRules \/ RulesFail

\* From stage to stage.
Entering ==
    \/ EnterPackages(Base) \/ EnterPackages(Docker) \/ RunPreflight
    \/ EnterInstall \/ EnterVerify

LEMMA NodeIsNode ==
    ASSUME run \in Runs, NEW s, At(s)
    PROVE  Node \in Nodes /\ run.todo # <<>> /\ run.todo \in Seq(Nodes)
BY MembersOfTail DEF Runs, At, Node

LEMMA VerifyRun ==
    ASSUME run \in Runs, VerifyNode
    PROVE  /\ SameStage /\ run'.todo = Tail(run.todo)
           /\ run'.failed = "no" =>
                 /\ run.failed = "no"
                 /\ \E services \in MayLookAt(Node) : CheckNode(Node, services)
                 /\ witness' = witness \cup {n \in {Node} : LookedAt(n) \subseteq Running(n)}
<1> DEFINE Passed == /\ run.failed = "no"
                     /\ \E services \in MayLookAt(Node) : CheckNode(Node, services)
                     /\ witness' = witness \cup
                                      {n \in {Node} : LookedAt(n) \subseteq Running(n)}
<1>1. Tail(run.todo) \in Seq(Nodes) /\ run.failed \in {"no", "yes"}
  BY MembersOfTail DEF Runs, VerifyNode, At
<1>2. PICK failed \in {"no", "yes"} :
         /\ run' = [run EXCEPT !.todo = Tail(run.todo), !.failed = failed]
         /\ failed = "no" => Passed
  <2>1. CASE run' = [run EXCEPT !.todo = Tail(run.todo), !.failed = "yes"]
    BY <2>1
  <2>2. ASSUME NEW services \in MayLookAt(Node), Looked(services)
        PROVE  \E failed \in {"no", "yes"} :
                 /\ run' = [run EXCEPT !.todo = Tail(run.todo), !.failed = failed]
                 /\ failed = "no" => Passed
    <3>1. witness' = witness \cup {n \in {Node} : LookedAt(n) \subseteq Running(n)}
      BY <2>2 DEF Looked
    <3>2. CASE CheckNode(Node, services)
      <4>1. run' = [run EXCEPT !.todo = Tail(run.todo), !.failed = run.failed]
        BY <2>2, <3>2 DEF Looked
      <4>2. run.failed = "no" => Passed
        BY <2>2, <3>1, <3>2
      <4> QED
        BY <1>1, <4>1, <4>2
    <3>3. CASE ~CheckNode(Node, services)
      <4>1. run' = [run EXCEPT !.todo = Tail(run.todo), !.failed = "yes"]
        BY <2>2, <3>3 DEF Looked
      <4> QED
        BY <4>1
    <3> QED
      BY <3>2, <3>3
  <2>3. \/ \E services \in MayLookAt(Node) : Looked(services)
        \/ run' = [run EXCEPT !.todo = Tail(run.todo), !.failed = "yes"]
    BY DEF VerifyNode
  <2> QED
    BY <2>1, <2>2, <2>3
<1> HIDE DEF Passed
<1>3. run' \in Runs
  BY <1>1, <1>2 DEF Runs
<1>4. SameStage /\ run'.todo = Tail(run.todo) /\ run'.failed = failed
  BY <1>1, <1>2, <1>3 DEF Runs, SameStage
<1> QED
  BY <1>2, <1>4 DEF Passed

\* A remote command goes on in its stage, or ends the command.
LEMMA InStageRun ==
    ASSUME run \in Runs, run.stage # 0 => run.file \in Files, InStage
    PROVE  run.stage # 0 /\ run.todo # <<>> /\ (SameStage \/ run' = Idle)
<1>1. run.stage # 0 /\ run.todo # <<>>
  <2>1. At(Bootstrap) \/ At(Base) \/ At(Docker) \/ At(Install) \/ At(Verify) \/ At(Firewall)
    BY Zenon DEF InStage, BootstrapNode, InstallPackages, PackagesFail, InstallBase,
       InstallFirewall, LeaveOut, InstallComponent, StepFails, VerifyNode, ApplyRules, RulesFail
  <2>2. run.todo # <<>>
    BY <2>1, Zenon DEF At
  <2>3. run.stage \in {1, 2, 4, 5, 6, 7}
    BY <2>1 DEF At, Bootstrap, Base, Docker, Install, Verify, Firewall
  <2> QED
    BY <2>2, <2>3
<1>2. CASE VerifyNode
  BY <1>1, <1>2, VerifyRun
<1>3. CASE InStage /\ ~VerifyNode
  <2>1. Advances \/ Stops \/ StepDone
    BY <1>3 DEF InStage, BootstrapNode, InstallPackages, PackagesFail, InstallBase,
         InstallFirewall, LeaveOut, InstallComponent, StepFails, ApplyRules, RulesFail
  <2> QED
    BY <1>1, <2>1, AdvancesRun, StepDoneRun DEF Stops
<1> QED
  BY <1>2, <1>3

\* An inventory of nodes stays one, and takes in the node bootstrapped.
LEMMA UpsertedIsInventory ==
    ASSUME inventory \in Inventories, NEW n \in Nodes
    PROVE  /\ Upserted(n) \in Inventories
           /\ Members(inventory.nodes) \cup {n} \subseteq Members(Upserted(n).nodes)
           /\ Upserted(n).ready = inventory.ready \cup {n}
<1>1. inventory.nodes \in Seq(Nodes) /\ inventory.ready \subseteq Nodes
  BY DEF Inventories
<1>2. CASE n \in Members(inventory.nodes)
  <2>1. Upserted(n) = [there |-> "yes", nodes |-> inventory.nodes,
                       ready |-> inventory.ready \cup {n}]
    BY <1>2 DEF Upserted
  <2> QED
    BY <1>1, <1>2, <2>1 DEF Inventories
<1>3. CASE n \notin Members(inventory.nodes)
  <2> DEFINE nodes == Append(inventory.nodes, n)
  <2>1. nodes \in Seq(Nodes) /\ Members(inventory.nodes) \cup {n} \subseteq Members(nodes)
    BY <1>1, MembersOfAppend
  <2>2. Upserted(n) = [there |-> "yes", nodes |-> nodes, ready |-> inventory.ready \cup {n}]
    BY <1>3 DEF Upserted
  <2> HIDE DEF nodes
  <2> QED
    BY <1>1, <2>1, <2>2 DEF Inventories
<1> QED
  BY <1>2, <1>3

LEMMA InitialIsInventory ==
    ASSUME NEW file \in Files
    PROVE  InitialInventory(ConfigOf[file]) \in Inventories
BY ConfigFacts DEF InitialInventory, Inventories

\* What a save that was cut off leaves is an inventory that names no node more
\* and calls none more ready, and that is not whole.
LEMMA CutOffIsInventory ==
    ASSUME NEW inv \in Inventories, NEW cut \in CutOffSaves(inv)
    PROVE  cut \in Inventories /\ cut.there # "yes" /\ cut.ready \subseteq inv.ready
<1>1. CASE cut = NoInventory
  <2>1. NoInventory.nodes = <<>> /\ NoInventory.ready = {} /\ NoInventory.there = "no"
    BY DEF NoInventory
  <2>2. NoInventory \in Inventories
    BY DEF NoInventory, Inventories
  <2> QED
    BY <1>1, <2>1, <2>2
<1>2. ASSUME NEW k \in 0 .. Len(inv.nodes),
             cut = [there |-> "cut", nodes |-> SubSeq(inv.nodes, 1, k),
                    ready |-> inv.ready \cap Members(SubSeq(inv.nodes, 1, k))]
      PROVE  cut \in Inventories /\ cut.there # "yes" /\ cut.ready \subseteq inv.ready
  <2>1. inv.nodes \in Seq(Nodes) /\ inv.ready \subseteq Nodes
    BY DEF Inventories
  <2> DEFINE nodes == SubSeq(inv.nodes, 1, k)
             ready == inv.ready \cap Members(nodes)
  <2>2. nodes \in Seq(Nodes)
    BY <2>1
  <2>3. ready \subseteq inv.ready /\ ready \subseteq Nodes
    BY <2>1
  <2>4. cut = [there |-> "cut", nodes |-> nodes, ready |-> ready]
    BY <1>2
  <2> HIDE DEF nodes, ready
  <2> QED
    BY <2>2, <2>3, <2>4 DEF Inventories
<1> QED
  BY <1>1, <1>2 DEF CutOffSaves

\* What a step of the command line does to the run: it ends, goes on, is called
\* or enters a stage.
LEMMA EnteringRun ==
    ASSUME TypeOK, Called, Entering
    PROVE  /\ run.stage \in 1 .. 5 /\ run.todo = <<>>
           /\ \/ run' = Idle
              \/ \E s \in 2 .. 6 :
                    /\ Enters(s) /\ run' \in Runs
                    /\ run'.stage = s /\ run'.file = run.file /\ run'.opts = run.opts
                    /\ run'.failed = run.failed
                    /\ run'.todo = CASE s \in {Base, Docker} -> Targets
                                     [] s = Preflight -> <<>>
                                     [] s = Install -> Cfg.nodes
                                     [] s = Verify -> inventory'.nodes
<1>1. run.stage \in 1 .. 5 /\ run.todo = <<>>
  BY DEF Entering, EnterPackages, RunPreflight, EnterInstall, EnterVerify, Enters
<1>2. run \in Runs /\ run.file \in Files /\ Cfg.nodes \in Seq(Nodes)
      /\ inventory.nodes \in Seq(Nodes) /\ inventory \in Inventories
  BY <1>1, ConfigFacts DEF TypeOK, Called, Cfg, Inventories
<1>3. <<>> \in Seq(Nodes) /\ <<>> \in Seq(Steps)
  OBVIOUS
<1>9. EnterVerify => inventory' \in {inventory} \cup CutOffSaves(inventory)
  BY DEF EnterVerify, SaveCutOff
<1>4. ASSUME NEW s \in {Base, Docker}, EnterPackages(s)
      PROVE  /\ Enters(s) /\ run' \in Runs
             /\ run'.stage = s /\ run'.file = run.file /\ run'.opts = run.opts
             /\ run'.failed = run.failed /\ run'.todo = Targets
  <2>1. Targets \in Seq(Nodes) /\ s \in Stages
    BY <1>2 DEF Targets, Stages, Base, Docker
  <2> QED
    BY <1>2, <1>3, <1>4, <2>1, GoesRun DEF EnterPackages
<1>5. CASE RunPreflight
  <2>1. Preflight \in Stages
    BY DEF Stages, Preflight
  <2>2. CASE Stops
    BY <1>1, <2>2 DEF Stops
  <2>3. CASE Goes(Preflight, <<>>, <<>>)
    <3>1. Enters(Preflight) /\ run' \in Runs
          /\ run'.stage = Preflight /\ run'.file = run.file /\ run'.opts = run.opts
          /\ run'.failed = run.failed /\ run'.todo = <<>>
      BY <1>2, <1>3, <1>5, <2>1, <2>3, GoesRun DEF RunPreflight
    <3> QED
      BY <1>1, <3>1 DEF Base, Preflight, Docker, Install, Verify
  <2> QED
    BY <1>5, <2>2, <2>3 DEF RunPreflight
<1>6. CASE EnterInstall
  <2>1. CASE Stops
    BY <1>1, <2>1 DEF Stops
  <2>2. CASE IsValid(Cfg) /\ Goes(Install, Cfg.nodes, StepsOf(Head(Cfg.nodes)))
    <3>1. Install \in Stages
      BY DEF Stages, Install
    <3>2. Head(Cfg.nodes) \in Nodes
      BY <1>2, <2>2 DEF IsValid
    <3>3. StepsOf(Head(Cfg.nodes)) \in Seq(Steps)
      BY <1>2, <3>2, StepsAreSteps
    <3>4. Enters(Install) /\ run' \in Runs
          /\ run'.stage = Install /\ run'.file = run.file /\ run'.opts = run.opts
          /\ run'.failed = run.failed /\ run'.todo = Cfg.nodes
      BY <1>2, <1>6, <2>2, <3>1, <3>3, GoesRun DEF EnterInstall
    <3> QED
      BY <1>1, <3>4 DEF Base, Preflight, Docker, Install, Verify
  <2> QED
    BY <1>6, <2>1, <2>2 DEF EnterInstall
<1>7. CASE EnterVerify
  <2>1. Verify \in Stages
    BY DEF Stages, Verify
  <2>2. Enters(Verify) /\ run' \in Runs
        /\ run'.stage = Verify /\ run'.file = run.file /\ run'.opts = run.opts
        /\ run'.failed = run.failed /\ run'.todo = inventory'.nodes
    <3>1. inventory' \in Inventories
      BY <1>2, <1>7, <1>9, CutOffIsInventory
    <3>2. inventory'.nodes \in Seq(Nodes)
      BY <3>1 DEF Inventories
    <3>3. Enters(Verify) /\ Goes(Verify, inventory'.nodes, <<>>)
      BY <1>7 DEF EnterVerify
    <3> QED
      BY <1>2, <1>3, <2>1, <3>2, <3>3, GoesRun
  <2> QED
    BY <1>1, <2>2 DEF Base, Preflight, Docker, Install, Verify
<1>8. CASE EnterPackages(Base) \/ EnterPackages(Docker)
  BY <1>1, <1>4, <1>8 DEF Base, Preflight, Docker, Install, Verify
<1> QED
  BY <1>5, <1>6, <1>7, <1>8 DEF Entering

\* What the steps leave of a host: its key and its Docker stay, and a firewall
\* is active with the rules it had, or with those just applied.
HostsKept ==
    /\ hosts' \in [Nodes -> Host]
    /\ \A n \in Nodes :
          /\ hosts[n].key = "yes" => hosts'[n].key = "yes"
          /\ hosts[n].docker = "yes" => hosts'[n].docker = "yes"
          /\ hosts'[n].ufw = "active" =>
                \/ hosts[n].ufw = "active" /\ hosts'[n].rules = hosts[n].rules
                \/ run.stage = Firewall /\ hosts'[n].rules = Rules(Cfg)

LEMMA GrownIsKept == HostsGrow => HostsKept
BY DEF HostsGrow, HostsKept

LEMMA SameHosts ==
    ASSUME hosts \in [Nodes -> Host], UNCHANGED hosts
    PROVE  HostsGrow
BY DEF HostsGrow

\* firewall apply, done or cut off.
LEMMA ApplyKeepsHosts ==
    ASSUME TypeOK, Called, ApplyRules
    PROVE  HostsKept
<1>1. Node \in Nodes /\ run.stage = Firewall /\ run.file \in Files
  <2>1. At(Firewall) /\ run \in Runs
    BY DEF ApplyRules, TypeOK
  <2>2. run.stage = Firewall /\ Firewall # 0
    BY <2>1 DEF At, Firewall
  <2> QED
    BY <2>1, <2>2, NodeIsNode DEF Called
<1>2. hosts \in [Nodes -> Host]
  BY DEF TypeOK
<1>3. CutOff(Cfg) \cup {Rules(Cfg)} \subseteq SUBSET AllRules
  BY <1>1, RulesTyped DEF Cfg
<1>4. PICK u \in {"inactive", "active"}, rules \in SUBSET AllRules :
         /\ Changes(Node, [hosts[Node] EXCEPT !.ufw = u, !.rules = rules])
         /\ u = "active" => rules = Rules(Cfg)
  <2>1. CASE Changes(Node, [hosts[Node] EXCEPT !.ufw = "active", !.rules = Rules(Cfg)])
    BY <1>3, <2>1
  <2>2. CASE \E rules \in CutOff(Cfg) :
               Changes(Node, [hosts[Node] EXCEPT !.ufw = "inactive", !.rules = rules])
    <3>1. PICK rules \in CutOff(Cfg) :
            Changes(Node, [hosts[Node] EXCEPT !.ufw = "inactive", !.rules = rules])
      BY <2>2
    <3>2. rules \in SUBSET AllRules /\ "inactive" # "active"
      BY <1>3
    <3> QED
      BY <3>1, <3>2
  <2> QED
    BY <2>1, <2>2 DEF ApplyRules
<1>5. /\ hosts' \in [Nodes -> Host]
      /\ hosts'[Node].ufw = u /\ hosts'[Node].rules = rules
      /\ \A m \in Nodes : hosts'[m].key = hosts[m].key
                          /\ hosts'[m].docker = hosts[m].docker
      /\ \A m \in Nodes : m # Node => hosts'[m] = hosts[m]
  BY <1>1, <1>2, <1>4, SetsFirewall
<1> QED
  BY <1>1, <1>4, <1>5 DEF HostsKept

LEMMA InStageHosts ==
    ASSUME TypeOK, Called, InStage
    PROVE  HostsKept
<1>1. hosts \in [Nodes -> Host] /\ run \in Runs
  BY DEF TypeOK
<1>2. CASE BootstrapNode
  <2>1. Node \in Nodes
    BY <1>1, <1>2, NodeIsNode DEF BootstrapNode
  <2>2. UNCHANGED hosts \/ Changes(Node, [hosts[Node] EXCEPT !.key = "yes"])
    BY <1>2 DEF BootstrapNode
  <2> QED
    BY <1>1, <2>1, <2>2, GetsKey, SameHosts, GrownIsKept
<1>3. CASE InstallPackages
  <2>1. Node \in Nodes
    BY <1>1, <1>3, NodeIsNode DEF InstallPackages
  <2>2. \/ Changes(Node, [hosts[Node] EXCEPT !.packages = "yes"])
        \/ Changes(Node, [hosts[Node] EXCEPT !.docker = "yes"])
    BY <1>3 DEF InstallPackages
  <2> QED
    BY <1>1, <2>1, <2>2, GetsPackages, GetsDocker, GrownIsKept
<1>4. CASE InstallBase
  <2>1. Node \in Nodes
    BY <1>1, <1>4, NodeIsNode DEF InstallBase
  <2>2. Changes(Node, [hosts[Node] EXCEPT !.packages = "yes"])
    BY <1>4 DEF InstallBase
  <2> QED
    BY <1>1, <2>1, <2>2, GetsPackages, GrownIsKept
<1>5. CASE InstallComponent \/ StepFails
  <2>1. Node \in Nodes
    BY <1>1, <1>5, NodeIsNode DEF InstallComponent, StepFails
  <2>2. \/ UNCHANGED hosts
        \/ Step \in Parts /\ Sets(Node, Step, "running")
        \/ Step \in Parts /\ Sets(Node, Step, "stopped")
    BY <1>5, Zenon DEF InstallComponent, StepFails
  <2>3. "running" \in {"stopped", "running"} /\ "stopped" \in {"stopped", "running"}
    OBVIOUS
  <2> QED
    BY <1>1, <2>1, <2>2, <2>3, SetsService, SameHosts, GrownIsKept, Zenon
<1>6. CASE PackagesFail \/ InstallFirewall \/ LeaveOut \/ VerifyNode \/ RulesFail
  <2>1. UNCHANGED hosts
    BY <1>6, Zenon DEF PackagesFail, InstallFirewall, LeaveOut, VerifyNode, RulesFail
  <2> QED
    BY <1>1, <2>1, SameHosts, GrownIsKept
<1> QED
  BY <1>2, <1>3, <1>4, <1>5, <1>6, ApplyKeepsHosts DEF InStage

LEMMA StopsKeepsHosts ==
    ASSUME hosts \in [Nodes -> Host], NEW n \in Nodes, NEW p \in Parts, ServiceStops(n, p)
    PROVE  HostsGrow
<1>1. Sets(n, p, "stopped") /\ "stopped" \in {"stopped", "running"}
  BY DEF ServiceStops
<1> QED
  BY <1>1, SetsService

\* The inventory, the reports and the witness in a stage: the first stage
\* enters a node that just got its key, the sixth looks at one.
LEMMA InStageRest ==
    ASSUME TypeOK, InStage
    PROVE  /\ \/ UNCHANGED inventory /\ ~(run.stage = Bootstrap /\ run'.stage # 0)
              \/ /\ run.stage = Bootstrap /\ Node \in Nodes
                 /\ inventory' = Upserted(Node)
                 /\ SameStage /\ run'.todo = Tail(run.todo)
                 /\ hosts'[Node].key = "yes"
              \/ /\ run.stage = Bootstrap /\ run' = Idle
                 /\ inventory' \in CutOffSaves(Upserted(Node))
                 /\ hosts'[Node].key = "yes"
              \/ /\ run.stage = Install /\ run' = Idle
                 /\ inventory' \in CutOffSaves(inventory)
           /\ UNCHANGED result
           /\ witness' \in {witness, witness \cup {Node}} /\ Node \in Nodes
           /\ faults' \in 0 .. MaxFaults
<1>1. hosts \in [Nodes -> Host] /\ run \in Runs /\ faults \in 0 .. MaxFaults
      /\ MaxFaults \in Nat
  BY OnboardingAssumption DEF TypeOK
<1>2. UNCHANGED result
  BY Zenon DEF InStage, BootstrapNode, InstallPackages, PackagesFail, InstallBase,
       InstallFirewall, LeaveOut, InstallComponent, StepFails, VerifyNode, ApplyRules, RulesFail
<1>3. faults' = faults \/ Fault
  BY Zenon DEF SaveCutOff, Looked, InStage, BootstrapNode, InstallPackages, PackagesFail, InstallBase,
       InstallFirewall, LeaveOut, InstallComponent, StepFails, VerifyNode, ApplyRules, RulesFail
<1>4. faults' \in 0 .. MaxFaults
  BY <1>1, <1>3 DEF Fault
<1>5. At(Bootstrap) \/ At(Base) \/ At(Docker) \/ At(Install) \/ At(Verify) \/ At(Firewall)
  BY Zenon DEF InStage, BootstrapNode, InstallPackages, PackagesFail, InstallBase,
     InstallFirewall, LeaveOut, InstallComponent, StepFails, VerifyNode, ApplyRules, RulesFail
<1>6. Node \in Nodes
  BY <1>1, <1>5, NodeIsNode, Zenon
<1>7. witness' = witness \/ witness' = witness \cup {Node}
  <2>1. CASE VerifyNode
    BY <2>1 DEF VerifyNode, Looked
  <2>2. CASE ~VerifyNode
    BY <2>2, Zenon DEF InStage, BootstrapNode, InstallPackages, PackagesFail, InstallBase,
       InstallFirewall, LeaveOut, InstallComponent, StepFails, ApplyRules, RulesFail
  <2> QED
    BY <2>1, <2>2
<1>8. CASE BootstrapNode
  <2>1. run.stage = Bootstrap /\ run.todo # <<>>
    BY <1>8 DEF BootstrapNode, At
  <2>2. CASE /\ Changes(Node, [hosts[Node] EXCEPT !.key = "yes"])
             /\ inventory' = Upserted(Node) /\ Advances
    <3>1. hosts'[Node].key = "yes"
      BY <1>1, <1>6, <2>2, GetsKey
    <3>2. SameStage /\ run'.todo = Tail(run.todo)
      BY <1>1, <2>1, <2>2, AdvancesRun
    <3> QED
      BY <1>2, <1>4, <1>6, <1>7, <2>1, <2>2, <3>1, <3>2
  <2>3. CASE Stops /\ UNCHANGED inventory
    BY <1>2, <1>4, <1>6, <1>7, <2>3, IdleIsRun DEF Stops
  <2>4. CASE /\ Changes(Node, [hosts[Node] EXCEPT !.key = "yes"])
             /\ SaveCutOff(Upserted(Node)) /\ Stops
    <3>1. hosts'[Node].key = "yes"
      BY <1>1, <1>6, <2>4, GetsKey
    <3> QED
      BY <1>2, <1>4, <1>6, <1>7, <2>1, <2>4, <3>1 DEF SaveCutOff, Stops
  <2> QED
    BY <1>8, <2>2, <2>3, <2>4 DEF BootstrapNode
<1>10. CASE StepFails
  <2>1. run.stage = Install /\ run' = Idle
        /\ inventory' \in {inventory} \cup CutOffSaves(inventory)
    BY <1>10 DEF StepFails, At, Stops
  <2>2. run.stage # Bootstrap
    BY <2>1 DEF Install, Bootstrap
  <2> QED
    BY <1>2, <1>4, <1>6, <1>7, <2>1, <2>2
<1>9. CASE InStage /\ ~BootstrapNode /\ ~StepFails
  <2>1. UNCHANGED inventory
    BY <1>9, Zenon DEF InStage, InstallPackages, PackagesFail, InstallBase,
       InstallFirewall, LeaveOut, InstallComponent, VerifyNode, ApplyRules, RulesFail
  <2>2. At(Base) \/ At(Docker) \/ At(Install) \/ At(Verify) \/ At(Firewall)
    BY <1>9, Zenon DEF InStage, InstallPackages, PackagesFail, InstallBase,
       InstallFirewall, LeaveOut, InstallComponent, VerifyNode, ApplyRules, RulesFail
  <2>3. run.stage # Bootstrap
    BY <2>2 DEF At, Bootstrap, Base, Docker, Install, Verify, Firewall
  <2> QED
    BY <1>2, <1>4, <1>6, <1>7, <2>1, <2>3
<1> QED
  BY <1>8, <1>9, <1>10

\* A command that is called, with the nodes of its first stage.
LEMMA StartRun ==
    ASSUME TypeOK, NEW file \in Files, NEW opts \in OptionSets, Start(file, opts)
    PROVE  /\ run' \in Runs /\ run'.file = file /\ run'.opts = opts
           /\ run'.stage = (IF "apply" \in opts THEN Firewall ELSE Bootstrap)
           /\ "apply" \notin opts /\ "copy" \in opts => run'.todo = ConfigOf[file].nodes
           /\ "apply" \in opts => PlanAccepted(ConfigOf[file], opts)
           /\ UNCHANGED <<hosts, inventory, faults>>
           /\ result' = NoResult /\ witness' = {}
<1> DEFINE stage == IF "apply" \in opts THEN Firewall ELSE Bootstrap
           todo == IF {"copy", "apply"} \cap opts # {} THEN ConfigOf[file].nodes ELSE <<>>
<1>1. run \in Runs /\ opts \in SUBSET Options /\ file \in Files \cup {NoFile}
  BY OptionsAssumption DEF TypeOK
<1>2. stage \in 0 .. 7
  BY DEF Firewall, Bootstrap
<1>3. todo \in Seq(Nodes)
  BY ConfigFacts
<1>4. "copy" \in opts => todo = ConfigOf[file].nodes
  OBVIOUS
<1>5. run' = [run EXCEPT !.stage = stage, !.file = file, !.opts = opts, !.todo = todo]
  BY DEF Start
<1>6. stage = IF "apply" \in opts THEN Firewall ELSE Bootstrap
  OBVIOUS
<1> HIDE DEF stage, todo
<1>7. run' \in Runs
  BY <1>1, <1>2, <1>3, <1>5, Zenon DEF Runs
<1>8. run'.stage = stage /\ run'.file = file /\ run'.opts = opts /\ run'.todo = todo
  BY <1>1, <1>5, Zenon DEF Runs
<1> QED
  BY <1>4, <1>6, <1>7, <1>8 DEF Start

\* Which step the next one is.
LEMMA NextIs ==
    ASSUME Next
    PROVE  \/ \E file \in Files, opts \in OptionSets : Start(file, opts)
           \/ \E file \in Files, opts \in OptionSets : DryRun(file, opts)
           \/ Entering \/ Finish \/ InStage
           \/ \E n \in Nodes, p \in Parts : ServiceStops(n, p)
BY Zenon DEF Next, Entering, InStage

\* What the steps between the stages leave alone.
LEMMA EnteringRest ==
    ASSUME TypeOK, Called, Entering
    PROVE  /\ UNCHANGED <<hosts, result, witness>>
           /\ faults' \in 0 .. MaxFaults
           /\ \/ UNCHANGED inventory
              \/ run'.stage \in {0, Install} /\ inventory' = InitialInventory(Cfg)
              \/ run'.stage = 0 /\ inventory' \in CutOffSaves(InitialInventory(Cfg))
              \/ run'.stage = Verify /\ inventory' \in CutOffSaves(inventory)
           /\ run'.stage = Install => inventory' = InitialInventory(Cfg)
<1>1. UNCHANGED <<hosts, result, witness>>
  BY Zenon DEF Entering, EnterPackages, RunPreflight, EnterInstall, EnterVerify
<1>2. faults' = faults \/ Fault
  BY Zenon DEF Entering, EnterPackages, RunPreflight, EnterInstall, EnterVerify, SaveCutOff
<1>3. faults' \in 0 .. MaxFaults
  BY <1>2, OnboardingAssumption DEF TypeOK, Fault
<1>4. CASE EnterInstall
  <2>1. CASE inventory' = InitialInventory(Cfg)
    <3>1. Goes(Install, Cfg.nodes, StepsOf(Head(Cfg.nodes))) \/ Stops
      BY <1>4, Zenon DEF EnterInstall
    <3>2. run'.stage \in {0, Install}
      BY <3>1, IdleIsRun DEF Goes, Stops, TypeOK, Runs
    <3> QED
      BY <1>1, <1>3, <2>1, <3>2
  <2>2. CASE /\ Stops
             /\ \/ UNCHANGED inventory
                \/ inventory' \in CutOffSaves(InitialInventory(Cfg))
    <3>1. run'.stage = 0 /\ run'.stage # Install
      BY <2>2, IdleIsRun DEF Stops, Install
    <3> QED
      BY <1>1, <1>3, <2>2, <3>1
  <2> QED
    BY <1>4, <2>1, <2>2 DEF EnterInstall, SaveCutOff
<1>5. CASE EnterVerify
  <2>1. run'.stage = Verify /\ run'.stage # Install
    BY <1>5 DEF EnterVerify, Goes, TypeOK, Runs, Verify, Install
  <2>2. UNCHANGED inventory \/ inventory' \in CutOffSaves(inventory)
    BY <1>5 DEF EnterVerify, SaveCutOff
  <2> QED
    BY <1>1, <1>3, <2>1, <2>2
<1>6. CASE ~EnterInstall /\ ~EnterVerify
  <2>1. UNCHANGED inventory
    BY <1>6, Zenon DEF Entering, EnterPackages, RunPreflight
  <2>2. \/ Goes(Base, Targets, <<>>) \/ Goes(Docker, Targets, <<>>)
        \/ Goes(Preflight, <<>>, <<>>) \/ Stops
    BY <1>6, Zenon DEF Entering, EnterPackages, RunPreflight
  <2>3. run'.stage \in {Base, Docker, Preflight, 0}
    BY <2>2, IdleIsRun DEF Goes, Stops, TypeOK, Runs
  <2>4. run'.stage # Install
    BY <2>3 DEF Base, Docker, Preflight, Install
  <2> QED
    BY <1>1, <1>3, <2>1, <2>4
<1> QED
  BY <1>4, <1>5, <1>6

------------------------------------------------------------------------------
(* Types.                                                                  *)

LEMMA InitTypes == Init => TypeOK /\ Called
<1> SUFFICES ASSUME Init PROVE TypeOK /\ Called
  OBVIOUS
<1> DEFINE services == [p \in Parts |-> "absent"]
           fresh == [key |-> "no", packages |-> "no", docker |-> "no",
                     ufw |-> "inactive", rules |-> {}, services |-> services]
<1>1. hosts = [n \in Nodes |-> fresh]
  BY DEF Init
<1>2. services \in [Parts -> {"absent", "stopped", "running"}]
  OBVIOUS
<1> HIDE DEF services
<1>3. fresh \in Host
  BY <1>2 DEF Host
<1> HIDE DEF fresh
<1>4. hosts \in [Nodes -> Host]
  BY <1>1, <1>3
<1>5. inventory \in Inventories
  BY DEF Init, NoInventory, Inventories
<1>6. NoResult \in Results
  BY DEF NoResult, Results
<1>7. run \in Runs /\ run.stage = 0
  BY IdleIsRun DEF Init
<1>8. faults \in 0 .. MaxFaults
  BY OnboardingAssumption DEF Init
<1>9. Called
  BY <1>7 DEF Called, Firewall
<1>10. result \in Results /\ witness \subseteq Nodes
  BY <1>6 DEF Init
<1> QED
  BY <1>4, <1>5, <1>7, <1>8, <1>9, <1>10 DEF TypeOK

LEMMA NoResultTyped == NoResult \in Results /\ NoResult.file = NoFile
BY DEF NoResult, Results

\* The command under way is the one that was called.
LEMMA CalledStep ==
    ASSUME TypeOK, Called, [Next]_vars
    PROVE  run' \in Runs /\ Called'
<1>1. CASE run' = Idle
  BY <1>1, IdleIsRun DEF Called, Firewall
<1>2. CASE SameStage
  <2>1. Cfg' = Cfg
    BY <1>2 DEF SameStage, Cfg
  <2> QED
    BY <1>2, <2>1 DEF SameStage, Called
<1>3. CASE UNCHANGED run
  BY <1>3 DEF Called, Cfg, TypeOK
<1>4. ASSUME NEW file \in Files, NEW opts \in OptionSets, Start(file, opts)
      PROVE  run' \in Runs /\ Called'
  <2>1. /\ run' \in Runs /\ run'.file = file /\ run'.opts = opts
        /\ run'.stage = IF "apply" \in opts THEN Firewall ELSE Bootstrap
        /\ "apply" \in opts => PlanAccepted(ConfigOf[file], opts)
    BY <1>4, StartRun
  <2>2. CASE "apply" \in opts
    BY <2>1, <2>2 DEF Called, Cfg, Firewall
  <2>3. CASE "apply" \notin opts
    BY <2>1, <2>3 DEF Called, Cfg, Firewall, Bootstrap
  <2> QED
    BY <2>2, <2>3
<1>5. CASE Entering
  <2>1. run.stage \in 1 .. 5
    BY <1>5, EnteringRun
  <2>2. CASE run' \in Runs /\ run'.stage \in 2 .. 6
             /\ run'.file = run.file /\ run'.opts = run.opts
    BY <2>1, <2>2 DEF Called, Firewall
  <2>3. run' = Idle \/ (run' \in Runs /\ run'.stage \in 2 .. 6
                        /\ run'.file = run.file /\ run'.opts = run.opts)
    BY <1>5, EnteringRun
  <2> QED
    BY <1>1, <2>2, <2>3
<1>6. CASE InStage
  BY <1>1, <1>2, <1>6, InStageRun DEF TypeOK, Called
<1>7. CASE Finish
  BY <1>1, <1>7 DEF Finish, Stops
<1>8. ASSUME NEW file \in Files, NEW opts \in OptionSets, DryRun(file, opts)
      PROVE  run' \in Runs /\ Called'
  BY <1>3, <1>8 DEF DryRun
<1>9. ASSUME NEW n \in Nodes, NEW p \in Parts, ServiceStops(n, p)
      PROVE  run' \in Runs /\ Called'
  BY <1>3, <1>9 DEF ServiceStops
<1>10. CASE UNCHANGED vars
  BY <1>3, <1>10 DEF vars
<1> QED
  BY <1>4, <1>5, <1>6, <1>7, <1>8, <1>9, <1>10, NextIs

LEMMA TypesStep ==
    ASSUME TypeOK, Called, [Next]_vars
    PROVE  TypeOK' /\ Called'
<1>1. run' \in Runs /\ Called'
  BY CalledStep
<1>2. inventory \in Inventories /\ hosts \in [Nodes -> Host] /\ run \in Runs
      /\ result \in Results /\ witness \subseteq Nodes /\ faults \in 0 .. MaxFaults
  BY DEF TypeOK, Inventories
<1> DEFINE Rest == /\ hosts' \in [Nodes -> Host] /\ inventory' \in Inventories
                   /\ result' \in Results /\ witness' \subseteq Nodes
                   /\ faults' \in 0 .. MaxFaults
<1>3. ASSUME NEW file \in Files, NEW opts \in OptionSets, Start(file, opts)
      PROVE  Rest
  BY <1>2, <1>3, StartRun, NoResultTyped
<1>4. ASSUME NEW file \in Files, NEW opts \in OptionSets, DryRun(file, opts)
      PROVE  Rest
  <2>1. inventory' \in {InitialInventory(ConfigOf[file])}
                          \cup CutOffSaves(InitialInventory(ConfigOf[file]))
    BY <1>4 DEF DryRun, SaveCutOff
  <2>2. inventory' \in Inventories
    BY <2>1, InitialIsInventory, CutOffIsInventory
  <2>3. faults' \in 0 .. MaxFaults
    BY <1>2, <1>4, OnboardingAssumption DEF DryRun, SaveCutOff, Fault
  <2> QED
    BY <1>2, <1>4, <2>2, <2>3, NoResultTyped DEF DryRun
<1>5. ASSUME Entering PROVE Rest
  <2>1. run.file \in Files
    BY <1>5, EnteringRun DEF Called
  <2>2. InitialInventory(Cfg) \in Inventories
    BY <2>1, InitialIsInventory DEF Cfg
  <2>3. inventory' \in {inventory, InitialInventory(Cfg)} \cup CutOffSaves(inventory)
                          \cup CutOffSaves(InitialInventory(Cfg))
    BY <1>5, EnteringRest
  <2>4. inventory' \in Inventories
    BY <1>2, <2>2, <2>3, CutOffIsInventory
  <2> QED
    BY <1>2, <1>5, <2>4, EnteringRest
<1>6. ASSUME Finish PROVE Rest
  <2>1. [file |-> run.file, opts |-> run.opts] \in Results
    BY <1>2 DEF Results, Runs
  <2> QED
    BY <1>2, <1>6, <2>1, NoResultTyped DEF Finish
<1>7. ASSUME InStage PROVE Rest
  <2>1. hosts' \in [Nodes -> Host]
    BY <1>7, InStageHosts DEF HostsKept
  <2>2. /\ inventory' \in {inventory, Upserted(Node)} \cup CutOffSaves(inventory)
                              \cup CutOffSaves(Upserted(Node))
        /\ Node \in Nodes
        /\ result' = result /\ witness' \subseteq Nodes /\ faults' \in 0 .. MaxFaults
    BY <1>2, <1>7, InStageRest
  <2>3. Upserted(Node) \in Inventories
    BY <1>2, <2>2, UpsertedIsInventory
  <2>4. inventory' \in Inventories
    BY <1>2, <2>2, <2>3, CutOffIsInventory
  <2> QED
    BY <1>2, <2>1, <2>2, <2>4
<1>8. ASSUME NEW n \in Nodes, NEW p \in Parts, ServiceStops(n, p)
      PROVE  Rest
  <2>1. hosts' \in [Nodes -> Host]
    BY <1>2, <1>8, StopsKeepsHosts DEF HostsGrow
  <2>2. Fault /\ UNCHANGED <<inventory, result, witness>>
    BY <1>8 DEF ServiceStops
  <2>3. faults' \in 0 .. MaxFaults
    BY <1>2, <2>2, OnboardingAssumption DEF Fault
  <2> QED
    BY <1>2, <2>1, <2>2, <2>3
<1>9. ASSUME UNCHANGED vars PROVE Rest
  BY <1>2, <1>9 DEF vars
<1>10. Rest
  BY <1>3, <1>4, <1>5, <1>6, <1>7, <1>8, <1>9, NextIs
<1> QED
  BY <1>1, <1>10 DEF TypeOK, Inventories

\* Whatever fails on the way: servers, inventory and the command under way have
\* their types.
THEOREM TypeCorrect == Spec => []TypeOK
<1>1. Init => TypeOK /\ Called
  BY InitTypes
<1>2. TypeOK /\ Called /\ [Next]_vars => (TypeOK /\ Called)'
  BY TypesStep
<1> QED
  BY <1>1, <1>2, PTL DEF Spec

\* The command under way has a configuration, and one whose rules were accepted
\* when it is firewall apply.
THEOREM CalledRight == Spec => [](TypeOK /\ Called)
<1>1. Init => TypeOK /\ Called
  BY InitTypes
<1>2. TypeOK /\ Called /\ [Next]_vars => (TypeOK /\ Called)'
  BY TypesStep
<1> QED
  BY <1>1, <1>2, PTL DEF Spec

\* Every step leaves a host's key and Docker, and its firewall inactive, as it
\* was or with the rules of the command's configuration.
LEMMA StepKeepsHosts ==
    ASSUME TypeOK, Called, [Next]_vars
    PROVE  HostsKept
<1>1. hosts \in [Nodes -> Host]
  BY DEF TypeOK
<1>2. CASE UNCHANGED hosts
  BY <1>1, <1>2, SameHosts, GrownIsKept
<1>3. ASSUME NEW file \in Files, NEW opts \in OptionSets,
             Start(file, opts) \/ DryRun(file, opts)
      PROVE  HostsKept
  BY <1>2, <1>3 DEF Start, DryRun
<1>4. CASE Entering
  BY <1>2, <1>4, EnteringRest
<1>5. CASE Finish
  BY <1>2, <1>5 DEF Finish
<1>6. CASE InStage
  BY <1>6, InStageHosts
<1>7. ASSUME NEW n \in Nodes, NEW p \in Parts, ServiceStops(n, p)
      PROVE  HostsKept
  BY <1>1, <1>7, StopsKeepsHosts, GrownIsKept
<1>8. CASE UNCHANGED vars
  BY <1>2, <1>8 DEF vars
<1> QED
  BY <1>3, <1>4, <1>5, <1>6, <1>7, <1>8, NextIs

------------------------------------------------------------------------------
(* The firewall.                                                           *)

\* The rules of an active firewall are those of a plan that was accepted.
Accepted ==
    \A n \in Nodes : hosts[n].ufw = "active" =>
        \E file \in Files, opts \in OptionSets :
            /\ hosts[n].rules = Rules(ConfigOf[file])
            /\ PlanAccepted(ConfigOf[file], opts)

LEMMA AcceptedStep ==
    ASSUME TypeOK, Called, Accepted, [Next]_vars
    PROVE  Accepted'
<1> SUFFICES ASSUME NEW n \in Nodes, hosts'[n].ufw = "active"
             PROVE  \E file \in Files, opts \in OptionSets :
                        /\ hosts'[n].rules = Rules(ConfigOf[file])
                        /\ PlanAccepted(ConfigOf[file], opts)
  BY DEF Accepted
<1>1. CASE hosts[n].ufw = "active" /\ hosts'[n].rules = hosts[n].rules
  BY <1>1 DEF Accepted
<1>2. CASE run.stage = Firewall /\ hosts'[n].rules = Rules(Cfg)
  <2>1. run.stage # 0
    BY <1>2 DEF Firewall
  <2>2. run.file \in Files /\ run.opts \in OptionSets /\ PlanAccepted(Cfg, run.opts)
    BY <1>2, <2>1 DEF Called
  <2> QED
    BY <1>2, <2>2 DEF Cfg
<1> QED
  BY <1>1, <1>2, StepKeepsHosts DEF HostsKept

THEOREM ActiveIsAccepted == Spec => []Accepted
<1>1. Init => TypeOK /\ Called
  BY InitTypes
<1>2. Init => Accepted
  BY DEF Init, Accepted
<1>3. TypeOK /\ Called /\ Accepted /\ [Next]_vars => (TypeOK /\ Called /\ Accepted)'
  BY TypesStep, AcceptedStep
<1> QED
  BY <1>1, <1>2, <1>3, PTL DEF Spec

\* firewall apply cut off after any of its ufw commands, on servers with a
\* firewall or without: the one that is active has all the rules of a
\* configuration.
THEOREM WholeFirewalls == Spec => []ActiveIsWhole
<1>1. Accepted => ActiveIsWhole
  BY DEF Accepted, ActiveIsWhole
<1> QED
  BY <1>1, ActiveIsAccepted, PTL

\* The rules of an accepted plan open nothing to everyone but SSH and what
\* Traefik serves: firewall.Validate sees to the ports it has words for, and the
\* API's, for which it has none, follow the admin networks that BuildPlan
\* refuses to be everyone's.
LEMMA AcceptedExposesNothing ==
    ASSUME NEW file \in Files, NEW opts, PlanAccepted(ConfigOf[file], opts)
    PROVE  \A r \in Exposed(Rules(ConfigOf[file])) : r.purpose \in {"ssh", "http", "https"}
<1> DEFINE cfg == ConfigOf[file]
<1> SUFFICES ASSUME NEW r \in Rules(cfg), r.source \in Public
             PROVE  r.purpose \in {"ssh", "http", "https"}
  BY DEF Exposed
<1>1. cfg.admin \cap Public = {} /\ r.purpose \notin NamedInternal
  BY DEF PlanAccepted, Exposed
<1>2. CASE r \in SshRules(cfg)
  BY <1>2 DEF SshRules, Rule
<1>3. CASE r \in {Rule(p, "0.0.0.0/0") : p \in {"http", "https"}}
  BY <1>3 DEF Rule
<1>4. CASE r \in {Rule(p, c) : p \in AdminServices, c \in cfg.admin}
  BY <1>1, <1>4 DEF Rule
<1>5. CASE r \in {Rule(p, PrivateSource(cfg)) : p \in PrivateServices}
  BY <1>1, <1>5 DEF Rule, NamedInternal
<1>6. CASE r \in {Rule("dashboard", c) : c \in IF cfg.dashboard = "off" THEN {} ELSE cfg.admin}
  BY <1>1, <1>6 DEF Rule, NamedInternal
<1> QED
  BY <1>2, <1>3, <1>4, <1>5, <1>6 DEF Rules

\* No active firewall opens a database, Consul, Nomad, the API or the dashboard
\* to everyone, whatever configuration firewall apply was given.
THEOREM NothingInternalExposed == Spec => []NothingExposed
<1>1. Accepted => NothingExposed
  <2> SUFFICES ASSUME Accepted, NEW n \in Nodes, hosts[n].ufw = "active"
               PROVE  \A r \in Exposed(hosts[n].rules) : r.purpose \in {"ssh", "http", "https"}
    BY DEF NothingExposed
  <2>1. PICK file \in Files, opts \in OptionSets :
           hosts[n].rules = Rules(ConfigOf[file]) /\ PlanAccepted(ConfigOf[file], opts)
    BY DEF Accepted
  <2> QED
    BY <2>1, AcceptedExposesNothing
<1> QED
  BY <1>1, ActiveIsAccepted, PTL

------------------------------------------------------------------------------
(* The key.                                                                *)

\* An inventory that was just made calls no node ready.
LEMMA InitialNotReady ==
    ASSUME NEW file \in Files,
           NEW inv \in {InitialInventory(ConfigOf[file])}
                          \cup CutOffSaves(InitialInventory(ConfigOf[file]))
    PROVE  inv.ready = {}
<1>1. InitialInventory(ConfigOf[file]).ready = {}
  BY DEF InitialInventory
<1>2. InitialInventory(ConfigOf[file]) \in Inventories
  BY InitialIsInventory
<1>3. CASE inv = InitialInventory(ConfigOf[file])
  BY <1>1, <1>3
<1>4. CASE inv \in CutOffSaves(InitialInventory(ConfigOf[file]))
  <2>1. inv.ready \subseteq {}
    BY <1>1, <1>2, <1>4, CutOffIsInventory
  <2> QED
    BY <2>1
<1> QED
  BY <1>3, <1>4

LEMMA ReadyStep ==
    ASSUME TypeOK, Called, ReadyHasKey, [Next]_vars
    PROVE  ReadyHasKey'
<1>1. \A n \in Nodes : hosts[n].key = "yes" => hosts'[n].key = "yes"
  BY StepKeepsHosts DEF HostsKept
<1>2. inventory \in Inventories
  BY DEF TypeOK, Inventories
<1>3. inventory.ready \subseteq Nodes
  BY <1>2 DEF Inventories
<1>4. CASE UNCHANGED inventory
  BY <1>1, <1>3, <1>4 DEF ReadyHasKey
<1>5. CASE inventory'.ready = {}
  BY <1>5 DEF ReadyHasKey
<1>6. ASSUME NEW file \in Files, NEW opts \in OptionSets,
             Start(file, opts) \/ DryRun(file, opts)
      PROVE  ReadyHasKey'
  <2>1. \/ UNCHANGED inventory \/ inventory' = InitialInventory(ConfigOf[file])
        \/ inventory' \in CutOffSaves(InitialInventory(ConfigOf[file]))
    BY <1>6 DEF Start, DryRun, SaveCutOff
  <2> QED
    BY <1>4, <1>5, <2>1, InitialNotReady
<1>7. CASE Entering
  <2>1. run.file \in Files
    BY <1>7, EnteringRun DEF Called
  <2>2. CASE inventory' \in {InitialInventory(Cfg)} \cup CutOffSaves(InitialInventory(Cfg))
    BY <1>5, <2>1, <2>2, InitialNotReady DEF Cfg
  <2>3. CASE inventory' \in CutOffSaves(inventory)
    <3>1. inventory'.ready \subseteq inventory.ready
      BY <1>2, <2>3, CutOffIsInventory
    <3> QED
      BY <1>1, <1>3, <3>1 DEF ReadyHasKey
  <2> QED
    BY <1>4, <1>7, <2>2, <2>3, EnteringRest
<1>8. CASE Finish
  BY <1>4, <1>8 DEF Finish
<1>9. CASE InStage
  <2>1. CASE Node \in Nodes /\ inventory' = Upserted(Node) /\ hosts'[Node].key = "yes"
    <3>1. inventory'.ready = inventory.ready \cup {Node}
      BY <1>2, <2>1, UpsertedIsInventory
    <3> QED
      BY <1>1, <1>3, <2>1, <3>1 DEF ReadyHasKey
  <2>2. CASE /\ Node \in Nodes /\ inventory' \in CutOffSaves(Upserted(Node))
             /\ hosts'[Node].key = "yes"
    <3>1. /\ Upserted(Node) \in Inventories
          /\ Upserted(Node).ready = inventory.ready \cup {Node}
      BY <1>2, <2>2, UpsertedIsInventory
    <3>2. inventory'.ready \subseteq inventory.ready \cup {Node}
      BY <2>2, <3>1, CutOffIsInventory
    <3> QED
      BY <1>1, <1>3, <2>2, <3>2 DEF ReadyHasKey
  <2>3. CASE inventory' \in CutOffSaves(inventory)
    <3>1. inventory'.ready \subseteq inventory.ready
      BY <1>2, <2>3, CutOffIsInventory
    <3> QED
      BY <1>1, <1>3, <3>1 DEF ReadyHasKey
  <2> QED
    BY <1>4, <1>9, <2>1, <2>2, <2>3, InStageRest
<1>10. ASSUME NEW n \in Nodes, NEW p \in Parts, ServiceStops(n, p)
       PROVE  ReadyHasKey'
  BY <1>4, <1>10 DEF ServiceStops
<1>11. CASE UNCHANGED vars
  BY <1>4, <1>11 DEF vars
<1> QED
  BY <1>6, <1>7, <1>8, <1>9, <1>10, <1>11, NextIs

\* A node the inventory calls "ssh-ready" accepts the key, however bootstraps
\* are cut off and repeated and whatever rewrites the inventory in between.
THEOREM ReadyNodesHaveKey == Spec => []ReadyHasKey
<1>1. Init => TypeOK /\ Called
  BY InitTypes
<1>2. Init => ReadyHasKey
  BY DEF Init, NoInventory, ReadyHasKey
<1>3. TypeOK /\ Called /\ ReadyHasKey /\ [Next]_vars => (TypeOK /\ Called /\ ReadyHasKey)'
  BY TypesStep, ReadyStep
<1> QED
  BY <1>1, <1>2, <1>3, PTL DEF Spec

------------------------------------------------------------------------------
(* From the stages to the report.                                          *)

LEMMA AsksAre ==
    /\ Asks[1] = "copy" /\ Asks[2] = "base" /\ Asks[3] = "preflight"
    /\ Asks[4] = "docker" /\ Asks[5] = "components" /\ Asks[6] = "components"
BY DEF Asks

\* The stage a command comes from: Docker's comes before the install when it is
\* asked for, and the install before verify.
LEMMA EntersFrom ==
    ASSUME run \in Runs, NEW s \in 2 .. 6, Enters(s)
    PROVE  /\ s \in {Base, Preflight} => run.stage \in {Bootstrap, Base}
           /\ s = Docker => run.stage \in {Bootstrap, Base, Preflight}
           /\ s = Install /\ "docker" \in run.opts => run.stage = Docker
           /\ s = Install => run.stage \in {Bootstrap, Base, Preflight, Docker}
           /\ s = Verify => run.stage = Install
<1>1. /\ run.stage \in 1 .. 5 /\ s > run.stage /\ Asks[s] \in run.opts
      /\ \A t \in Stages : t > run.stage /\ Asks[t] \in run.opts => s <= t
  BY DEF Enters, Later
<1>2. 4 \in Stages /\ 5 \in Stages
  BY DEF Stages
<1>3. s = 5 /\ "docker" \in run.opts => run.stage = 4
  BY <1>1, <1>2, AsksAre
<1>4. s = 6 => run.stage = 5
  BY <1>1, <1>2, AsksAre
<1> QED
  BY <1>1, <1>3, <1>4 DEF Bootstrap, Base, Preflight, Docker, Install, Verify

\* An onboarding that asked for components returns from verify.
LEMMA FinishFrom ==
    ASSUME TypeOK, Called, Finish, "components" \in run.opts
    PROVE  run.stage = Verify
<1>1. run.stage \in 1 .. 7 /\ Later = {}
  BY DEF Finish
<1>2. ~(run.stage < 6)
  <2>1. 6 \in Stages
    BY DEF Stages
  <2> QED
    BY <1>1, <2>1, AsksAre DEF Later
<1>3. run.stage # 7
  <2> SUFFICES ASSUME run.stage = 7 PROVE FALSE
    OBVIOUS
  <2>1. "apply" \in run.opts /\ run.opts \in OptionSets
    BY DEF Called, Firewall
  <2>2. run.opts \subseteq {"apply"} \cup Flags
    BY <2>1, OptionsAssumption
  <2> QED
    BY <2>2 DEF Flags
<1> QED
  BY <1>1, <1>2, <1>3 DEF Verify

\* The result of a report, or that of no report.
LEMMA ResultStep ==
    ASSUME TypeOK, [Next]_vars
    PROVE  \/ UNCHANGED result /\ witness \subseteq witness'
           \/ result' = NoResult
           \/ /\ Finish /\ run.failed = "no"
              /\ result' = [file |-> run.file, opts |-> run.opts]
<1>1. ASSUME NEW file \in Files, NEW opts \in OptionSets,
             Start(file, opts) \/ DryRun(file, opts)
      PROVE  result' = NoResult
  BY <1>1 DEF Start, DryRun
<1>2. CASE Entering
  BY <1>2, Zenon DEF Entering, EnterPackages, RunPreflight, EnterInstall, EnterVerify
<1>3. CASE Finish
  <2>1. run.failed \in {"no", "yes"}
    BY DEF TypeOK, Runs
  <2>2. result' = IF run.failed = "yes" THEN NoResult
                  ELSE [file |-> run.file, opts |-> run.opts]
    BY <1>3 DEF Finish
  <2> QED
    BY <1>3, <2>1, <2>2
<1>4. CASE InStage
  BY <1>4, InStageRest
<1>5. ASSUME NEW n \in Nodes, NEW p \in Parts, ServiceStops(n, p)
      PROVE  UNCHANGED result /\ witness \subseteq witness'
  BY <1>5 DEF ServiceStops
<1>6. CASE UNCHANGED vars
  BY <1>6 DEF vars
<1> QED
  BY <1>1, <1>2, <1>3, <1>4, <1>5, <1>6, NextIs

\* The install stage has made the inventory that of the configuration, and so
\* verify looks at all its nodes, when the last save of it was whole.
LooksAtAll ==
    /\ run.stage # 0 => result.file = NoFile
    /\ run.stage = Install => inventory.nodes = Cfg.nodes
    /\ run.stage = Verify /\ inventory.there = "yes" /\ run.failed = "no" =>
          NodesOf(Cfg) \subseteq witness \cup Members(run.todo)

LEMMA LooksStep ==
    ASSUME TypeOK, Called, LooksAtAll, [Next]_vars
    PROVE  LooksAtAll'
<1>11. run'.stage # 0 => result'.file = NoFile
  <2>1. CASE result' = NoResult
    BY <2>1, NoResultTyped
  <2>2. CASE Finish
    BY <2>2, IdleIsRun DEF Finish, Stops
  <2>3. CASE UNCHANGED result /\ run.stage # 0
    BY <2>3 DEF LooksAtAll
  <2>4. CASE UNCHANGED result /\ run.stage = 0 /\ ~Finish
    <3>1. ~InStage
      BY <2>4, InStageRun DEF TypeOK, Called
    <3>2. ~Entering
      BY <2>4, EnteringRun
    <3>3. ASSUME NEW file \in Files, NEW opts \in OptionSets, Start(file, opts)
          PROVE  result'.file = NoFile
      BY <3>3, StartRun, NoResultTyped
    <3>4. ASSUME NEW file \in Files, NEW opts \in OptionSets, DryRun(file, opts)
          PROVE  UNCHANGED run
      BY <3>4 DEF DryRun
    <3>5. ASSUME NEW n \in Nodes, NEW p \in Parts, ServiceStops(n, p)
          PROVE  UNCHANGED run
      BY <3>5 DEF ServiceStops
    <3>6. UNCHANGED vars => UNCHANGED run
      BY DEF vars
    <3> QED
      BY <2>4, <3>1, <3>2, <3>3, <3>4, <3>5, <3>6, NextIs
  <2> QED
    BY <2>1, <2>2, <2>3, <2>4, ResultStep
<1>0. Install # 0 /\ Verify # 0 /\ Install # Verify /\ Bootstrap # Install
      /\ Bootstrap # Verify /\ Firewall # Install /\ Firewall # Verify
  BY DEF Install, Verify, Bootstrap, Firewall
<1>1. CASE run'.stage \notin {Install, Verify}
  BY <1>1, <1>11 DEF LooksAtAll
<1>2. CASE UNCHANGED <<run, witness>> /\ (run.stage = 0 \/ UNCHANGED inventory)
  BY <1>0, <1>2, <1>11 DEF LooksAtAll, Cfg
<1>3. ASSUME NEW file \in Files, NEW opts \in OptionSets, Start(file, opts)
      PROVE  LooksAtAll'
  BY <1>0, <1>1, <1>3, StartRun
<1>4. ASSUME NEW file \in Files, NEW opts \in OptionSets, DryRun(file, opts)
      PROVE  LooksAtAll'
  <2>1. run'.stage = 0
    BY <1>4 DEF DryRun
  <2> QED
    BY <1>0, <1>1, <2>1
<1>5. CASE Entering
  <2>1. CASE run' = Idle
    BY <1>0, <1>1, <2>1, IdleIsRun
  <2>2. ASSUME NEW s \in 2 .. 6, Enters(s), run'.stage = s, run'.file = run.file,
               run'.todo = CASE s \in {Base, Docker} -> Targets
                             [] s = Preflight -> <<>>
                             [] s = Install -> Cfg.nodes
                             [] s = Verify -> inventory'.nodes
        PROVE  LooksAtAll'
    <3>1. Cfg' = Cfg
      BY <2>2 DEF Cfg
    <3>2. CASE s = Install
      <4>1. inventory'.nodes = Cfg.nodes
        BY <1>5, <2>2, <3>2, EnteringRest DEF InitialInventory
      <4> QED
        BY <1>0, <1>11, <2>2, <3>1, <3>2, <4>1 DEF LooksAtAll
    <3>3. CASE s = Verify
      <4>1. run.stage = Install
        BY <2>2, <3>3, EntersFrom DEF TypeOK
      <4>2. run'.todo = inventory'.nodes
        BY <2>2, <3>3 DEF Base, Preflight, Docker, Install, Verify
      <4>3. CASE UNCHANGED inventory
        <5>1. NodesOf(Cfg) = Members(run'.todo)
          BY <4>1, <4>2, <4>3 DEF LooksAtAll, NodesOf
        <5> QED
          BY <1>0, <1>11, <2>2, <3>1, <3>3, <5>1 DEF LooksAtAll
      <4>4. CASE inventory' \in CutOffSaves(inventory)
        <5>1. inventory'.there # "yes"
          BY <4>4, CutOffIsInventory DEF TypeOK
        <5> QED
          BY <1>0, <1>11, <2>2, <3>3, <5>1 DEF LooksAtAll
      <4> QED
        BY <1>0, <1>5, <2>2, <3>3, <4>3, <4>4, EnteringRest
    <3> QED
      BY <1>1, <2>2, <3>2, <3>3
  <2> QED
    BY <1>5, <2>1, <2>2, EnteringRun
<1>6. CASE Finish
  BY <1>0, <1>1, <1>6, IdleIsRun DEF Finish, Stops
<1>7. CASE VerifyNode
  <2>1. run.stage = Verify /\ run \in Runs
    BY <1>7 DEF VerifyNode, At, TypeOK
  <2>2. SameStage /\ run'.todo = Tail(run.todo)
    BY <1>7, <2>1, VerifyRun
  <2>3. Cfg' = Cfg /\ run'.stage = Verify
    BY <2>1, <2>2 DEF SameStage, Cfg
  <2>4. ASSUME run'.failed = "no", inventory'.there = "yes"
        PROVE  NodesOf(Cfg) \subseteq witness' \cup Members(run'.todo)
    <3>0. UNCHANGED inventory
      BY <1>7 DEF VerifyNode
    <3>1. /\ run.failed = "no"
          /\ \E services \in MayLookAt(Node) : CheckNode(Node, services)
          /\ witness' = witness \cup {n \in {Node} : LookedAt(n) \subseteq Running(n)}
      BY <1>7, <2>1, <2>4, VerifyRun
    <3>2. Node \in Nodes /\ run.todo # <<>> /\ run.todo \in Seq(Nodes)
      BY <1>7, <2>1, NodeIsNode DEF VerifyNode
    <3>3. MayLookAt(Node) = {LookedAt(Node)}
      BY <2>4, <3>0 DEF MayLookAt
    <3>4. LookedAt(Node) \subseteq Running(Node)
      BY <3>1, <3>3 DEF CheckNode
    <3>7. witness' = witness \cup {Node}
      BY <3>1, <3>4
    <3>8. Members(run.todo) \subseteq {Node} \cup Members(run'.todo)
      BY <2>2, <3>2, MembersOfTail DEF Node
    <3>9. NodesOf(Cfg) \subseteq witness \cup Members(run.todo)
      BY <2>1, <2>4, <3>0, <3>1 DEF LooksAtAll
    <3> QED
      BY <3>7, <3>8, <3>9
  <2> QED
    BY <1>0, <1>11, <2>3, <2>4 DEF LooksAtAll
<1>8. CASE InStage /\ ~VerifyNode
  <2>1. run.stage # Verify
    <3>1. At(Bootstrap) \/ At(Base) \/ At(Docker) \/ At(Install) \/ At(Firewall)
      BY <1>8, Zenon DEF InStage, BootstrapNode, InstallPackages, PackagesFail,
         InstallBase, InstallFirewall, LeaveOut, InstallComponent, StepFails, ApplyRules, RulesFail
    <3> QED
      BY <3>1 DEF At, Bootstrap, Base, Docker, Install, Verify, Firewall
  <2>2. CASE run' = Idle
    BY <1>0, <1>1, <2>2, IdleIsRun
  <2>3. CASE SameStage
    <3>1. Cfg' = Cfg /\ run'.stage = run.stage
      BY <2>3 DEF SameStage, Cfg
    <3>2. CASE run.stage = Install
      <4>1. run' # Idle
        BY <1>0, <3>1, <3>2, IdleIsRun
      <4>2. UNCHANGED inventory
        BY <1>0, <1>8, <3>2, <4>1, InStageRest
      <4> QED
        BY <1>0, <1>11, <3>1, <3>2, <4>2 DEF LooksAtAll
    <3> QED
      BY <1>1, <2>1, <3>1, <3>2
  <2> QED
    BY <1>8, <2>2, <2>3, InStageRun DEF TypeOK, Called
<1>9. ASSUME NEW n \in Nodes, NEW p \in Parts, ServiceStops(n, p)
      PROVE  LooksAtAll'
  BY <1>2, <1>9 DEF ServiceStops
<1>10. CASE UNCHANGED vars
  BY <1>2, <1>10 DEF vars
<1> QED
  BY <1>3, <1>4, <1>5, <1>6, <1>7, <1>8, <1>9, <1>10, NextIs

LEMMA VerifiedStep ==
    ASSUME TypeOK, Called, LooksAtAll, OnboardedWasVerified, [Next]_vars
    PROVE  OnboardedWasVerified'
<1>1. CASE UNCHANGED result /\ witness \subseteq witness'
  <2>1. CASE result.file = NoFile
    BY <1>1, <2>1 DEF OnboardedWasVerified, Onboarded
  <2>2. CASE UNCHANGED inventory
    BY <1>1, <2>2 DEF OnboardedWasVerified, Onboarded
  <2>3. CASE run.stage # 0
    BY <2>1, <2>3 DEF LooksAtAll
  <2>4. CASE run.stage = 0
    <3>1. ~InStage /\ ~Entering /\ ~Finish
      BY <2>4, InStageRun, EnteringRun DEF TypeOK, Called, Finish
    <3>2. ASSUME NEW file \in Files, NEW opts \in OptionSets,
                 Start(file, opts) \/ DryRun(file, opts)
          PROVE  result.file = NoFile
      BY <1>1, <3>2, NoResultTyped DEF Start, DryRun
    <3>3. ASSUME NEW n \in Nodes, NEW p \in Parts, ServiceStops(n, p)
          PROVE  UNCHANGED inventory
      BY <3>3 DEF ServiceStops
    <3>4. UNCHANGED vars => UNCHANGED inventory
      BY DEF vars
    <3> QED
      BY <2>1, <2>2, <3>1, <3>2, <3>3, <3>4, NextIs
  <2> QED
    BY <2>3, <2>4
<1>2. CASE result' = NoResult
  BY <1>2, NoResultTyped DEF OnboardedWasVerified, Onboarded
<1>3. CASE /\ Finish /\ run.failed = "no"
           /\ result' = [file |-> run.file, opts |-> run.opts]
  <2> SUFFICES ASSUME "components" \in run.opts, inventory'.there = "yes"
               PROVE  NodesOf(ConfigOf[run.file]) \subseteq witness'
    BY <1>3 DEF OnboardedWasVerified, Onboarded
  <2>1. run.stage = Verify
    BY <1>3, FinishFrom
  <2>2. inventory.there = "yes" /\ run.todo = <<>> /\ witness' = witness
    BY <1>3 DEF Finish
  <2>4. NodesOf(Cfg) \subseteq witness \cup Members(<<>>)
    BY <1>3, <2>1, <2>2 DEF LooksAtAll
  <2> QED
    BY <2>2, <2>4, MembersOfNone DEF Cfg
<1> QED
  BY <1>1, <1>2, <1>3, ResultStep

\* An onboarding that returned without an error, and left an inventory written to
\* its end, has had every node of its configuration looked at by verify with all
\* services running that it has a check for: the install stage has put the nodes
\* in the inventory verify goes by, and no failure of a stage or a check is lost.
THEOREM OnboardingIsVerified == Spec => []OnboardedWasVerified
<1>1. Init => TypeOK /\ Called
  BY InitTypes
<1>2. Init => LooksAtAll /\ OnboardedWasVerified
  BY IdleIsRun, NoResultTyped
     DEF Init, LooksAtAll, OnboardedWasVerified, Onboarded, Install, Verify
<1>3. TypeOK /\ Called /\ LooksAtAll /\ OnboardedWasVerified /\ [Next]_vars
         => (TypeOK /\ Called /\ LooksAtAll /\ OnboardedWasVerified)'
  BY TypesStep, LooksStep, VerifiedStep
<1> QED
  BY <1>1, <1>2, <1>3, PTL DEF Spec

------------------------------------------------------------------------------
(* Docker.                                                                 *)

Dockered == {n \in Nodes : hosts[n].docker = "yes"}

\* The nodes that got the key are in the inventory, where the Docker stage
\* finds them.
DockerGoesRound ==
    "copy" \in run.opts =>
        /\ run.stage = Bootstrap =>
              NodesOf(Cfg) \subseteq Members(inventory.nodes) \cup Members(run.todo)
        /\ run.stage \in {Base, Preflight} => NodesOf(Cfg) \subseteq Members(inventory.nodes)
        /\ run.stage = Docker => NodesOf(Cfg) \subseteq Dockered \cup Members(run.todo)
        /\ run.stage \in {Install, Verify} /\ "docker" \in run.opts =>
              NodesOf(Cfg) \subseteq Dockered

LEMMA DockerStays ==
    ASSUME TypeOK, Called, [Next]_vars
    PROVE  Dockered \subseteq Dockered'
BY StepKeepsHosts DEF HostsKept, Dockered

LEMMA StagesDiffer ==
    /\ 0 \notin {Bootstrap, Base, Preflight, Docker, Install, Verify}
    /\ Firewall \notin {Bootstrap, Base, Preflight, Docker, Install, Verify}
    /\ Bootstrap \notin {Base, Preflight, Docker, Install, Verify}
    /\ Docker \notin {Base, Preflight, Install, Verify}
    /\ {Install, Verify} \cap {Base, Preflight} = {}
    /\ 2 .. 6 = {Base, Preflight, Docker, Install, Verify}
BY DEF Bootstrap, Base, Preflight, Docker, Install, Verify, Firewall

\* Docker's stage follows the inventory, which has the nodes the key went to.
LEMMA DockerEnters ==
    ASSUME TypeOK, Called, DockerGoesRound, Entering, [Next]_vars
    PROVE  DockerGoesRound'
<1>1. CASE run' = Idle
  BY <1>1, IdleIsRun, StagesDiffer DEF DockerGoesRound
<1>2. ASSUME NEW s \in 2 .. 6, Enters(s), run'.stage = s, run'.file = run.file,
             run'.opts = run.opts,
             run'.todo = CASE s \in {Base, Docker} -> Targets
                           [] s = Preflight -> <<>>
                           [] s = Install -> Cfg.nodes
                           [] s = Verify -> inventory'.nodes
      PROVE  DockerGoesRound'
  <2> SUFFICES ASSUME "copy" \in run.opts PROVE DockerGoesRound'
    BY <1>2 DEF DockerGoesRound
  <2>1. Cfg' = Cfg /\ run \in Runs
    BY <1>2 DEF Cfg, TypeOK
  <2>2. Dockered' = Dockered
    BY EnteringRest DEF Dockered
  <2>3. run.todo = <<>> /\ Members(run.todo) = {}
    BY EnteringRun, MembersOfNone
  <2>4. CASE s \in {Base, Preflight}
    <3>1. run.stage \in {Bootstrap, Base}
      BY <1>2, <2>1, <2>4, EntersFrom
    <3>2. UNCHANGED inventory
      BY <1>2, <2>4, EnteringRest, StagesDiffer
    <3>3. NodesOf(Cfg) \subseteq Members(inventory.nodes)
      BY <2>3, <3>1 DEF DockerGoesRound
    <3> QED
      BY <1>2, <2>1, <2>4, <3>2, <3>3, StagesDiffer DEF DockerGoesRound
  <2>5. CASE s = Docker
    <3>1. run.stage \in {Bootstrap, Base, Preflight}
      BY <1>2, <2>1, <2>5, EntersFrom
    <3>2. NodesOf(Cfg) \subseteq Members(inventory.nodes)
      BY <2>3, <3>1 DEF DockerGoesRound
    <3>3. run'.todo = Targets
      BY <1>2, <2>5 DEF Base, Preflight, Docker, Install, Verify
    <3>4. NodesOf(Cfg) \subseteq Members(run'.todo)
      BY <3>2, <3>3 DEF Targets, NodesOf
    <3> QED
      BY <1>2, <2>1, <2>2, <2>5, <3>4, StagesDiffer DEF DockerGoesRound
  <2>6. CASE s = Install
    <3>1. "docker" \in run.opts => NodesOf(Cfg) \subseteq Dockered
      <4>1. "docker" \in run.opts => run.stage = Docker
        BY <1>2, <2>1, <2>6, EntersFrom
      <4> QED
        BY <2>3, <4>1 DEF DockerGoesRound
    <3> QED
      BY <1>2, <2>1, <2>2, <2>6, <3>1, StagesDiffer DEF DockerGoesRound
  <2>7. CASE s = Verify
    <3>1. run.stage = Install
      BY <1>2, <2>1, <2>7, EntersFrom
    <3>2. "docker" \in run.opts => NodesOf(Cfg) \subseteq Dockered
      BY <3>1 DEF DockerGoesRound
    <3> QED
      BY <1>2, <2>1, <2>2, <2>7, <3>2, StagesDiffer DEF DockerGoesRound
  <2> QED
    BY <2>4, <2>5, <2>6, <2>7, StagesDiffer
<1> QED
  BY <1>1, <1>2, EnteringRun

\* A node the stage is through with is in the inventory, or has Docker.
LEMMA DockerInStage ==
    ASSUME TypeOK, Called, DockerGoesRound, InStage, [Next]_vars
    PROVE  DockerGoesRound'
<1>1. CASE run' = Idle
  BY <1>1, IdleIsRun, StagesDiffer DEF DockerGoesRound
<1>2. CASE SameStage
  <2> SUFFICES ASSUME "copy" \in run.opts PROVE DockerGoesRound'
    BY <1>2 DEF SameStage, DockerGoesRound
  <2>1. Cfg' = Cfg /\ run'.stage = run.stage /\ run'.opts = run.opts
        /\ run'.todo \in {run.todo, Tail(run.todo)}
    BY <1>2 DEF SameStage, Cfg
  <2>2. run.todo # <<>> /\ run.todo \in Seq(Nodes) /\ run \in Runs
    <3>1. run.todo # <<>>
      BY InStageRun DEF TypeOK, Called
    <3> QED
      BY <3>1 DEF TypeOK, Runs
  <2>3. Members(run.todo) \subseteq {Node} \cup Members(run'.todo)
    BY <2>1, <2>2, MembersOfTail DEF Node
  <2>4. Dockered \subseteq Dockered'
    BY DockerStays
  <2>5. CASE run.stage = Bootstrap
    <3>0. run' # Idle
      BY <2>1, <2>5, IdleIsRun, StagesDiffer
    <3>1. Node \in Nodes /\ inventory' = Upserted(Node)
      BY <1>2, <2>1, <2>5, <3>0, InStageRest, StagesDiffer
    <3>2. Members(inventory.nodes) \cup {Node} \subseteq Members(inventory'.nodes)
      BY <3>1, UpsertedIsInventory DEF TypeOK, Inventories
    <3>3. NodesOf(Cfg) \subseteq Members(inventory.nodes) \cup Members(run.todo)
      BY <2>5 DEF DockerGoesRound
    <3>4. NodesOf(Cfg) \subseteq Members(inventory'.nodes) \cup Members(run'.todo)
      BY <2>3, <3>2, <3>3
    <3> QED
      BY <2>1, <2>5, <3>4, StagesDiffer DEF DockerGoesRound
  <2>6. CASE run.stage \in {Base, Preflight}
    <3>1. UNCHANGED inventory
      BY <2>6, InStageRest, StagesDiffer
    <3>2. NodesOf(Cfg) \subseteq Members(inventory.nodes)
      BY <2>6 DEF DockerGoesRound
    <3> QED
      BY <2>1, <2>6, <3>1, <3>2, StagesDiffer DEF DockerGoesRound
  <2>7. CASE run.stage = Docker
    <3>1. InstallPackages
      <4>1. InstallPackages \/ PackagesFail
        <5>1. \/ InstallPackages \/ PackagesFail
              \/ At(Bootstrap) \/ At(Install) \/ At(Verify) \/ At(Firewall)
          BY Zenon DEF InStage, BootstrapNode, InstallBase, InstallFirewall,
             LeaveOut, InstallComponent, StepFails, VerifyNode, ApplyRules, RulesFail
        <5> QED
          BY <2>7, <5>1 DEF At, Bootstrap, Docker, Install, Verify, Firewall
      <4>2. ~PackagesFail
        BY <2>1, <2>7, IdleIsRun, StagesDiffer DEF PackagesFail, Stops
      <4> QED
        BY <4>1, <4>2
    <3>2. ~At(Base)
      BY <2>7 DEF At, Base, Docker
    <3>3. Changes(Node, [hosts[Node] EXCEPT !.docker = "yes"]) /\ Node \in Nodes
      BY <2>2, <3>1, <3>2, NodeIsNode DEF InstallPackages
    <3>4. Node \in Dockered'
      BY <3>3, GetsDocker DEF TypeOK, Dockered
    <3>5. NodesOf(Cfg) \subseteq Dockered \cup Members(run.todo)
      BY <2>7 DEF DockerGoesRound
    <3>6. NodesOf(Cfg) \subseteq Dockered' \cup Members(run'.todo)
      BY <2>3, <2>4, <3>4, <3>5
    <3> QED
      BY <2>1, <2>7, <3>6, StagesDiffer DEF DockerGoesRound
  <2>8. CASE run.stage \in {Install, Verify}
    <3>1. "docker" \in run.opts => NodesOf(Cfg) \subseteq Dockered
      BY <2>8 DEF DockerGoesRound
    <3> QED
      BY <2>1, <2>4, <2>8, <3>1, StagesDiffer DEF DockerGoesRound
  <2>9. CASE run.stage \notin {Bootstrap, Base, Preflight, Docker, Install, Verify}
    BY <2>1, <2>9 DEF DockerGoesRound
  <2> QED
    BY <2>5, <2>6, <2>7, <2>8, <2>9
<1> QED
  BY <1>1, <1>2, InStageRun DEF TypeOK, Called

LEMMA DockerStep ==
    ASSUME TypeOK, Called, DockerGoesRound, [Next]_vars
    PROVE  DockerGoesRound'
<1>1. CASE run'.stage = 0
  BY <1>1, StagesDiffer DEF DockerGoesRound
<1>2. CASE UNCHANGED <<run, inventory>>
  <2>1. Dockered \subseteq Dockered' /\ Cfg' = Cfg
    BY <1>2, DockerStays DEF Cfg
  <2> QED
    BY <1>2, <2>1 DEF DockerGoesRound
<1>3. ASSUME NEW file \in Files, NEW opts \in OptionSets, Start(file, opts)
      PROVE  DockerGoesRound'
  <2>1. /\ run'.file = file /\ run'.opts = opts
        /\ run'.stage = IF "apply" \in opts THEN Firewall ELSE Bootstrap
        /\ "apply" \notin opts /\ "copy" \in opts => run'.todo = ConfigOf[file].nodes
    BY <1>3, StartRun
  <2>2. CASE "apply" \in opts
    BY <2>1, <2>2, StagesDiffer DEF DockerGoesRound
  <2>3. CASE "apply" \notin opts /\ "copy" \in opts
    <3>1. NodesOf(Cfg') = Members(run'.todo)
      BY <2>1, <2>3 DEF Cfg, NodesOf
    <3> QED
      BY <2>1, <2>3, <3>1, StagesDiffer DEF DockerGoesRound, NodesOf
  <2>4. CASE "copy" \notin opts
    BY <2>1, <2>4 DEF DockerGoesRound
  <2> QED
    BY <2>2, <2>3, <2>4
<1>4. ASSUME NEW file \in Files, NEW opts \in OptionSets, DryRun(file, opts)
      PROVE  DockerGoesRound'
  BY <1>1, <1>4 DEF DryRun
<1>5. CASE Finish
  BY <1>1, <1>5, IdleIsRun DEF Finish, Stops
<1>6. ASSUME NEW n \in Nodes, NEW p \in Parts, ServiceStops(n, p)
      PROVE  DockerGoesRound'
  BY <1>2, <1>6 DEF ServiceStops
<1>7. CASE UNCHANGED vars
  BY <1>2, <1>7 DEF vars
<1> QED
  BY <1>3, <1>4, <1>5, <1>6, <1>7, NextIs, DockerEnters, DockerInStage

LEMMA HasDockerStep ==
    ASSUME TypeOK, Called, DockerGoesRound, OnboardedHasDocker, [Next]_vars
    PROVE  OnboardedHasDocker'
<1>1. CASE UNCHANGED result
  <2> SUFFICES ASSUME Onboarded("copy"), "docker" \in result.opts,
                      NEW n \in NodesOf(ConfigOf[result.file])
               PROVE  hosts'[n].docker = "yes"
    BY <1>1 DEF OnboardedHasDocker, Onboarded
  <2>1. result.file \in Files
    BY DEF Onboarded, TypeOK, Results
  <2>2. n \in Nodes
    BY <2>1, ConfigFacts DEF NodesOf, Members
  <2>3. hosts[n].docker = "yes"
    BY DEF OnboardedHasDocker
  <2> QED
    BY <2>2, <2>3, DockerStays DEF Dockered
<1>2. CASE result' = NoResult
  BY <1>2, NoResultTyped DEF OnboardedHasDocker, Onboarded
<1>3. CASE /\ Finish /\ run.failed = "no"
           /\ result' = [file |-> run.file, opts |-> run.opts]
  <2> SUFFICES ASSUME {"components", "copy"} \subseteq run.opts, "docker" \in run.opts
               PROVE  \A n \in NodesOf(ConfigOf[run.file]) : hosts'[n].docker = "yes"
    BY <1>3 DEF OnboardedHasDocker, Onboarded
  <2>1. run.stage = Verify /\ UNCHANGED hosts
    BY <1>3, FinishFrom DEF Finish
  <2>2. NodesOf(Cfg) \subseteq Dockered
    BY <2>1 DEF DockerGoesRound
  <2> QED
    BY <2>1, <2>2 DEF Cfg, Dockered
<1> QED
  BY <1>1, <1>2, <1>3, ResultStep

\* An onboarding that copied its key and was asked for Docker has put Docker on
\* every node of its configuration, whatever nodes the inventory of earlier
\* runs named.
THEOREM OnboardingHasDocker == Spec => []OnboardedHasDocker
<1>1. Init => TypeOK /\ Called
  BY InitTypes
<1>2. Init => DockerGoesRound /\ OnboardedHasDocker
  <2> SUFFICES ASSUME Init PROVE DockerGoesRound /\ OnboardedHasDocker
    OBVIOUS
  <2>1. run.stage = 0 /\ result.file = NoFile
    BY IdleIsRun, NoResultTyped DEF Init
  <2> QED
    BY <2>1, StagesDiffer DEF DockerGoesRound, OnboardedHasDocker, Onboarded
<1>3. TypeOK /\ Called /\ DockerGoesRound /\ OnboardedHasDocker /\ [Next]_vars
         => (TypeOK /\ Called /\ DockerGoesRound /\ OnboardedHasDocker)'
  BY TypesStep, DockerStep, HasDockerStep
<1> QED
  BY <1>1, <1>2, <1>3, PTL DEF Spec
===============================================================================
