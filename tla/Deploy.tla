--------------------------------- MODULE Deploy ---------------------------------
(***************************************************************************)
(* stackforge deploy (src/internal/stackforge/cli/deploy.go) together with *)
(* the domain pool that it changes: the manifest and the env file are      *)
(* written to a node over SSH, Docker Compose is started on them, and then *)
(* every domain of the application is added to domain-pool.yaml, unless    *)
(* the pool has it, and applied at Cloudflare.                             *)
(*                                                                         *)
(* The steps of the pool are those of DomainPool; what this module adds is *)
(* when a deploy takes them and what their errors do to it.  Nothing of a  *)
(* deploy is recorded on the operator's side: one that failed is run again *)
(* from its first step.                                                    *)
(*                                                                         *)
(* Deploys are numbered in the order in which they begin, and a file on a  *)
(* node is known by the number of the deploy that wrote it.  There is one  *)
(* deploy name, so all deploys to a node share a directory.                *)
(***************************************************************************)
EXTENDS DomainPool, Sequences

CONSTANTS
    Nodes,      \* the nodes of the inventory, in its order: [name, roles, public]
    Requests,   \* deploys: [wanted, candidates, dns, logins, root], see below
    NoNode,     \* no node asked for by name
    MaxDeploys  \* bound: deploys begun

LOCAL Seqs == INSTANCE SequencesExt

\* A request is a manifest, an env file and flags: the node asked for, where
\* domain names are looked for (NoName: nothing usable there), whether DNS is
\* on and there is a token, how many registry logins the env file has, and
\* whether the SSH user is root.
ASSUME NodesAssumption ==
    /\ Nodes \in Seq({Nodes[n] : n \in DOMAIN Nodes})
    /\ \A n \in DOMAIN Nodes : Nodes[n].public \in Targets \cup {NoTarget}
ASSUME RequestsAssumption ==
    \A r \in Requests :
        /\ r.candidates \in Seq(Names \cup {NoName})
        /\ r.dns \in BOOLEAN /\ r.root \in BOOLEAN
        /\ r.logins \in 0 .. 3
\* No name is an ID, with which Find would mistake it: names have a dot.
ASSUME NamesAssumption == (Names \cup {NoName}) \cap Ids = {}
ASSUME DeploysAssumption == MaxDeploys \in Nat /\ {"add", "apply-dns"} \subseteq Commands

VARIABLES
    deploy,   \* the deploy each process runs
    node,     \* what the deployment directory of a node has, and what runs
    begun,    \* number of the deploy begun last
    cameUp,   \* history: the deploys whose docker compose up succeeded
    adder,    \* history: the deploy that added an entry, 0 for domain add
    overtaken \* history: the deploys of whose files a late write changed one

deployVars == <<deploy, node, begun, cameUp, adder, overtaken>>
allVars == <<vars, deployVars>>

NodeIds == 1 .. Len(Nodes)
Texts == 0 .. MaxDeploys + 1

\* No file, nothing running; and a file that is only partly written.
None == 0
Part == MaxDeploys + 1

\* Services that compose started for a deploy, and the texts it read for them.
App(by, manifest, env) == [by |-> by, manifest |-> manifest, env |-> env]

\* What the directory of a node holds, the services that run, what abandoned
\* composes still start, and what abandoned commands still write.
Directory(manifest, env, runs, building, writing) ==
    [manifest |-> manifest, env |-> env, runs |-> runs,
     building |-> building, writing |-> writing]

NoDeploy == [at |-> "none", nr |-> 0, node |-> 0, target |-> NoTarget,
             root |-> TRUE, dns |-> FALSE, names |-> <<>>, todo |-> {},
             logins |-> 0]

Stages == {"none", "check", "manifest", "env", "login", "up", "dns", "add",
           "apply", "done"}

\* names are the candidates of the request, todo the places of those that are
\* still to be found, added and applied.
Deploys ==
    [at : Stages, nr : 0 .. MaxDeploys, node : {0} \cup NodeIds,
     target : Targets \cup {NoTarget}, root : BOOLEAN, dns : BOOLEAN,
     names : Seq(Names \cup {NoName}), todo : SUBSET Nat, logins : 0 .. 3]

Applications == [by : 1 .. MaxDeploys, manifest : Texts, env : Texts]
Writes == [file : {"manifest", "env"}, text : Texts]

Directories ==
    [manifest : Texts, env : Texts, runs : SUBSET Applications,
     building : SUBSET Applications, writing : SUBSET Writes]

\* The node asked for; else the first with the role control-plane, else the
\* first with nomad-server, else the first.  0: there is none.
SelectDeployNode(wanted) ==
    LET planes  == Seqs!SelectInSeq(Nodes, LAMBDA n : "control-plane" \in n.roles)
        server  == Seqs!SelectInSeq(Nodes, LAMBDA n : "nomad-server" \in n.roles)
    IN  IF wanted # NoNode
        THEN Seqs!SelectInSeq(Nodes, LAMBDA n : n.name = wanted)
        ELSE IF planes # 0 THEN planes
        ELSE IF server # 0 THEN server
        ELSE IF Nodes = <<>> THEN 0 ELSE 1

\* The places of the candidates that are a name, of each name the first.
DeployDomains(candidates) ==
    {k \in DOMAIN candidates :
        /\ candidates[k] # NoName
        /\ \A j \in 1 .. k - 1 : candidates[j] # candidates[k]}

------------------------------------------------------------------------------
DeployInit ==
    /\ Init
    /\ deploy = [p \in Procs |-> NoDeploy]
    /\ node = [n \in NodeIds |-> Directory(None, None, {}, {}, {})]
    /\ begun = 0
    /\ cameUp = {}
    /\ adder = [i \in Ids |-> 0]
    /\ overtaken = {}

Free(p) == deploy[p].at \in {"none", "done"} /\ proc[p].at = "idle"

\* deploy: the local files are read, a node is selected, the operator agrees.
BeginDeploy(p, r) ==
    /\ Free(p)
    /\ begun < MaxDeploys
    /\ begun' = begun + 1
    /\ SelectDeployNode(r.wanted) \in NodeIds
    /\ LET n == SelectDeployNode(r.wanted)
       IN  deploy' = [deploy EXCEPT ![p] =
               [at |-> "check", nr |-> begun + 1, node |-> n,
                target |-> Nodes[n].public, root |-> r.root, dns |-> r.dns,
                names |-> r.candidates, todo |-> DeployDomains(r.candidates),
                logins |-> r.logins]]
    /\ UNCHANGED <<vars, node, cameUp, adder, overtaken>>

On(p) == node[deploy[p].node]
To(p, stage) == deploy' = [deploy EXCEPT ![p].at = stage]

\* docker compose version: the deploy goes on, or the node has none.
CheckCompose(p) ==
    /\ deploy[p].at = "check"
    /\ To(p, "manifest")
    /\ UNCHANGED <<vars, node, begun, cameUp, adder, overtaken>>

\* sudo is put before the whole command, of which it runs the first part only:
\* without root the shell cannot write under /opt.
CanWrite(p) == deploy[p].root

\* The directory after a file of it was written.
Written(d, f, text) ==
    Directory(IF f = "manifest" THEN text ELSE d.manifest,
              IF f = "env" THEN text ELSE d.env, d.runs, d.building, d.writing)

WriteManifest(p) ==
    /\ deploy[p].at = "manifest" /\ CanWrite(p)
    /\ node' = [node EXCEPT ![deploy[p].node] = Written(@, "manifest", deploy[p].nr)]
    /\ To(p, "env")
    /\ UNCHANGED <<vars, begun, cameUp, adder, overtaken>>

WriteEnv(p) ==
    /\ deploy[p].at = "env" /\ CanWrite(p)
    /\ node' = [node EXCEPT ![deploy[p].node] = Written(@, "env", deploy[p].nr)]
    /\ To(p, "login")
    /\ UNCHANGED <<vars, begun, cameUp, adder, overtaken>>

\* docker login, one registry after the other.
RegistryLogin(p) ==
    /\ deploy[p].at = "login"
    /\ \/ /\ deploy[p].logins > 0
          /\ deploy' = [deploy EXCEPT ![p].logins = @ - 1]
       \/ /\ deploy[p].logins = 0
          /\ To(p, "up")
    /\ UNCHANGED <<vars, node, begun, cameUp, adder, overtaken>>

\* What compose starts: the manifest and the env file of the directory.
Read(p) == App(deploy[p].nr, On(p).manifest, On(p).env)

\* Compose replaces the services of the manifest; those that only an earlier
\* one has run on (up without --remove-orphans).
Started(runs, app) == {kept \cup {app} : kept \in SUBSET runs}

\* Cut off, it has stopped some and started all, some or none of its own.
CutOff(runs, app) == Started(runs, app) \cup SUBSET runs

\* configureDeployDNS does nothing without a token or domains, and wants a
\* public address of the node.
AfterUp(p) ==
    IF ~deploy[p].dns \/ deploy[p].todo = {} THEN "done"
    ELSE IF deploy[p].target = NoTarget THEN "none" ELSE "dns"

\* docker compose up.
ComposeUp(p) ==
    /\ deploy[p].at = "up"
    /\ \E runs \in Started(On(p).runs, Read(p)) :
          node' = [node EXCEPT ![deploy[p].node].runs = runs]
    /\ cameUp' = cameUp \cup {deploy[p].nr}
    /\ To(p, AfterUp(p))
    /\ UNCHANGED <<vars, begun, adder, overtaken>>

\* Mutant: the error of a remote command is dropped, and the deploy goes on.
FailedGoesOn(p) ==
    To(p, CASE deploy[p].at = "check"    -> "manifest"
            [] deploy[p].at = "manifest" -> "env"
            [] deploy[p].at = "env"      -> "login"
            [] deploy[p].at = "login"    -> "up"
            [] OTHER -> "none")

\* Mutant: a compose that took too long is taken for one that will be through.
FailedTrusts(p) ==
    To(p, IF deploy[p].at = "up" THEN AfterUp(p) ELSE "none")

\* The deploy ends with an error.
Failed(p) == To(p, "none")

\* A write that nobody waits for.
Abandoned(p) == [file |-> deploy[p].at, text |-> deploy[p].nr]

\* A command that fails whatever the network does: a write without root, and
\* compose on a file that is cut.
Hopeless(p) ==
    \/ deploy[p].at = "manifest" /\ ~CanWrite(p)
    \/ deploy[p].at = "up" /\ Part \in {On(p).manifest, On(p).env}

\* A remote command fails, its answer is lost, its time is over, or the process
\* is killed during it; the node is at most sent a signal, and may go on.  A
\* file may be written, partly written, or written later; compose may have
\* started everything or something, or start it later, from what it has read.
RemoteFails(p) ==
    /\ deploy[p].at \in {"check", "manifest", "env", "login", "up"}
    /\ IF Hopeless(p) THEN UNCHANGED faults \/ Fault ELSE Fault
    /\ LET n == deploy[p].node
       IN  \/ UNCHANGED node
           \/ /\ deploy[p].at \in {"manifest", "env"} /\ CanWrite(p)
              /\ \/ \E text \in {deploy[p].nr, Part} :
                       node' = [node EXCEPT ![n] = Written(@, deploy[p].at, text)]
                 \/ node' = [node EXCEPT ![n].writing = @ \cup {Abandoned(p)}]
           \/ /\ deploy[p].at = "up"
              /\ \/ \E runs \in CutOff(On(p).runs, Read(p)) :
                       node' = [node EXCEPT ![n].runs = runs]
                 \/ node' = [node EXCEPT ![n].building = @ \cup {Read(p)}]
    /\ Failed(p)
    /\ UNCHANGED <<file, proc, records, last, entries, served, torn,
                   begun, cameUp, adder, overtaken>>

\* A compose that nobody waits for any more is through.
LateUp(n) ==
    /\ \E app \in node[n].building : \E runs \in Started(node[n].runs, app) :
          node' = [node EXCEPT ![n] = Directory(@.manifest, @.env, runs,
                                                @.building \ {app}, @.writing)]
    /\ UNCHANGED <<vars, deploy, begun, cameUp, adder, overtaken>>

\* The deploys to node n that have written the file, and not yet used it.
Relying(n, f) ==
    {deploy[p].nr : p \in {q \in Procs :
        /\ deploy[q].node = n
        /\ deploy[q].at \in {"login", "up"} \cup (IF f = "manifest" THEN {"env"} ELSE {})}}

\* A write that nobody waits for any more is through, or ends half way.
LateWrite(n) ==
    /\ \E w \in node[n].writing, whole \in BOOLEAN :
          /\ LET d == Written(node[n], w.file, IF whole THEN w.text ELSE Part)
             IN  node' = [node EXCEPT ![n] = [d EXCEPT !.writing = @ \ {w}]]
          /\ overtaken' = overtaken \cup Relying(n, w.file)
    /\ UNCHANGED <<vars, deploy, begun, cameUp, adder>>

\* The place of the domain whose turn it is.
Turn(p) == {k \in deploy[p].todo : \A j \in deploy[p].todo : k <= j}

\* The next domain is looked for in the pool ...
FindDomain(p) ==
    /\ deploy[p].at = "dns" /\ proc[p].at = "idle"
    /\ \E k \in Turn(p) : Found(file, deploy[p].names[k]) # {}
    /\ To(p, "apply")
    /\ UNCHANGED <<vars, node, begun, cameUp, adder, overtaken>>

\* ... and added when it is not found there, or the file cannot be read.
AddDomain(p) ==
    /\ deploy[p].at = "dns" /\ proc[p].at = "idle"
    /\ \E k \in Turn(p) :
         /\ Found(file, deploy[p].names[k]) = {}
         /\ IF file = Unreadable
            THEN Failed(p) /\ UNCHANGED <<vars, adder>>
            ELSE /\ Add(p, deploy[p].names[k], deploy[p].target)
                 /\ adder' = [adder EXCEPT ![last + 1] = deploy[p].nr]
                 /\ To(p, "add")
    /\ UNCHANGED <<node, begun, cameUp, overtaken>>

\* It is applied: the entry found, with the target that one has.
ApplyDomain(p) ==
    /\ deploy[p].at = "apply" /\ proc[p].at = "idle"
    /\ \E k \in Turn(p) :
         IF Found(file, deploy[p].names[k]) = {}
         THEN Failed(p) /\ UNCHANGED vars
         ELSE \E i \in Ids : ApplyDNS(p, deploy[p].names[k], i) /\ UNCHANGED deploy
    /\ UNCHANGED <<node, begun, cameUp, adder, overtaken>>

\* Mutant: the error of apply is dropped.
ReturnsErrorOfAdd(p) ==
    faults' # faults /\ proc'[p].at # "list" /\ deploy[p].at = "add"

\* A command of the pool returns an error when a call or its save failed; a
\* call that is retried is no error.
ReturnsError(p) == faults' # faults /\ proc'[p].at # "list"

\* What a step of a pool command means for the deploy that called it: an error
\* ends it, the end of an add leads to the apply, and the end of an apply to the
\* next domain or to the end.
Continues(p) ==
    \/ /\ deploy[p].at \in {"none", "done"}
       /\ UNCHANGED deploy
    \/ /\ deploy[p].at \in {"add", "apply"} /\ ReturnsError(p)
       /\ Failed(p)
    \/ /\ deploy[p].at \in {"add", "apply"} /\ ~ReturnsError(p)
       /\ proc'[p].at # "idle"
       /\ UNCHANGED deploy
    \/ /\ deploy[p].at = "add" /\ ~ReturnsError(p)
       /\ proc'[p].at = "idle"
       /\ To(p, "apply")
    \/ /\ deploy[p].at = "apply" /\ ~ReturnsError(p)
       /\ proc'[p].at = "idle"
       /\ LET rest == deploy[p].todo \ Turn(p)
          IN  deploy' = [deploy EXCEPT ![p] =
                            [@ EXCEPT !.todo = rest,
                                      !.at = IF rest = {} THEN "done" ELSE "dns"]]

\* A step of the pool command that process p runs.
PoolStep(p) ==
    /\ \/ ApplyNext(p) \/ Zone(p) \/ List(p) \/ CreateRecord(p)
       \/ UpdateRecord(p) \/ CallFails(p) \/ Lookup(p)
       \/ Truncate(p) \/ Write(p) \/ SaveFails(p)
       \/ Crash(p)
    /\ Continues(p)
    /\ UNCHANGED <<node, begun, cameUp, adder, overtaken>>

\* A domain command of its own.
DomainCommand(p) ==
    /\ Free(p)
    /\ \/ \E n \in Names, t \in Targets : Add(p, n, t)
       \/ \E k \in Keys, i \in Ids :
             Remove(p, k, i) \/ ApplyDNS(p, k, i) \/ VerifyDNS(p, k, i)
       \/ ApplyAll(p)
    /\ To(p, "none")
    /\ UNCHANGED <<node, begun, cameUp, adder, overtaken>>

DeployNext ==
    \/ \E p \in Procs :
         \/ \E r \in Requests : BeginDeploy(p, r)
         \/ CheckCompose(p) \/ WriteManifest(p) \/ WriteEnv(p)
         \/ RegistryLogin(p) \/ ComposeUp(p) \/ RemoteFails(p)
         \/ FindDomain(p) \/ AddDomain(p) \/ ApplyDomain(p)
         \/ PoolStep(p) \/ DomainCommand(p)
    \/ \E n \in NodeIds : LateUp(n) \/ LateWrite(n)

DeploySpec == DeployInit /\ [][DeployNext]_allVars

------------------------------------------------------------------------------
(* Properties.                                                             *)

\* Deploys, nodes and the history have their types, and the pool its own.
DeployTypeOK ==
    /\ TypeOK
    /\ deploy \in [Procs -> Deploys]
    /\ node \in [NodeIds -> Directories]
    /\ begun \in 0 .. MaxDeploys
    /\ cameUp \subseteq 1 .. begun
    /\ adder \in [Ids -> 0 .. MaxDeploys]
    /\ overtaken \subseteq 1 .. begun

\* Of deploys run one after the other: whatever failed, was cut off or came
\* through late before, the services of a node were each started by a deploy
\* from its own manifest and its own env file.  Excepted are those of a deploy
\* one of whose files was changed, before compose read it, by a write of an
\* earlier deploy that had been given up and went on at the node.
RunsOneDeploy ==
    \A n \in NodeIds : \A app \in node[n].runs :
        app.by \in overtaken \/ (app.manifest = app.by /\ app.env = app.by)

\* A deploy that ends well with DNS on leaves each of its domains active in the
\* pool, and in the zone with the target of the entry that was applied: the
\* first one of the name, which another command may have added, or disabled.
DeployedIsServed ==
    \A p \in Procs :
        deploy[p].at = "done" /\ deploy[p].dns =>
            \A k \in DeployDomains(deploy[p].names) :
                \E i \in Ids, r \in RecordIds :
                    /\ Finds(file, deploy[p].names[k], i)
                    /\ file[i].status = "active"
                    /\ records[r] = Record(file[i].name, file[i].target)

\* A domain is put into the pool by a deploy, and from there into the zone,
\* only when the application came up: a deploy that failed before leaves the
\* DNS alone.
DomainsFollowApp ==
    \A i \in Ids : adder[i] # 0 => adder[i] \in cameUp
==============================================================================
