------------------------------ MODULE DeployProofs ------------------------------
(***************************************************************************)
(* Proofs about Deploy, for any nodes, requests, names, targets, records,  *)
(* faults and number of deploys.                                           *)
(*                                                                         *)
(* In however many processes commands run: the types, and that a domain is *)
(* entered only for an application that came up (DInv).  Of an operator    *)
(* who runs one command after the other: an application is of one deploy   *)
(* (Unmixed), a name has one record and each record an entry (Alone), an   *)
(* active entry has its record (AllFit), and a deploy that ended well has  *)
(* its domains served (Settled).                                           *)
(***************************************************************************)
EXTENDS Deploy, DomainPoolProofs

(***************************************************************************)
(* Deploys.  What they do to the pool are the steps of its commands, and a *)
(* failed remote command, that counts as a fault.                          *)
(***************************************************************************)
PoolMove(p) ==
    \/ \E n \in Names, t \in Targets : Add(p, n, t)
    \/ \E k \in Keys \cup Names, i \in Ids :
          Remove(p, k, i) \/ ApplyDNS(p, k, i) \/ VerifyDNS(p, k, i)
    \/ ApplyAll(p) \/ ApplyNext(p) \/ Zone(p) \/ List(p) \/ CreateRecord(p)
    \/ UpdateRecord(p) \/ CallFails(p) \/ Lookup(p)
    \/ Truncate(p) \/ Write(p) \/ SaveFails(p) \/ Crash(p)

OtherFault == Fault /\ UNCHANGED <<file, proc, records, last, entries, served, torn>>

Moves == (\E p \in Procs : PoolMove(p)) \/ OtherFault \/ UNCHANGED vars

LEMMA MovesSound ==
    ASSUME IInv, Moves
    PROVE  IInv'
<1>1. CASE UNCHANGED vars
  BY <1>1 DEF vars, IInv, Rest
<1>2. CASE OtherFault
  <2>1. faults' \in 0 .. MaxFaults
    BY <1>2, BoundsAssumption DEF OtherFault, Fault, IInv, Rest
  <2> QED
    BY <1>2, <2>1 DEF OtherFault, IInv, Rest
<1>3. ASSUME NEW p \in Procs, PoolMove(p)
      PROVE  IInv'
  BY <1>3, AddKeeps, RemoveKeeps, FindKeeps, AsksKeep, ListKeeps, PutKeeps,
     LookupKeeps, SaveKeeps DEF PoolMove
<1> QED
  BY <1>1, <1>2, <1>3 DEF Moves

------------------------------------------------------------------------------
(* Their types, and what they have to do with the history.                 *)

LEMMA NoDeployIsDeploy == NoDeploy \in Deploys
BY BoundsAssumption, DeploysAssumption DEF Deploys, Stages, NoDeploy

LEMMA Staged ==
    ASSUME NEW d \in Deploys, NEW stage \in Stages
    PROVE  /\ [d EXCEPT !.at = stage] \in Deploys
           /\ [d EXCEPT !.at = stage].at = stage
           /\ [d EXCEPT !.at = stage].nr = d.nr
           /\ [d EXCEPT !.at = stage].node = d.node
           /\ [d EXCEPT !.at = stage].target = d.target
           /\ [d EXCEPT !.at = stage].names = d.names
           /\ [d EXCEPT !.at = stage].todo = d.todo
           /\ [d EXCEPT !.at = stage].dns = d.dns
BY DEF Deploys

LEMMA DirectoryType ==
    ASSUME NEW manifest \in Texts, NEW env \in Texts,
           NEW runs \in SUBSET Applications, NEW building \in SUBSET Applications,
           NEW writing \in SUBSET Writes
    PROVE  Directory(manifest, env, runs, building, writing) \in Directories
BY DEF Directory, Directories

LEMMA DirectoryFields ==
    ASSUME NEW d \in Directories
    PROVE  /\ d.manifest \in Texts /\ d.env \in Texts
           /\ d.runs \in SUBSET Applications /\ d.building \in SUBSET Applications
           /\ d.writing \in SUBSET Writes
           /\ d = Directory(d.manifest, d.env, d.runs, d.building, d.writing)
BY DEF Directory, Directories

\* A file of a directory is written.
LEMMA FileWritten ==
    ASSUME NEW d \in Directories, NEW f \in {"manifest", "env"}, NEW text \in Texts
    PROVE  /\ Written(d, f, text) \in Directories
           /\ Written(d, f, text).manifest = IF f = "manifest" THEN text ELSE d.manifest
           /\ Written(d, f, text).env = IF f = "env" THEN text ELSE d.env
           /\ Written(d, f, text).runs = d.runs
           /\ Written(d, f, text).building = d.building
           /\ Written(d, f, text).writing = d.writing
<1>1. /\ d.manifest \in Texts /\ d.env \in Texts
      /\ d.runs \in SUBSET Applications /\ d.building \in SUBSET Applications
      /\ d.writing \in SUBSET Writes
  BY DirectoryFields
<1> QED
  BY <1>1, DirectoryType DEF Written, Directory

\* What runs, is being started or is still to be written changes.
LEMMA DirectoryChanged ==
    ASSUME NEW d \in Directories
    PROVE  /\ \A x : [d EXCEPT !.runs = x] =
                     Directory(d.manifest, d.env, x, d.building, d.writing)
           /\ \A x : [d EXCEPT !.building = x] =
                     Directory(d.manifest, d.env, d.runs, x, d.writing)
           /\ \A x : [d EXCEPT !.writing = x] =
                     Directory(d.manifest, d.env, d.runs, d.building, x)
BY DEF Directory, Directories

DTypes ==
    /\ deploy \in [Procs -> Deploys]
    /\ node \in [NodeIds -> Directories]
    /\ begun \in 0 .. MaxDeploys
    /\ cameUp \subseteq 1 .. begun
    /\ adder \in [Ids -> 0 .. MaxDeploys]
    /\ overtaken \subseteq 1 .. begun

\* A deploy that began has its number and a node; one that has come to its
\* domains came up, and has a target for them; and it turns to its own domains.
Sound(d, b, up) ==
    /\ d.at # "none" => d.nr \in 1 .. b /\ d.node \in NodeIds
    /\ d.at \in {"dns", "add", "apply"} => d.target # NoTarget /\ d.nr \in up
    /\ d.todo \subseteq DeployDomains(d.names)

Deploying == \A p \in Procs : Sound(deploy[p], begun, cameUp)

DInv == IInv /\ DTypes /\ Deploying /\ DomainsFollowApp

LEMMA SoundStage ==
    ASSUME NEW d \in Deploys, NEW b \in Nat, NEW up, Sound(d, b, up),
           NEW later, up \subseteq later, NEW stage \in Stages,
           stage # "none" => d.at # "none",
           stage \in {"dns", "add", "apply"} => d.target # NoTarget /\ d.nr \in later
    PROVE  Sound([d EXCEPT !.at = stage], b, later)
BY Staged DEF Sound

LEMMA SoundLater ==
    ASSUME NEW d \in Deploys, NEW b \in Nat, NEW up, Sound(d, b, up),
           NEW c \in Nat, b <= c, NEW later, up \subseteq later
    PROVE  Sound(d, c, later)
<1>1. 1 .. b \subseteq 1 .. c
  OBVIOUS
<1> QED
  BY <1>1 DEF Sound

\* A process takes a step to a sound deploy.
LEMMA OneDeploys ==
    ASSUME DTypes, Deploying, NEW p \in Procs, NEW d \in Deploys,
           NEW c \in Nat, begun <= c, NEW later, cameUp \subseteq later,
           Sound(d, c, later)
    PROVE  /\ [deploy EXCEPT ![p] = d] \in [Procs -> Deploys]
           /\ \A q \in Procs : Sound([deploy EXCEPT ![p] = d][q], c, later)
<1>1. begun \in Nat /\ deploy \in [Procs -> Deploys]
  BY DeploysAssumption DEF DTypes
<1>2. \A q \in Procs : Sound(deploy[q], c, later)
  BY <1>1, SoundLater DEF Deploying
<1> QED
  BY <1>1, <1>2

LEMMA ToKeeps ==
    ASSUME DTypes, Deploying, NEW p \in Procs, NEW stage \in Stages, To(p, stage),
           NEW later, cameUp \subseteq later,
           stage # "none" => deploy[p].at # "none",
           stage \in {"dns", "add", "apply"} =>
              deploy[p].target # NoTarget /\ deploy[p].nr \in later
    PROVE  /\ deploy' \in [Procs -> Deploys]
           /\ \A q \in Procs : Sound(deploy'[q], begun, later)
<1> DEFINE d == [deploy[p] EXCEPT !.at = stage]
<1>1. begun \in Nat /\ deploy[p] \in Deploys /\ Sound(deploy[p], begun, cameUp)
  BY DeploysAssumption DEF DTypes, Deploying
<1>2. d \in Deploys
  BY <1>1, Staged
<1>3. Sound(d, begun, later)
  BY <1>1, SoundStage
<1>4. deploy' = [deploy EXCEPT ![p] = d]
  BY DEF To
<1> HIDE DEF d
<1> QED
  BY <1>1, <1>2, <1>3, <1>4, OneDeploys

\* The domains a deploy turns to are names.
LEMMA TurnIsName ==
    ASSUME DTypes, Deploying, NEW p \in Procs, NEW k \in Turn(p)
    PROVE  deploy[p].names[k] \in Names
<1>1. deploy[p].names \in Seq(Names \cup {NoName})
  BY DEF DTypes, Deploys
<1>2. k \in DeployDomains(deploy[p].names)
  BY DEF Deploying, Sound, Turn
<1>3. k \in DOMAIN deploy[p].names /\ deploy[p].names[k] # NoName
  BY <1>2 DEF DeployDomains
<1> QED
  BY <1>1, <1>3

------------------------------------------------------------------------------
(* Each step keeps the types and the soundness of deploys.                 *)

DKept == DTypes' /\ Deploying' /\ DomainsFollowApp'

\* What a deploy may write, and what compose reads.
LEMMA TextTypes ==
    ASSUME DTypes, NEW p \in Procs, deploy[p].nr \in 1 .. begun,
           deploy[p].node \in NodeIds
    PROVE  /\ deploy[p] \in Deploys /\ deploy[p].nr \in Texts /\ Part \in Texts
           /\ On(p) \in Directories /\ Read(p) \in Applications
           /\ deploy[p].at \in {"manifest", "env"} => Abandoned(p) \in Writes
<1>1. /\ deploy[p] \in Deploys /\ deploy[p].nr \in 1 .. MaxDeploys
  BY DeploysAssumption DEF DTypes
<1>2. deploy[p].nr \in Texts /\ Part \in Texts
  BY <1>1, DeploysAssumption DEF Texts, Part
<1>3. On(p) \in Directories
  BY DEF DTypes, On
<1>4. On(p).manifest \in Texts /\ On(p).env \in Texts
  BY <1>3, DirectoryFields
<1>5. Read(p) \in Applications
  BY <1>1, <1>4 DEF Read, App, Applications
<1>6. deploy[p].at \in {"manifest", "env"} => Abandoned(p) \in Writes
  BY <1>2 DEF Abandoned, Writes
<1> QED
  BY <1>1, <1>2, <1>3, <1>5, <1>6

\* What starting services leaves running.
LEMMA StartedRuns ==
    ASSUME NEW runs \in SUBSET Applications, NEW app \in Applications
    PROVE  \A left \in Started(runs, app) \cup CutOff(runs, app) :
              left \in SUBSET Applications /\ left \subseteq runs \cup {app}
BY DEF Started, CutOff

\* What a remote step of a deploy does to its node: services run, or will, that
\* did before, or that compose starts now; and a write that ended well is there.
LEMMA RemoteChanges ==
    ASSUME DTypes, NEW p \in Procs, deploy[p].nr \in 1 .. begun,
           deploy[p].node \in NodeIds,
           \/ CheckCompose(p) \/ WriteManifest(p) \/ WriteEnv(p)
           \/ RegistryLogin(p) \/ ComposeUp(p) \/ RemoteFails(p)
    PROVE  \E d \in Directories :
              /\ node' = [node EXCEPT ![deploy[p].node] = d]
              /\ d.runs \cup d.building \subseteq
                    On(p).runs \cup On(p).building
                      \cup (IF deploy[p].at = "up" THEN {Read(p)} ELSE {})
              /\ WriteManifest(p) => d.manifest = deploy[p].nr
              /\ WriteEnv(p) => d.env = deploy[p].nr /\ d.manifest = On(p).manifest
<1> DEFINE n == deploy[p].node
           dir == node[n]
           nr == deploy[p].nr
           Fits(d) == /\ d \in Directories
                      /\ d.runs \cup d.building \subseteq
                           dir.runs \cup dir.building
                              \cup (IF deploy[p].at = "up" THEN {Read(p)} ELSE {})
<1>1. /\ nr \in Texts /\ Part \in Texts /\ dir \in Directories
      /\ Read(p) \in Applications
      /\ deploy[p].at \in {"manifest", "env"} => Abandoned(p) \in Writes
      /\ On(p) = dir
  BY TextTypes DEF On
<1>2. /\ dir.manifest \in Texts /\ dir.env \in Texts
      /\ dir.runs \in SUBSET Applications /\ dir.building \in SUBSET Applications
      /\ dir.writing \in SUBSET Writes
  BY <1>1, DirectoryFields
<1>3. node = [node EXCEPT ![n] = dir] /\ Fits(dir)
  BY <1>1 DEF DTypes
<1>4. ASSUME NEW f \in {"manifest", "env"}, NEW text \in Texts
      PROVE  Fits(Written(dir, f, text))
  <2> DEFINE e == Written(dir, f, text)
  <2>1. e \in Directories /\ e.runs = dir.runs /\ e.building = dir.building
    BY <1>1, FileWritten
  <2> HIDE DEF e
  <2>2. Fits(e)
    BY <2>1
  <2> QED
    BY <2>2 DEF e
<1>5. ASSUME NEW runs \in Started(dir.runs, Read(p)) \cup CutOff(dir.runs, Read(p)),
             deploy[p].at = "up"
      PROVE  Fits([dir EXCEPT !.runs = runs])
  <2>1. runs \in SUBSET Applications /\ runs \subseteq dir.runs \cup {Read(p)}
    BY <1>1, <1>2, StartedRuns
  <2>2. [dir EXCEPT !.runs = runs]
          = Directory(dir.manifest, dir.env, runs, dir.building, dir.writing)
    BY <1>1, DirectoryChanged
  <2>3. Directory(dir.manifest, dir.env, runs, dir.building, dir.writing) \in Directories
    BY <1>2, <2>1, DirectoryType
  <2> QED
    BY <1>5, <2>1, <2>2, <2>3 DEF Directory
<1>6. ASSUME deploy[p].at = "up"
      PROVE  Fits([dir EXCEPT !.building = dir.building \cup {Read(p)}])
  <2>1. dir.building \cup {Read(p)} \in SUBSET Applications
    BY <1>1, <1>2
  <2>2. [dir EXCEPT !.building = dir.building \cup {Read(p)}]
          = Directory(dir.manifest, dir.env, dir.runs, dir.building \cup {Read(p)},
                      dir.writing)
    BY <1>1, DirectoryChanged
  <2>3. Directory(dir.manifest, dir.env, dir.runs, dir.building \cup {Read(p)},
                  dir.writing) \in Directories
    BY <1>2, <2>1, DirectoryType
  <2> QED
    BY <1>6, <2>2, <2>3 DEF Directory
<1>7. ASSUME deploy[p].at \in {"manifest", "env"}
      PROVE  Fits([dir EXCEPT !.writing = dir.writing \cup {Abandoned(p)}])
  <2>1. dir.writing \cup {Abandoned(p)} \in SUBSET Writes
    BY <1>1, <1>2, <1>7
  <2>2. [dir EXCEPT !.writing = dir.writing \cup {Abandoned(p)}]
          = Directory(dir.manifest, dir.env, dir.runs, dir.building,
                      dir.writing \cup {Abandoned(p)})
    BY <1>1, DirectoryChanged
  <2>3. Directory(dir.manifest, dir.env, dir.runs, dir.building,
                  dir.writing \cup {Abandoned(p)}) \in Directories
    BY <1>2, <2>1, DirectoryType
  <2> QED
    BY <2>2, <2>3 DEF Directory
<1>8. CASE CheckCompose(p) \/ RegistryLogin(p)
  <2>1. node' = [node EXCEPT ![n] = dir] /\ deploy[p].at \in {"check", "login"}
    BY <1>3, <1>8 DEF CheckCompose, RegistryLogin
  <2> QED
    BY <1>1, <1>3, <2>1 DEF WriteManifest, WriteEnv
<1>9. CASE WriteManifest(p)
  <2>1. /\ node' = [node EXCEPT ![n] = Written(dir, "manifest", nr)]
        /\ deploy[p].at = "manifest"
    BY <1>9 DEF WriteManifest
  <2>2. Written(dir, "manifest", nr).manifest = nr
    BY <1>1, FileWritten
  <2> QED
    BY <1>1, <1>4, <2>1, <2>2 DEF WriteEnv
<1>10. CASE WriteEnv(p)
  <2>1. /\ node' = [node EXCEPT ![n] = Written(dir, "env", nr)]
        /\ deploy[p].at = "env"
    BY <1>10 DEF WriteEnv
  <2>2. /\ Written(dir, "env", nr).env = nr
        /\ Written(dir, "env", nr).manifest = dir.manifest
    BY <1>1, FileWritten
  <2> QED
    BY <1>1, <1>4, <2>1, <2>2 DEF WriteManifest
<1>11. CASE ComposeUp(p)
  <2>1. PICK runs \in Started(dir.runs, Read(p)) :
           node' = [node EXCEPT ![n] = [dir EXCEPT !.runs = runs]]
    BY <1>1, <1>11 DEF ComposeUp
  <2>2. deploy[p].at = "up"
    BY <1>11 DEF ComposeUp
  <2> QED
    BY <1>1, <1>5, <2>1, <2>2 DEF WriteManifest, WriteEnv
<1>12. CASE RemoteFails(p) /\ ~WriteManifest(p) /\ ~WriteEnv(p)
  <2>1. \/ node' = [node EXCEPT ![n] = dir]
        \/ /\ deploy[p].at \in {"manifest", "env"}
           /\ \/ \E text \in {nr, Part} :
                    node' = [node EXCEPT ![n] = Written(dir, deploy[p].at, text)]
              \/ node' = [node EXCEPT ![n] =
                    [dir EXCEPT !.writing = dir.writing \cup {Abandoned(p)}]]
        \/ /\ deploy[p].at = "up"
           /\ \/ \E runs \in CutOff(dir.runs, Read(p)) :
                    node' = [node EXCEPT ![n] = [dir EXCEPT !.runs = runs]]
              \/ node' = [node EXCEPT ![n] =
                    [dir EXCEPT !.building = dir.building \cup {Read(p)}]]
    BY <1>1, <1>3, <1>12 DEF RemoteFails
  <2>2. \E d : node' = [node EXCEPT ![n] = d] /\ Fits(d)
    <3> HIDE DEF Fits
    <3>1. CASE node' = [node EXCEPT ![n] = dir]
      BY <1>3, <3>1
    <3>2. ASSUME deploy[p].at \in {"manifest", "env"}, NEW text \in {nr, Part},
                 node' = [node EXCEPT ![n] = Written(dir, deploy[p].at, text)]
          PROVE  \E d : node' = [node EXCEPT ![n] = d] /\ Fits(d)
      BY <1>1, <1>4, <3>2
    <3>3. ASSUME deploy[p].at \in {"manifest", "env"},
                 node' = [node EXCEPT ![n] =
                    [dir EXCEPT !.writing = dir.writing \cup {Abandoned(p)}]]
          PROVE  \E d : node' = [node EXCEPT ![n] = d] /\ Fits(d)
      BY <1>7, <3>3
    <3>4. ASSUME deploy[p].at = "up", NEW runs \in CutOff(dir.runs, Read(p)),
                 node' = [node EXCEPT ![n] = [dir EXCEPT !.runs = runs]]
          PROVE  \E d : node' = [node EXCEPT ![n] = d] /\ Fits(d)
      BY <1>5, <3>4
    <3>5. ASSUME deploy[p].at = "up",
                 node' = [node EXCEPT ![n] =
                    [dir EXCEPT !.building = dir.building \cup {Read(p)}]]
          PROVE  \E d : node' = [node EXCEPT ![n] = d] /\ Fits(d)
      BY <1>6, <3>5
    <3> QED
      BY <2>1, <3>1, <3>2, <3>3, <3>4, <3>5
  <2> QED
    BY <1>1, <1>12, <2>2
<1>13. CASE RemoteFails(p) /\ (WriteManifest(p) \/ WriteEnv(p))
  BY <1>9, <1>10, <1>13
<1> QED
  BY <1>8, <1>9, <1>10, <1>11, <1>12, <1>13

LEMMA RemoteKeeps ==
    ASSUME DInv, NEW p \in Procs,
           \/ CheckCompose(p) \/ WriteManifest(p) \/ WriteEnv(p)
           \/ RegistryLogin(p) \/ ComposeUp(p) \/ RemoteFails(p)
    PROVE  DKept
<1> USE DEF DInv
<1>1. deploy[p].at # "none" /\ deploy[p].at # "done"
  BY DEF CheckCompose, WriteManifest, WriteEnv, RegistryLogin, ComposeUp, RemoteFails
<1>2. deploy[p].nr \in 1 .. begun /\ deploy[p].node \in NodeIds
  BY <1>1 DEF Deploying, Sound
<1>3. begun' = begun /\ adder' = adder /\ overtaken' = overtaken
  BY DEF CheckCompose, WriteManifest, WriteEnv, RegistryLogin, ComposeUp, RemoteFails
<1>4. cameUp \subseteq cameUp' /\ cameUp' \subseteq 1 .. begun
  BY <1>2 DEF CheckCompose, WriteManifest, WriteEnv, RegistryLogin, ComposeUp,
              RemoteFails, DTypes
<1>5. DomainsFollowApp'
  BY <1>3, <1>4 DEF DomainsFollowApp
<1>6. node' \in [NodeIds -> Directories]
  <2>1. DTypes
    OBVIOUS
  <2>2. \E d \in Directories : node' = [node EXCEPT ![deploy[p].node] = d]
    BY <1>2, <2>1, RemoteChanges
  <2> QED
    BY <2>1, <2>2 DEF DTypes
<1>7. deploy' \in [Procs -> Deploys] /\ \A q \in Procs : Sound(deploy'[q], begun, cameUp')
  <2>1. CASE \/ CheckCompose(p) \/ WriteManifest(p) \/ WriteEnv(p)
             \/ (RegistryLogin(p) /\ To(p, "up")) \/ RemoteFails(p)
    <3>1. \E stage \in {"manifest", "env", "login", "up", "none"} : To(p, stage)
      BY <2>1 DEF CheckCompose, WriteManifest, WriteEnv, RemoteFails, Failed
    <3>2. PICK stage \in {"manifest", "env", "login", "up", "none"} : To(p, stage)
      BY <3>1
    <3>3. stage \in Stages /\ stage \notin {"dns", "add", "apply"}
      BY DEF Stages
    <3> QED
      BY <1>1, <1>4, <3>2, <3>3, ToKeeps
  <2>2. CASE ComposeUp(p)
    <3>1. To(p, AfterUp(p)) /\ deploy[p].nr \in cameUp'
      BY <2>2 DEF ComposeUp
    <3>2. AfterUp(p) \in {"done", "none", "dns"}
          /\ (AfterUp(p) = "dns" => deploy[p].target # NoTarget)
      BY DEF AfterUp
    <3>3. AfterUp(p) \in Stages /\ AfterUp(p) \notin {"add", "apply"}
      BY <3>2 DEF Stages
    <3> QED
      BY <1>1, <1>4, <3>1, <3>2, <3>3, ToKeeps
  <2>3. CASE RegistryLogin(p) /\ deploy[p].logins > 0
    <3> DEFINE d == [deploy[p] EXCEPT !.logins = deploy[p].logins - 1]
    <3>1. deploy[p] \in Deploys /\ deploy[p].logins \in 0 .. 3
      BY DEF DTypes, Deploys
    <3>2. deploy[p].logins - 1 \in 0 .. 3
      BY <2>3, <3>1
    <3>3. d \in Deploys /\ d.at = deploy[p].at /\ d.nr = deploy[p].nr
          /\ d.node = deploy[p].node /\ d.target = deploy[p].target
          /\ d.names = deploy[p].names /\ d.todo = deploy[p].todo
      BY <3>1, <3>2 DEF Deploys
    <3>4. deploy' = [deploy EXCEPT ![p] = d] /\ cameUp' = cameUp
      BY <2>3 DEF RegistryLogin
    <3> HIDE DEF d
    <3>5. Sound(d, begun, cameUp')
      BY <3>3, <3>4 DEF Deploying, Sound
    <3>6. begun \in Nat
      BY DeploysAssumption DEF DTypes
    <3> QED
      BY <3>3, <3>4, <3>5, <3>6, OneDeploys
  <2> QED
    BY <2>1, <2>2, <2>3 DEF RegistryLogin
<1> QED
  BY <1>3, <1>4, <1>5, <1>6, <1>7 DEF DKept, DTypes, Deploying

\* What a command that was given up does to its node when it is through.
LEMMA LateChanges ==
    ASSUME DTypes, NEW n \in NodeIds, LateUp(n) \/ LateWrite(n)
    PROVE  \E d \in Directories :
              /\ node' = [node EXCEPT ![n] = d]
              /\ d.runs \cup d.building \subseteq node[n].runs \cup node[n].building
              /\ \/ overtaken' = overtaken /\ d.manifest = node[n].manifest
                                          /\ d.env = node[n].env
                 \/ overtaken' = overtaken \cup Relying(n, "env")
                       /\ d.manifest = node[n].manifest
                 \/ overtaken' = overtaken \cup Relying(n, "manifest")
                       /\ d.env = node[n].env
<1> DEFINE dir == node[n]
<1>1. dir \in Directories
  BY DEF DTypes
<1>2. /\ dir.manifest \in Texts /\ dir.env \in Texts
      /\ dir.runs \in SUBSET Applications /\ dir.building \in SUBSET Applications
      /\ dir.writing \in SUBSET Writes
  BY <1>1, DirectoryFields
<1>3. CASE LateUp(n)
  <2>a. PICK app \in dir.building : \E runs \in Started(dir.runs, app) :
           node' = [node EXCEPT ![n] = Directory(dir.manifest, dir.env, runs,
                                                 dir.building \ {app}, dir.writing)]
    BY <1>3 DEF LateUp
  <2>1. PICK runs \in Started(dir.runs, app) :
           node' = [node EXCEPT ![n] = Directory(dir.manifest, dir.env, runs,
                                                 dir.building \ {app}, dir.writing)]
    BY <2>a
  <2>2. runs \in SUBSET Applications /\ runs \subseteq dir.runs \cup {app}
    BY <1>2, StartedRuns
  <2> DEFINE d == Directory(dir.manifest, dir.env, runs, dir.building \ {app},
                            dir.writing)
  <2>3. d \in Directories
    BY <1>2, <2>2, DirectoryType
  <2>4. /\ d.manifest = dir.manifest /\ d.env = dir.env
        /\ d.runs = runs /\ d.building = dir.building \ {app}
    BY DEF Directory
  <2>5. overtaken' = overtaken
    BY <1>3 DEF LateUp
  <2> HIDE DEF d
  <2> QED
    BY <2>1, <2>2, <2>3, <2>4, <2>5 DEF d
<1>4. CASE LateWrite(n)
  <2>1. PICK w \in dir.writing, whole \in BOOLEAN :
           /\ node' = [node EXCEPT ![n] =
                 [Written(dir, w.file, IF whole THEN w.text ELSE Part)
                     EXCEPT !.writing = dir.writing \ {w}]]
           /\ overtaken' = overtaken \cup Relying(n, w.file)
    <3>1. \A w, whole : Written(dir, w.file, IF whole THEN w.text ELSE Part).writing
                          = dir.writing
      BY DEF Written, Directory
    <3> QED
      BY <1>4, <3>1 DEF LateWrite
  <2> DEFINE text == IF whole THEN w.text ELSE Part
             e == Written(dir, w.file, text)
             d == [e EXCEPT !.writing = dir.writing \ {w}]
  <2>2. w.file \in {"manifest", "env"} /\ text \in Texts
    <3>1. w \in Writes
      BY <1>2
    <3>2. Part \in Texts
      BY DeploysAssumption DEF Part, Texts
    <3> QED
      BY <3>1, <3>2 DEF Writes
  <2> HIDE DEF text
  <2>3. /\ e \in Directories
        /\ e.manifest = IF w.file = "manifest" THEN text ELSE dir.manifest
        /\ e.env = IF w.file = "env" THEN text ELSE dir.env
        /\ e.runs = dir.runs /\ e.building = dir.building
    BY <1>1, <2>2, FileWritten
  <2> HIDE DEF e
  <2>4. d = Directory(e.manifest, e.env, e.runs, e.building, dir.writing \ {w})
    BY <2>3, DirectoryChanged
  <2>5. d \in Directories
    <3>1. dir.writing \ {w} \in SUBSET Writes
      BY <1>2
    <3>2. /\ e.manifest \in Texts /\ e.env \in Texts
          /\ e.runs \in SUBSET Applications /\ e.building \in SUBSET Applications
      BY <2>3, DirectoryFields
    <3> QED
      BY <2>4, <3>1, <3>2, DirectoryType
  <2>6. /\ d.manifest = e.manifest /\ d.env = e.env
        /\ d.runs = dir.runs /\ d.building = dir.building
    BY <2>3, <2>4 DEF Directory
  <2>7. node' = [node EXCEPT ![n] = d]
    BY <2>1 DEF e, text
  <2> HIDE DEF d
  <2> QED
    BY <2>1, <2>2, <2>3, <2>5, <2>6, <2>7
<1> QED
  BY <1>3, <1>4

LEMMA LateKeeps ==
    ASSUME DInv, NEW n \in NodeIds, LateUp(n) \/ LateWrite(n)
    PROVE  DKept
<1> USE DEF DInv
<1>1. node' \in [NodeIds -> Directories]
  <2>1. DTypes
    OBVIOUS
  <2>2. \E d \in Directories : node' = [node EXCEPT ![n] = d]
    BY <2>1, LateChanges
  <2> QED
    BY <2>1, <2>2 DEF DTypes
<1>2. UNCHANGED <<deploy, begun, cameUp, adder>>
  BY DEF LateUp, LateWrite
<1>3. overtaken' \subseteq 1 .. begun
  <2>1. \A f : Relying(n, f) \subseteq 1 .. begun
    BY DEF Relying, Deploying, Sound
  <2>2. \E f : overtaken' \subseteq overtaken \cup Relying(n, f)
    BY DEF LateUp, LateWrite
  <2> QED
    BY <2>1, <2>2 DEF DTypes
<1> QED
  BY <1>1, <1>2, <1>3 DEF DKept, DTypes, Deploying, DomainsFollowApp

LEMMA BeginKeeps ==
    ASSUME DInv, NEW p \in Procs, NEW r \in Requests, BeginDeploy(p, r)
    PROVE  DKept
<1> USE DEF DInv
<1> DEFINE n == SelectDeployNode(r.wanted)
           d == [at |-> "check", nr |-> begun + 1, node |-> n,
                 target |-> Nodes[n].public, root |-> r.root, dns |-> r.dns,
                 names |-> r.candidates, todo |-> DeployDomains(r.candidates),
                 logins |-> r.logins]
<1>1. /\ n \in NodeIds /\ deploy' = [deploy EXCEPT ![p] = d]
      /\ begun' = begun + 1 /\ begun < MaxDeploys
      /\ UNCHANGED <<node, cameUp, adder, overtaken>>
  BY DEF BeginDeploy
<1> HIDE DEF n
<1>2. begun \in Nat /\ MaxDeploys \in Nat
  BY DeploysAssumption DEF DTypes
<1>3. begun' \in 0 .. MaxDeploys /\ begun' \in 1 .. begun' /\ begun <= begun'
      /\ 1 .. begun \subseteq 1 .. begun'
  BY <1>1, <1>2
<1>4. Nodes[n].public \in Targets \cup {NoTarget}
  BY <1>1, NodesAssumption DEF NodeIds
<1>5. /\ r.candidates \in Seq(Names \cup {NoName})
      /\ r.dns \in BOOLEAN /\ r.root \in BOOLEAN /\ r.logins \in 0 .. 3
  BY RequestsAssumption
<1>6. DeployDomains(r.candidates) \in SUBSET Nat
  BY <1>5 DEF DeployDomains
<1>7. d \in Deploys
  <2>1. "check" \in Stages
    BY DEF Stages
  <2>2. n \in {0} \cup NodeIds /\ begun + 1 \in 0 .. MaxDeploys
    BY <1>1, <1>2, <1>3
  <2> QED
    BY <1>4, <1>5, <1>6, <2>1, <2>2 DEF Deploys
<1>8. /\ d.at = "check" /\ d.nr = begun' /\ d.node = n
      /\ d.names = r.candidates /\ d.todo = DeployDomains(r.candidates)
  BY <1>1
<1> HIDE DEF d
<1>9. Sound(d, begun', cameUp')
  BY <1>1, <1>3, <1>8 DEF Sound
<1>10. begun' \in Nat
  BY <1>2, <1>1
<1>11. deploy' \in [Procs -> Deploys] /\ \A q \in Procs : Sound(deploy'[q], begun', cameUp')
  BY <1>1, <1>3, <1>7, <1>9, <1>10, OneDeploys
<1> QED
  BY <1>1, <1>3, <1>11 DEF DKept, DTypes, Deploying, DomainsFollowApp

\* What the pool does under a deploy: it turns to its next domain, is over, or
\* goes on as it was.
LEMMA ContinuesKeeps ==
    ASSUME DTypes, Deploying, NEW p \in Procs, Continues(p)
    PROVE  /\ deploy' \in [Procs -> Deploys]
           /\ \A q \in Procs : Sound(deploy'[q], begun, cameUp)
<1>1. CASE UNCHANGED deploy
  BY <1>1 DEF DTypes, Deploying
<1>2. CASE Failed(p)
  <2>1. To(p, "none") /\ "none" \in Stages
    BY <1>2 DEF Failed, Stages
  <2> QED
    BY <2>1, ToKeeps
<1>3. CASE deploy[p].at = "add" /\ To(p, "apply")
  <2>1. "apply" \in Stages /\ deploy[p].target # NoTarget /\ deploy[p].nr \in cameUp
    BY <1>3 DEF Stages, Deploying, Sound
  <2> QED
    BY <1>3, <2>1, ToKeeps
<1>4. ASSUME NEW stage \in {"done", "dns"}, deploy[p].at = "apply",
             deploy' = [deploy EXCEPT ![p] =
                           [@ EXCEPT !.todo = deploy[p].todo \ Turn(p), !.at = stage]]
      PROVE  /\ deploy' \in [Procs -> Deploys]
             /\ \A q \in Procs : Sound(deploy'[q], begun, cameUp)
  <2> DEFINE d == [deploy[p] EXCEPT !.todo = deploy[p].todo \ Turn(p), !.at = stage]
  <2>1. deploy[p] \in Deploys /\ stage \in Stages
    BY DEF DTypes, Stages
  <2>2. deploy[p].todo \ Turn(p) \in SUBSET Nat
    BY <2>1 DEF Deploys
  <2>3. /\ d \in Deploys /\ d.at = stage /\ d.nr = deploy[p].nr
        /\ d.node = deploy[p].node /\ d.target = deploy[p].target
        /\ d.names = deploy[p].names /\ d.todo \subseteq deploy[p].todo
    BY <2>1, <2>2 DEF Deploys
  <2>4. deploy' = [deploy EXCEPT ![p] = d]
    BY <1>4
  <2> HIDE DEF d
  <2>5. Sound(d, begun, cameUp)
    BY <1>4, <2>3 DEF Deploying, Sound
  <2>6. begun \in Nat
    BY DeploysAssumption DEF DTypes
  <2> QED
    BY <2>3, <2>4, <2>5, <2>6, OneDeploys
<1>5. ASSUME deploy[p].at = "apply",
             deploy' = [deploy EXCEPT ![p] =
                           [@ EXCEPT !.todo = deploy[p].todo \ Turn(p),
                                     !.at = IF deploy[p].todo \ Turn(p) = {}
                                            THEN "done" ELSE "dns"]]
      PROVE  /\ deploy' \in [Procs -> Deploys]
             /\ \A q \in Procs : Sound(deploy'[q], begun, cameUp)
  BY <1>4, <1>5
<1> QED
  BY <1>1, <1>2, <1>3, <1>5 DEF Continues

LEMMA DomainsKeep ==
    ASSUME DInv, NEW p \in Procs,
           \/ FindDomain(p) \/ AddDomain(p) \/ ApplyDomain(p)
           \/ PoolStep(p) \/ DomainCommand(p)
    PROVE  DKept
<1> USE DEF DInv
<1>1. UNCHANGED <<node, begun, cameUp, overtaken>>
  BY DEF FindDomain, AddDomain, ApplyDomain, PoolStep, DomainCommand
<1>2. /\ deploy' \in [Procs -> Deploys]
      /\ \A q \in Procs : Sound(deploy'[q], begun, cameUp)
  <2>1. CASE PoolStep(p)
    BY <2>1, ContinuesKeeps DEF PoolStep
  <2>2. CASE DomainCommand(p)
    <3>1. To(p, "none") /\ "none" \in Stages
      BY <2>2 DEF DomainCommand, Stages
    <3> QED
      BY <3>1, ToKeeps
  <2>3. CASE FindDomain(p) \/ AddDomain(p) \/ ApplyDomain(p)
    <3>1. deploy[p].at \in {"dns", "apply"}
      BY <2>3 DEF FindDomain, AddDomain, ApplyDomain
    <3>2. deploy[p].target # NoTarget /\ deploy[p].nr \in cameUp
      BY <3>1 DEF Deploying, Sound
    <3>3. UNCHANGED deploy \/ \E stage \in {"none", "add", "apply"} : To(p, stage)
      BY <2>3 DEF FindDomain, AddDomain, ApplyDomain, Failed
    <3>4. {"none", "add", "apply"} \subseteq Stages
      BY DEF Stages
    <3>5. CASE UNCHANGED deploy
      BY <3>5 DEF DTypes, Deploying
    <3>6. ASSUME NEW stage \in {"none", "add", "apply"}, To(p, stage)
          PROVE  /\ deploy' \in [Procs -> Deploys]
                 /\ \A q \in Procs : Sound(deploy'[q], begun, cameUp)
      BY <3>1, <3>2, <3>4, <3>6, ToKeeps
    <3> QED
      BY <3>3, <3>5, <3>6
  <2> QED
    BY <2>1, <2>2, <2>3
<1>3. adder' \in [Ids -> 0 .. MaxDeploys] /\ DomainsFollowApp'
  <2>1. CASE UNCHANGED adder
    BY <1>1, <2>1 DEF DTypes, DomainsFollowApp
  <2>2. CASE AddDomain(p) /\ adder' = [adder EXCEPT ![last + 1] = deploy[p].nr]
    <3>1. deploy[p].nr \in cameUp /\ deploy[p].nr \in 0 .. MaxDeploys
      <4>1. deploy[p].at = "dns" /\ deploy[p] \in Deploys
        BY <2>2 DEF AddDomain, DTypes
      <4> QED
        BY <4>1 DEF Deploying, Sound, Deploys
    <3> QED
      BY <1>1, <2>2, <3>1 DEF DTypes, DomainsFollowApp
  <2> QED
    BY <2>1, <2>2 DEF FindDomain, AddDomain, ApplyDomain, PoolStep, DomainCommand
<1> QED
  BY <1>1, <1>2, <1>3 DEF DKept, DTypes, Deploying

------------------------------------------------------------------------------
(* The pool under deploys.                                                 *)

LEMMA DeployMoves ==
    ASSUME DInv, [DeployNext]_allVars
    PROVE  Moves
<1> USE DEF DInv
<1>1. ASSUME NEW p \in Procs, DomainCommand(p) \/ PoolStep(p) PROVE Moves
  BY <1>1 DEF DomainCommand, PoolStep, Moves, PoolMove
<1>2. ASSUME NEW p \in Procs, AddDomain(p) PROVE Moves
  <2>1. CASE UNCHANGED vars
    BY <2>1 DEF Moves
  <2>2. CASE \E k \in Turn(p) : Add(p, deploy[p].names[k], deploy[p].target)
    <3>1. PICK k \in Turn(p) : Add(p, deploy[p].names[k], deploy[p].target)
      BY <2>2
    <3>2. deploy[p].names[k] \in Names
      BY TurnIsName
    <3>3. deploy[p].target \in Targets
      <4>1. deploy[p].at = "dns" /\ deploy[p] \in Deploys
        BY <1>2 DEF AddDomain, DTypes
      <4> QED
        BY <4>1 DEF Deploying, Sound, Deploys
    <3> QED
      BY <3>1, <3>2, <3>3 DEF Moves, PoolMove
  <2> QED
    BY <1>2, <2>1, <2>2 DEF AddDomain
<1>3. ASSUME NEW p \in Procs, ApplyDomain(p) PROVE Moves
  <2>1. CASE UNCHANGED vars
    BY <2>1 DEF Moves
  <2>2. CASE \E k \in Turn(p), i \in Ids : ApplyDNS(p, deploy[p].names[k], i)
    BY <2>2, TurnIsName DEF Moves, PoolMove
  <2> QED
    BY <1>3, <2>1, <2>2 DEF ApplyDomain
<1>4. ASSUME NEW p \in Procs, RemoteFails(p) PROVE Moves
  BY <1>4 DEF RemoteFails, Moves, OtherFault, vars
<1>5. ASSUME NEW p \in Procs,
             \/ \E r \in Requests : BeginDeploy(p, r)
             \/ CheckCompose(p) \/ WriteManifest(p) \/ WriteEnv(p)
             \/ RegistryLogin(p) \/ ComposeUp(p) \/ FindDomain(p)
      PROVE  Moves
  BY <1>5 DEF BeginDeploy, CheckCompose, WriteManifest, WriteEnv, RegistryLogin,
              ComposeUp, FindDomain, Moves
<1>6. ASSUME NEW n \in NodeIds, LateUp(n) \/ LateWrite(n) PROVE Moves
  BY <1>6 DEF LateUp, LateWrite, Moves
<1>7. CASE UNCHANGED allVars
  BY <1>7 DEF allVars, Moves
<1> QED
  BY <1>1, <1>2, <1>3, <1>4, <1>5, <1>6, <1>7 DEF DeployNext

LEMMA DeployInitSound == DeployInit => DInv
<1> SUFFICES ASSUME DeployInit PROVE DInv
  OBVIOUS
<1>1. IInv
  BY InitSound DEF DeployInit
<1>2. DTypes
  <2>1. deploy \in [Procs -> Deploys]
    BY NoDeployIsDeploy DEF DeployInit
  <2>2. 0 \in Texts
    BY DeploysAssumption DEF Texts
  <2>3. Directory(None, None, {}, {}, {}) \in Directories
    BY <2>2, DirectoryType DEF None
  <2>4. node \in [NodeIds -> Directories]
    BY <2>3 DEF DeployInit
  <2> QED
    BY <2>1, <2>4, DeploysAssumption DEF DeployInit, DTypes
<1>3. Deploying
  BY DEF DeployInit, Deploying, Sound, NoDeploy
<1>4. DomainsFollowApp
  BY DEF DeployInit, DomainsFollowApp
<1> QED
  BY <1>1, <1>2, <1>3, <1>4 DEF DInv

LEMMA DeployStepSound == DInv /\ [DeployNext]_allVars => DInv'
<1> SUFFICES ASSUME DInv, [DeployNext]_allVars PROVE DInv'
  OBVIOUS
<1>1. IInv'
  BY DeployMoves, MovesSound DEF DInv
<1>2. DKept
  <2>1. CASE UNCHANGED allVars
    BY <2>1 DEF allVars, deployVars, DInv, DKept, DTypes, Deploying, DomainsFollowApp
  <2>2. CASE DeployNext
    BY <2>2, BeginKeeps, RemoteKeeps, LateKeeps, DomainsKeep DEF DeployNext
  <2> QED
    BY <2>1, <2>2
<1> QED
  BY <1>1, <1>2 DEF DInv, DKept

LEMMA DInvHolds == DeploySpec => []DInv
BY DeployInitSound, DeployStepSound, PTL DEF DeploySpec

\* The deploys, the nodes and the history keep their types, and the pool keeps
\* those it has, whichever processes deploy.
THEOREM DeployTypes == DeploySpec => []DeployTypeOK
<1>1. DInv => DeployTypeOK
  BY DEF DInv, IInv, Rest, Zoned, Filed, Running, DTypes, TypeOK, DeployTypeOK
<1> QED
  BY <1>1, DInvHolds, PTL

\* A deploy enters a domain only after its application came up, in however many
\* processes deploys run and whatever fails before.
THEOREM DomainsFollow == DeploySpec => []DomainsFollowApp
<1>1. DInv => DomainsFollowApp
  BY DEF DInv
<1> QED
  BY <1>1, DInvHolds, PTL

------------------------------------------------------------------------------
(***************************************************************************)
(* One operator, who runs one command after the other.  Two deploys at a   *)
(* time share a directory, and commands at a time the file.                *)
(***************************************************************************)
OneProcess == \E p : Procs = {p}

\* An application was started by a deploy from its own files, or by one that a
\* late write has overtaken.
OfOneDeploy(app, over) ==
    app.by \in over \/ (app.manifest = app.by /\ app.env = app.by)

Unovertaken(d, dir, over) ==
    \/ d.nr \in over
    \/ /\ d.at \in {"env", "login", "up"} => dir.manifest = d.nr
       /\ d.at \in {"login", "up"} => dir.env = d.nr

\* The files a deploy has written are still its own when it starts compose, and
\* what runs or is still being started was read from files of one deploy.
Unmixed ==
    /\ \A p \in Procs : deploy[p].at # "none" =>
          Unovertaken(deploy[p], On(p), overtaken)
    /\ \A n \in NodeIds : \A app \in node[n].runs \cup node[n].building :
          OfOneDeploy(app, overtaken)

\* The services of node n are replaced by some of those of a deploy.
LEMMA RunsUnmixed ==
    ASSUME DTypes, Unmixed, NEW n \in NodeIds, NEW d \in Directories,
           node' = [node EXCEPT ![n] = d], overtaken \subseteq overtaken',
           \A app \in d.runs \cup d.building : OfOneDeploy(app, overtaken)
    PROVE  \A m \in NodeIds : \A app \in node'[m].runs \cup node'[m].building :
              OfOneDeploy(app, overtaken')
<1>1. ASSUME NEW m \in NodeIds, NEW app \in node'[m].runs \cup node'[m].building
      PROVE  OfOneDeploy(app, overtaken)
  <2>1. node'[m] = IF m = n THEN d ELSE node[m]
    BY DEF DTypes
  <2> QED
    BY <1>1, <2>1 DEF Unmixed
<1> QED
  BY <1>1 DEF OfOneDeploy

LEMMA UnmixedRemote ==
    ASSUME OneProcess, DInv, Unmixed, NEW p \in Procs,
           \/ CheckCompose(p) \/ WriteManifest(p) \/ WriteEnv(p)
           \/ RegistryLogin(p) \/ ComposeUp(p) \/ RemoteFails(p)
    PROVE  Unmixed'
<1> DEFINE n == deploy[p].node
           nr == deploy[p].nr
<1>1. DTypes /\ deploy[p] \in Deploys
  BY DEF DInv, DTypes
<1>2. /\ n \in NodeIds /\ nr \in 1 .. begun /\ overtaken' = overtaken
      /\ Unovertaken(deploy[p], On(p), overtaken)
  <2>1. deploy[p].at # "none"
    BY DEF CheckCompose, WriteManifest, WriteEnv, RegistryLogin, ComposeUp, RemoteFails
  <2>2. overtaken' = overtaken
    BY DEF CheckCompose, WriteManifest, WriteEnv, RegistryLogin, ComposeUp, RemoteFails
  <2> QED
    BY <2>1, <2>2 DEF DInv, Deploying, Sound, Unmixed
<1>3. PICK d \in Directories :
         /\ node' = [node EXCEPT ![n] = d]
         /\ d.runs \cup d.building \subseteq
               On(p).runs \cup On(p).building
                 \cup (IF deploy[p].at = "up" THEN {Read(p)} ELSE {})
         /\ WriteManifest(p) => d.manifest = nr
         /\ WriteEnv(p) => d.env = nr /\ d.manifest = On(p).manifest
  BY <1>1, <1>2, RemoteChanges
<1>4. deploy[p].at = "up" => OfOneDeploy(Read(p), overtaken)
  BY <1>2 DEF Unovertaken, OfOneDeploy, Read, App
<1>5. \A app \in d.runs \cup d.building : OfOneDeploy(app, overtaken)
  BY <1>2, <1>3, <1>4 DEF Unmixed, On
<1> HIDE DEF n
<1>6. \A m \in NodeIds : \A app \in node'[m].runs \cup node'[m].building :
         OfOneDeploy(app, overtaken')
  BY <1>1, <1>2, <1>3, <1>5, RunsUnmixed
<1>7. node'[n] = d
  BY <1>1, <1>2, <1>3 DEF DTypes
<1>8. ASSUME NEW e, deploy' = [deploy EXCEPT ![p] = e], e.node = n, e.nr = nr,
             Unovertaken(e, d, overtaken)
      PROVE  Unmixed'
  <2>1. \A q \in Procs : deploy'[q] = e
    BY <1>1, <1>8 DEF DTypes, OneProcess
  <2> QED
    BY <1>2, <1>6, <1>7, <1>8, <2>1 DEF Unmixed, On
<1>9. ASSUME NEW stage \in {"manifest", "env", "login", "up", "none", "done", "dns"},
             To(p, stage),
             \/ nr \in overtaken
             \/ /\ stage \in {"env", "login", "up"} => d.manifest = nr
                /\ stage \in {"login", "up"} => d.env = nr
      PROVE  Unmixed'
  <2> DEFINE e == [deploy[p] EXCEPT !.at = stage]
  <2>1. stage \in Stages
    BY DEF Stages
  <2>2. e.at = stage /\ e.nr = nr /\ e.node = n
    BY <1>1, <2>1, Staged DEF n
  <2>3. deploy' = [deploy EXCEPT ![p] = e]
    BY <1>9 DEF To
  <2> HIDE DEF e
  <2> QED
    BY <1>8, <1>9, <2>2, <2>3 DEF Unovertaken
<1>10. CheckCompose(p) \/ RegistryLogin(p) => d = On(p)
  BY <1>2, <1>7 DEF CheckCompose, RegistryLogin, On, n
<1>11. CASE CheckCompose(p)
  BY <1>9, <1>11 DEF CheckCompose
<1>12. CASE WriteManifest(p)
  BY <1>3, <1>9, <1>12 DEF WriteManifest
<1>13. CASE WriteEnv(p)
  <2>1. nr \in overtaken \/ On(p).manifest = nr
    BY <1>2, <1>13 DEF WriteEnv, Unovertaken
  <2> QED
    BY <1>3, <1>9, <1>13, <2>1 DEF WriteEnv
<1>14. CASE RegistryLogin(p) /\ To(p, "up")
  <2>1. nr \in overtaken \/ (d.manifest = nr /\ d.env = nr)
    BY <1>2, <1>10, <1>14 DEF RegistryLogin, Unovertaken
  <2> QED
    BY <1>9, <1>14, <2>1
<1>15. CASE RegistryLogin(p) /\ deploy[p].logins > 0
  <2> DEFINE e == [deploy[p] EXCEPT !.logins = deploy[p].logins - 1]
  <2>1. e.at = deploy[p].at /\ e.nr = nr /\ e.node = n
    BY <1>1 DEF Deploys, n
  <2>2. deploy' = [deploy EXCEPT ![p] = e]
    BY <1>15 DEF RegistryLogin
  <2> HIDE DEF e
  <2> QED
    BY <1>2, <1>8, <1>10, <1>15, <2>1, <2>2 DEF Unovertaken
<1>16. CASE ComposeUp(p)
  <2>1. To(p, AfterUp(p)) /\ AfterUp(p) \in {"done", "none", "dns"}
    BY <1>16 DEF ComposeUp, AfterUp
  <2> QED
    BY <1>9, <2>1
<1>17. CASE RemoteFails(p)
  BY <1>9, <1>17 DEF RemoteFails, Failed
<1> QED
  BY <1>11, <1>12, <1>13, <1>14, <1>15, <1>16, <1>17 DEF RegistryLogin

\* A command that was given up comes through: the deploys that rely on what it
\* changes are overtaken.
LEMMA UnmixedLate ==
    ASSUME DInv, Unmixed, NEW n \in NodeIds, LateUp(n) \/ LateWrite(n)
    PROVE  Unmixed'
<1>1. DTypes
  BY DEF DInv
<1>2. PICK d \in Directories :
         /\ node' = [node EXCEPT ![n] = d]
         /\ d.runs \cup d.building \subseteq node[n].runs \cup node[n].building
         /\ \/ overtaken' = overtaken /\ d.manifest = node[n].manifest
                                     /\ d.env = node[n].env
            \/ overtaken' = overtaken \cup Relying(n, "env")
                  /\ d.manifest = node[n].manifest
            \/ overtaken' = overtaken \cup Relying(n, "manifest")
                  /\ d.env = node[n].env
  BY <1>1, LateChanges
<1>3. deploy' = deploy /\ overtaken \subseteq overtaken'
  BY <1>2 DEF LateUp, LateWrite
<1>4. \A app \in d.runs \cup d.building : OfOneDeploy(app, overtaken)
  BY <1>2 DEF Unmixed
<1>5. \A m \in NodeIds : \A app \in node'[m].runs \cup node'[m].building :
         OfOneDeploy(app, overtaken')
  BY <1>1, <1>2, <1>3, <1>4, RunsUnmixed
<1>6. ASSUME NEW p \in Procs, deploy[p].at # "none"
      PROVE  Unovertaken(deploy[p], node'[deploy[p].node], overtaken')
  <2>1. Unovertaken(deploy[p], node[deploy[p].node], overtaken)
    BY <1>6 DEF Unmixed, On
  <2>2. CASE deploy[p].node # n
    <3>1. node'[deploy[p].node] = node[deploy[p].node]
      BY <1>1, <1>2, <1>6, <2>2 DEF DTypes, DInv, Deploying, Sound
    <3> QED
      BY <1>3, <2>1, <3>1 DEF Unovertaken
  <2>3. CASE deploy[p].node = n
    <3>1. node'[n] = d
      BY <1>1, <1>2 DEF DTypes
    <3>2. deploy[p].at \in {"login", "up"} => deploy[p].nr \in Relying(n, "env")
      BY <2>3 DEF Relying
    <3>3. deploy[p].at \in {"env", "login", "up"} =>
             deploy[p].nr \in Relying(n, "manifest")
      BY <2>3 DEF Relying
    <3> QED
      BY <1>2, <2>1, <2>3, <3>1, <3>2, <3>3 DEF Unovertaken
  <2> QED
    BY <2>2, <2>3
<1> QED
  BY <1>3, <1>5, <1>6 DEF Unmixed, On

LEMMA UnmixedStep ==
    ASSUME OneProcess, DInv, Unmixed, [DeployNext]_allVars
    PROVE  Unmixed'
<1>1. CASE UNCHANGED <<deploy, node, overtaken>>
  BY <1>1 DEF Unmixed, On
<1>2. ASSUME NEW p \in Procs,
             \/ \E r \in Requests : BeginDeploy(p, r)
             \/ FindDomain(p) \/ AddDomain(p) \/ ApplyDomain(p)
             \/ PoolStep(p) \/ DomainCommand(p)
      PROVE  Unmixed'
  <2>1. node' = node /\ overtaken' = overtaken /\ DTypes
    BY <1>2 DEF BeginDeploy, FindDomain, AddDomain, ApplyDomain, PoolStep,
                DomainCommand, DInv
  <2>2. CASE UNCHANGED deploy
    BY <1>1, <2>1, <2>2
  <2>3. ASSUME NEW d, deploy' = [deploy EXCEPT ![p] = d],
               d.at \notin {"env", "login", "up"}
        PROVE  Unmixed'
    <3>1. \A q \in Procs : deploy'[q] = d
      BY <2>1, <2>3 DEF DTypes, OneProcess
    <3> QED
      BY <2>1, <2>3, <3>1 DEF Unmixed, Unovertaken
  <2>4. ASSUME NEW stage \in {"none", "add", "apply"}, To(p, stage)
        PROVE  Unmixed'
    <3> DEFINE d == [deploy[p] EXCEPT !.at = stage]
    <3>1. deploy[p] \in Deploys /\ stage \in Stages
      BY <2>1 DEF DTypes, Stages
    <3>2. d.at = stage /\ deploy' = [deploy EXCEPT ![p] = d]
      BY <2>4, <3>1, Staged DEF To
    <3> HIDE DEF d
    <3> QED
      BY <2>3, <3>2
  <2>5. CASE \E r \in Requests : BeginDeploy(p, r)
    <3>1. PICK r \in Requests : BeginDeploy(p, r)
      BY <2>5
    <3> DEFINE d == [at |-> "check", nr |-> begun + 1,
                     node |-> SelectDeployNode(r.wanted),
                     target |-> Nodes[SelectDeployNode(r.wanted)].public,
                     root |-> r.root, dns |-> r.dns, names |-> r.candidates,
                     todo |-> DeployDomains(r.candidates), logins |-> r.logins]
    <3>2. deploy' = [deploy EXCEPT ![p] = d] /\ d.at = "check"
      BY <3>1 DEF BeginDeploy
    <3> HIDE DEF d
    <3> QED
      BY <2>3, <3>2
  <2>6. CASE PoolStep(p)
    <3>1. CASE \E stage \in {"none", "apply"} : To(p, stage)
      BY <2>4, <3>1
    <3>2. ASSUME NEW stage \in {"done", "dns"},
                 deploy' = [deploy EXCEPT ![p] =
                               [@ EXCEPT !.todo = deploy[p].todo \ Turn(p),
                                         !.at = stage]]
          PROVE  Unmixed'
      <4> DEFINE d == [deploy[p] EXCEPT !.todo = deploy[p].todo \ Turn(p),
                                        !.at = stage]
      <4>1. deploy[p] \in Deploys
        BY <2>1 DEF DTypes
      <4>2. d.at = stage
        BY <4>1 DEF Deploys
      <4>3. deploy' = [deploy EXCEPT ![p] = d]
        BY <3>2
      <4> HIDE DEF d
      <4> QED
        BY <2>3, <4>2, <4>3
    <3> QED
      BY <2>2, <2>6, <3>1, <3>2 DEF PoolStep, Continues, Failed
  <2> QED
    BY <1>2, <2>2, <2>4, <2>5, <2>6
       DEF FindDomain, AddDomain, ApplyDomain, DomainCommand, Failed
<1> QED
  BY <1>1, <1>2, UnmixedRemote, UnmixedLate DEF DeployNext, allVars, deployVars

\* Of an operator who runs one command after the other, the services of a node
\* were each started from the manifest and the env file of the deploy that
\* started them, whatever was cut off, and however late a compose comes through;
\* but for a deploy of whose files a late write changed one before compose.
THEOREM OneDeployRuns ==
    ASSUME OneProcess
    PROVE  DeploySpec => []RunsOneDeploy
<1>1. DeployInit => Unmixed
  BY DEF DeployInit, Unmixed, NoDeploy, Directory
<1>2. DInv /\ Unmixed /\ [DeployNext]_allVars => Unmixed'
  BY UnmixedStep
<1>3. Unmixed => RunsOneDeploy
  BY DEF Unmixed, OfOneDeploy, RunsOneDeploy
<1> QED
  BY <1>1, <1>2, <1>3, DInvHolds, PTL DEF DeploySpec

------------------------------------------------------------------------------
(***************************************************************************)
(* The pool of that operator.  A command works on the store the file has,  *)
(* so it sees every record there is of a name before it makes one, and     *)
(* what it saves has an entry of each.                                     *)
(***************************************************************************)
AtSave == {"truncate", "write"}

Numbered(s, n) == \A i \in Ids : Has(s, i) => i <= n

\* Each record has an entry in store s.
Covers(s, recs) ==
    \A r \in RecordIds : recs[r] # NoRecord =>
        \E i \in Ids : Has(s, i) /\ recs[r] = Record(s[i].name, s[i].target)

Lone(run, f, recs, cut, n) ==
    /\ run.at \in AtWork => run.snap = f
    /\ run.at = "write" => f = Empty
    /\ run.at = "create" =>
          \A r \in RecordIds : recs[r].name # run.snap[run.cur].name
    /\ run.at = "update" =>
          run.rec \in RecordIds /\ recs[run.rec].name = run.snap[run.cur].name
    /\ run.at \in AtSave => Numbered(run.snap, n)
    /\ run.at \in AtSave /\ cut = "no" => Covers(run.snap, recs)
    /\ run.at # "write" /\ cut = "no" => Covers(f, recs)

Alone ==
    /\ file # Unreadable /\ Numbered(file, last)
    /\ OneRecordPerName
    /\ \A p \in Procs : Lone(proc[p], file, records, torn, last)

\* The store t has the names and targets of s.
Relabelled(s, t) ==
    \A i \in Ids : t[i].name = s[i].name /\ t[i].target = s[i].target

LEMMA StatusRelabels ==
    ASSUME NEW s \in Stores, NEW i \in Ids, NEW status
    PROVE  /\ Relabelled(s, [s EXCEPT ![i].status = status])
           /\ [s EXCEPT ![i].status = status][i].status = status
           /\ \A j \in Ids \ {i} : [s EXCEPT ![i].status = status][j] = s[j]
<1> DEFINE e == [s[i] EXCEPT !.status = status]
<1>1. s[i] \in Entries
  BY DEF Stores
<1>2. e.status = status /\ e.name = s[i].name /\ e.target = s[i].target
  BY <1>1 DEF Entries
<1>3. [s EXCEPT ![i].status = status] = [s EXCEPT ![i] = e]
  OBVIOUS
<1> HIDE DEF e
<1>4. \A j \in Ids : [s EXCEPT ![i] = e][j] = IF j = i THEN e ELSE s[j]
  BY DEF Stores
<1> QED
  BY <1>2, <1>3, <1>4 DEF Relabelled

LEMMA VerificationRelabels ==
    ASSUME NEW s \in Stores, NEW i \in Ids, NEW verdict
    PROVE  /\ Relabelled(s, [s EXCEPT ![i].verification = verdict])
           /\ \A j \in Ids :
                [s EXCEPT ![i].verification = verdict][j].status = s[j].status
<1> DEFINE e == [s[i] EXCEPT !.verification = verdict]
<1>1. s[i] \in Entries
  BY DEF Stores
<1>2. e.status = s[i].status /\ e.name = s[i].name /\ e.target = s[i].target
  BY <1>1 DEF Entries
<1>3. [s EXCEPT ![i].verification = verdict] = [s EXCEPT ![i] = e]
  OBVIOUS
<1> HIDE DEF e
<1>4. \A j \in Ids : [s EXCEPT ![i] = e][j] = IF j = i THEN e ELSE s[j]
  BY DEF Stores
<1> QED
  BY <1>2, <1>3, <1>4 DEF Relabelled

LEMMA RelabelledAlike ==
    ASSUME NEW s, NEW t, Relabelled(s, t), NEW recs, NEW n
    PROVE  /\ Numbered(s, n) => Numbered(t, n)
           /\ Covers(s, recs) => Covers(t, recs)
BY DEF Relabelled, Numbered, Covers, Has

\* The other process is this one.
LEMMA AloneRuns ==
    ASSUME OneProcess, IInv, NEW p \in Procs, NEW run,
           proc' = [proc EXCEPT ![p] = run],
           file' # Unreadable, Numbered(file', last'), OneRecordPerName',
           Lone(run, file', records', torn', last')
    PROVE  Alone'
<1>1. \A q \in Procs : proc'[q] = run
  BY DEF OneProcess, IInv, Running
<1> QED
  BY <1>1 DEF Alone

\* What a command that only loads and saves makes of the store.
LEMMA AloneSaves ==
    ASSUME OneProcess, IInv, Alone, NEW p \in Procs, NEW s,
           Goes(p, "truncate", s), proc[p].at # "write",
           UNCHANGED <<file, records, torn>>, last' \in Nat, last <= last',
           Numbered(s, last'), torn = "no" => Covers(s, records)
    PROVE  Alone'
<1> DEFINE run == Run("truncate", s, proc[p].cur, proc[p].todo)
<1>1. proc' = [proc EXCEPT ![p] = run] /\ run.at = "truncate" /\ run.snap = s
  BY DEF Goes, Run
<1> HIDE DEF run
<1>2. torn = "no" => Covers(file, records)
  BY DEF Alone, Lone
<1>3. file # Unreadable /\ OneRecordPerName'
  BY DEF Alone, OneRecordPerName
<1>4. Numbered(file, last')
  <2>1. \A i \in Ids : i \in Nat
    BY DEF Ids
  <2>2. last \in Nat
    BY BoundsAssumption DEF IInv, Rest
  <2> QED
    BY <2>1, <2>2 DEF Alone, Numbered
<1>5. Lone(run, file, records, torn, last')
  BY <1>1, <1>2 DEF Lone, AtWork, AtSave
<1> QED
  BY <1>1, <1>3, <1>4, <1>5, AloneRuns

\* A run that neither saves nor touches the zone yet.
LEMMA AloneWorks ==
    ASSUME OneProcess, IInv, Alone, NEW p \in Procs, NEW run,
           proc' = [proc EXCEPT ![p] = run], proc[p].at # "write",
           UNCHANGED <<file, records, last, torn>>,
           run.at \notin AtSave, run.at \in AtWork => run.snap = file,
           run.at = "create" =>
              \A r \in RecordIds : records[r].name # run.snap[run.cur].name,
           run.at = "update" =>
              /\ run.rec \in RecordIds
              /\ records[run.rec].name = run.snap[run.cur].name
    PROVE  Alone'
<1>1. torn = "no" => Covers(file, records)
  BY DEF Alone, Lone
<1>2. file # Unreadable /\ OneRecordPerName' /\ Numbered(file, last)
  BY DEF Alone, OneRecordPerName
<1>3. Lone(run, file, records, torn, last)
  BY <1>1 DEF Lone, AtSave
<1> QED
  BY <1>2, <1>3, AloneRuns

LEMMA AloneLoads ==
    ASSUME OneProcess, IInv, Alone, NEW p \in Procs,
           \/ \E k \in Keys \cup Names, i \in Ids : ApplyDNS(p, k, i) \/ VerifyDNS(p, k, i)
           \/ ApplyAll(p) \/ ApplyNext(p)
    PROVE  Alone'
<1>1. proc[p].at # "write" /\ UNCHANGED <<file, records, last, torn>>
  BY DEF ApplyDNS, VerifyDNS, Starts, ApplyAll, ApplyNext
<1>2. \/ \E place \in {"zone", "lookup"} : \E i, todo :
            proc' = [proc EXCEPT ![p] = Run(place, file, i, todo)]
      \/ \E todo : proc' = [proc EXCEPT ![p] = Turns(todo)]
  BY DEF ApplyDNS, VerifyDNS, ApplyAll, ApplyNext
<1>3. ASSUME NEW place \in {"zone", "lookup"}, NEW i, NEW todo,
             proc' = [proc EXCEPT ![p] = Run(place, file, i, todo)]
      PROVE  Alone'
  <2> DEFINE run == Run(place, file, i, todo)
  <2>1. run.at = place /\ run.snap = file /\ proc' = [proc EXCEPT ![p] = run]
    BY <1>3 DEF Run
  <2>2. run.at \notin AtSave /\ run.at # "create" /\ run.at # "update"
    BY <2>1 DEF AtSave
  <2> HIDE DEF run
  <2> QED
    BY <1>1, <2>1, <2>2, AloneWorks
<1>4. ASSUME NEW todo, proc' = [proc EXCEPT ![p] = Turns(todo)]
      PROVE  Alone'
  <2>1. Turns(todo).at \in {"idle", "find"}
    BY DEF Turns, Idle, Run
  <2>2. Turns(todo).at \notin AtSave /\ Turns(todo).at \notin AtWork
        /\ Turns(todo).at # "create" /\ Turns(todo).at # "update"
    BY <2>1 DEF AtSave, AtWork
  <2> QED
    BY <1>1, <1>4, <2>2, AloneWorks
<1> QED
  BY <1>2, <1>3, <1>4

LEMMA AloneChanges ==
    ASSUME OneProcess, IInv, Alone, NEW p \in Procs,
           \/ \E n \in Names, t \in Targets : Add(p, n, t)
           \/ \E k \in Keys \cup Names, i \in Ids : Remove(p, k, i)
    PROVE  Alone'
<1>1. /\ proc[p].at # "write" /\ UNCHANGED <<file, records, torn>>
      /\ last \in Nat /\ file \in Stores /\ Numbered(file, last)
      /\ torn = "no" => Covers(file, records)
  <2>1. last \in Nat /\ file \in Stores
    BY BoundsAssumption DEF IInv, Rest, Filed, Alone
  <2>2. proc[p].at = "idle" /\ UNCHANGED <<file, records, torn>>
    BY DEF Add, Remove, Starts
  <2> QED
    BY <2>1, <2>2 DEF Alone, Lone
<1>2. ASSUME NEW n \in Names, NEW t \in Targets, Add(p, n, t)
      PROVE  Alone'
  <2> DEFINE s == [file EXCEPT ![last + 1] = NewEntry(n, t)]
  <2>1. last + 1 \in Ids /\ last' = last + 1 /\ Goes(p, "truncate", s)
    BY <1>1, <1>2, BoundsAssumption DEF Add, Ids
  <2>2. \A i \in Ids : s[i] = IF i = last + 1 THEN NewEntry(n, t) ELSE file[i]
    BY <1>1 DEF Stores
  <2>3. \A i \in Ids : i \in Nat
    BY DEF Ids
  <2> HIDE DEF s
  <2>4. Numbered(s, last')
    BY <1>1, <2>1, <2>2, <2>3 DEF Numbered, Has
  <2>5. ~Has(file, last + 1)
    BY <1>1, <2>1 DEF Numbered
  <2>6. torn = "no" => Covers(s, records)
    BY <1>1, <2>2, <2>5 DEF Covers, Has
  <2> QED
    BY <1>1, <2>1, <2>4, <2>6, AloneSaves
<1>3. ASSUME NEW k \in Keys \cup Names, NEW i \in Ids, Remove(p, k, i)
      PROVE  Alone'
  <2> DEFINE s == [file EXCEPT ![i].status = "disabled"]
  <2>1. Relabelled(file, s)
    BY <1>1, StatusRelabels
  <2>2. Goes(p, "truncate", s) /\ last' = last
    BY <1>3 DEF Remove
  <2> HIDE DEF s
  <2>3. Numbered(s, last) /\ (torn = "no" => Covers(s, records))
    BY <1>1, <2>1, RelabelledAlike
  <2> QED
    BY <1>1, <2>2, <2>3, AloneSaves
<1> QED
  BY <1>2, <1>3

LEMMA AloneAsks ==
    ASSUME OneProcess, IInv, Alone, NEW p \in Procs,
           Zone(p) \/ List(p) \/ CallFails(p) \/ Lookup(p)
    PROVE  Alone'
<1>1. /\ proc[p].at \in AtWork /\ proc[p].at # "write"
      /\ UNCHANGED <<file, records, last, torn>>
  BY DEF Zone, List, CallFails, Lookup, AtWork
<1>2. /\ proc[p].snap = file /\ file \in Stores /\ proc[p].cur \in Ids
      /\ Numbered(file, last) /\ (torn = "no" => Covers(file, records))
      /\ last \in Nat
  BY <1>1, WorkingOn, BoundsAssumption DEF Alone, Lone, IInv, Rest
<1>3. ASSUME NEW s, Relabelled(file, s), Goes(p, "truncate", s)
      PROVE  Alone'
  <2>1. Numbered(s, last) /\ (torn = "no" => Covers(s, records))
    BY <1>2, <1>3, RelabelledAlike
  <2> QED
    BY <1>1, <1>2, <1>3, <2>1, AloneSaves
<1>4. ASSUME NEW place \in {"list", "create", "update"}, NEW r,
             proc' = [proc EXCEPT ![p] =
                         [Run(place, @.snap, @.cur, @.todo) EXCEPT !.rec = r]],
             place = "create" => Matches(p) = {},
             place = "update" => r \in Matches(p)
      PROVE  Alone'
  <2> DEFINE run == [Run(place, proc[p].snap, proc[p].cur, proc[p].todo)
                        EXCEPT !.rec = r]
  <2>1. /\ run.at = place /\ run.snap = file /\ run.cur = proc[p].cur
        /\ run.rec = r
    BY <1>2 DEF Run
  <2>2. proc' = [proc EXCEPT ![p] = run]
    BY <1>4
  <2> HIDE DEF run
  <2>3. run.at \notin AtSave
    BY <2>1 DEF AtSave
  <2>4. /\ run.at = "create" =>
              \A q \in RecordIds : records[q].name # run.snap[run.cur].name
        /\ run.at = "update" =>
              /\ run.rec \in RecordIds
              /\ records[run.rec].name = run.snap[run.cur].name
    BY <1>2, <1>4, <2>1 DEF Matches, Current
  <2> QED
    BY <1>1, <2>1, <2>2, <2>3, <2>4, AloneWorks
<1>5. ASSUME NEW place \in {"list", "create"}, Goes(p, place, proc[p].snap),
             place = "create" => Matches(p) = {}
      PROVE  Alone'
  <2>1. Run(place, proc[p].snap, proc[p].cur, proc[p].todo)
          = [Run(place, proc[p].snap, proc[p].cur, proc[p].todo) EXCEPT !.rec = 0]
    BY DEF Run
  <2>2. proc' = [proc EXCEPT ![p] =
                    [Run(place, @.snap, @.cur, @.todo) EXCEPT !.rec = 0]]
    BY <1>5, <2>1 DEF Goes
  <2> QED
    BY <1>4, <1>5, <2>2
<1>6. \A status : Relabelled(file, Marked(p, status))
  BY <1>2, StatusRelabels DEF Marked
<1>7. CASE Zone(p)
  <2>1. Relabelled(file, file)
    BY DEF Relabelled
  <2> QED
    BY <1>2, <1>3, <1>5, <1>7, <2>1 DEF Zone
<1>8. CASE List(p)
  <2>1. CASE Goes(p, "truncate", Marked(p, "active"))
    BY <1>3, <1>6, <2>1
  <2>2. CASE \E r \in Matches(p) :
                proc' = [proc EXCEPT ![p] =
                            [Run("update", @.snap, @.cur, @.todo) EXCEPT !.rec = r]]
    BY <1>4, <2>2
  <2>3. CASE Matches(p) = {} /\ Goes(p, "create", proc[p].snap)
    BY <1>5, <2>3
  <2> QED
    BY <1>8, <2>1, <2>2, <2>3 DEF List
<1>9. CASE CallFails(p)
  BY <1>3, <1>5, <1>6, <1>9 DEF CallFails
<1>10. CASE Lookup(p)
  <2>1. \A v : Relabelled(file, [proc[p].snap EXCEPT ![proc[p].cur].verification = v])
    BY <1>2, VerificationRelabels
  <2> QED
    BY <1>3, <1>10, <2>1 DEF Lookup
<1> QED
  BY <1>7, <1>8, <1>9, <1>10

\* A record is made only where the name has none, or replaces the one it has.
LEMMA PutsOnce ==
    ASSUME IInv, Alone, NEW p \in Procs, CreateRecord(p) \/ UpdateRecord(p)
    PROVE  \E r \in RecordIds :
              /\ records' = [records EXCEPT ![r] =
                                Record(Current(p).name, Current(p).target)]
              /\ records[r].name \in {NoName, Current(p).name}
              /\ \A q \in RecordIds : records[q].name = Current(p).name => q = r
<1>1. Current(p).name # NoName
  <2>1. proc[p].at \in AtWork
    BY DEF CreateRecord, UpdateRecord, AtWork
  <2> QED
    BY <2>1, WorkingOn DEF Has, Current
<1>2. CASE CreateRecord(p)
  <2>1. PICK r \in RecordIds : records[r] = NoRecord /\ Puts(p, r)
    BY <1>2 DEF CreateRecord
  <2>2. \A q \in RecordIds : records[q].name # Current(p).name
    BY <1>2 DEF CreateRecord, Alone, Lone, Current
  <2>3. records[r].name = NoName
    BY <2>1 DEF NoRecord, Record
  <2>4. records' = [records EXCEPT ![r] = Record(Current(p).name, Current(p).target)]
    BY <2>1 DEF Puts
  <2> QED
    BY <2>2, <2>3, <2>4
<1>3. CASE UpdateRecord(p)
  <2>1. /\ proc[p].rec \in RecordIds /\ Puts(p, proc[p].rec)
        /\ records[proc[p].rec].name = Current(p).name
    BY <1>3 DEF UpdateRecord, Alone, Lone, Current
  <2>2. records[proc[p].rec] # NoRecord
    BY <1>1, <2>1 DEF NoRecord, Record
  <2>3. \A q \in RecordIds : records[q].name = Current(p).name => q = proc[p].rec
    BY <2>1, <2>2 DEF Alone, OneRecordPerName
  <2> QED
    BY <2>1, <2>3 DEF Puts
<1> QED
  BY <1>2, <1>3

LEMMA AlonePuts ==
    ASSUME OneProcess, IInv, Alone, NEW p \in Procs,
           CreateRecord(p) \/ UpdateRecord(p)
    PROVE  Alone'
<1> DEFINE new == Record(Current(p).name, Current(p).target)
<1>1. proc[p].at \in AtWork /\ proc[p].at # "write"
  BY DEF CreateRecord, UpdateRecord, AtWork
<1>2. UNCHANGED <<file, last, torn>>
  BY DEF CreateRecord, UpdateRecord
<1>3. /\ proc[p].snap = file /\ file \in Stores /\ proc[p].cur \in Ids
      /\ Has(file, proc[p].cur) /\ Numbered(file, last)
      /\ torn = "no" => Covers(file, records)
      /\ OneRecordPerName /\ records \in [RecordIds -> Records]
      /\ Current(p) = file[proc[p].cur]
      /\ file # Unreadable
  BY <1>1, WorkingOn DEF Alone, Lone, IInv, Zoned, Has, Current
<1>4. PICK r \in RecordIds :
        /\ records' = [records EXCEPT ![r] = new]
        /\ \A q \in RecordIds : records[q].name = Current(p).name => q = r
  BY PutsOnce
<1>5. /\ new.name = Current(p).name
      /\ new = Record(file[proc[p].cur].name, file[proc[p].cur].target)
  BY <1>3 DEF Record
<1> HIDE DEF new
<1>6. \A q \in RecordIds : records'[q] = IF q = r THEN new ELSE records[q]
  BY <1>3, <1>4
<1>7. OneRecordPerName'
  BY <1>3, <1>4, <1>5, <1>6 DEF OneRecordPerName
<1>8. torn = "no" => Covers(file, records')
  BY <1>3, <1>5, <1>6 DEF Covers
<1>9. PICK status \in {"active", "failed"} : Goes(p, "truncate", Marked(p, status))
  BY DEF CreateRecord, UpdateRecord, Answered
<1> DEFINE s == Marked(p, status)
           run == Run("truncate", s, proc[p].cur, proc[p].todo)
<1>10. Relabelled(file, s)
  BY <1>3, StatusRelabels DEF Marked
<1>11. run.at = "truncate" /\ run.snap = s /\ proc' = [proc EXCEPT ![p] = run]
  BY <1>9 DEF Run, Goes
<1> HIDE DEF s, run
<1>12. Numbered(s, last) /\ (torn = "no" => Covers(s, records'))
  BY <1>3, <1>8, <1>10, RelabelledAlike
<1>13. Lone(run, file, records', torn, last)
  BY <1>8, <1>11, <1>12 DEF Lone, AtWork, AtSave
<1> QED
  BY <1>2, <1>3, <1>7, <1>11, <1>13, AloneRuns

\* What was written is what the command had, or it had no entry.
LEMMA AloneWrites ==
    ASSUME Alone, NEW p \in Procs, Write(p)
    PROVE  \/ file' = proc[p].snap
           \/ file' = Empty /\ \A i \in Ids : ~Has(proc[p].snap, i)
<1>1. file = Empty /\ \A i \in Ids : ~Has(Empty, i)
  BY DEF Alone, Lone, Write, Empty, NoEntry, Has
<1>2. CASE file' = proc[p].snap
  BY <1>2
<1>3. CASE /\ \A i \in Ids : Has(proc[p].snap, i) => file[i] = proc[p].snap[i]
           /\ file' = file
  BY <1>1, <1>3 DEF Has
<1> QED
  BY <1>1, <1>2, <1>3 DEF Write

LEMMA AloneSaved ==
    ASSUME OneProcess, IInv, Alone, NEW p \in Procs,
           Truncate(p) \/ Write(p) \/ SaveFails(p) \/ Crash(p)
    PROVE  Alone'
<1>1. /\ UNCHANGED <<records, last>> /\ OneRecordPerName'
      /\ file # Unreadable /\ Numbered(file, last)
  BY DEF Truncate, Write, SaveFails, Crash, Alone, OneRecordPerName
<1>2. Empty # Unreadable /\ Numbered(Empty, last)
  BY EmptyIsHonest, UnreadableAssumption DEF Numbered, Empty, NoEntry, Has
<1>3. CASE Truncate(p)
  <2> DEFINE run == Run("write", proc[p].snap, proc[p].cur, proc[p].todo)
  <2>1. run.at = "write" /\ run.snap = proc[p].snap
        /\ proc' = [proc EXCEPT ![p] = run]
    BY <1>3 DEF Run, Goes, Truncate
  <2>2. /\ Numbered(proc[p].snap, last)
        /\ torn = "no" => Covers(proc[p].snap, records)
    BY <1>3 DEF Truncate, Alone, Lone, AtSave
  <2>3. file' = Empty /\ torn' = torn
    BY <1>3 DEF Truncate
  <2> HIDE DEF run
  <2>4. Lone(run, Empty, records, torn, last)
    BY <2>1, <2>2 DEF Lone, AtWork
  <2> QED
    BY <1>1, <1>2, <2>1, <2>3, <2>4, AloneRuns
<1>4. ASSUME NEW todo, proc' = [proc EXCEPT ![p] = Turns(todo)],
             file' # Unreadable, Numbered(file', last),
             torn' = "no" => Covers(file', records)
      PROVE  Alone'
  <2>1. Turns(todo).at \in {"idle", "find"}
    BY DEF Turns, Idle, Run
  <2>2. Lone(Turns(todo), file', records, torn', last)
    BY <1>4, <2>1 DEF Lone, AtWork, AtSave
  <2> QED
    BY <1>1, <1>4, <2>2, AloneRuns
<1>5. CASE Write(p)
  <2>1. /\ Numbered(proc[p].snap, last) /\ proc[p].snap \in Stores
        /\ torn = "no" => Covers(proc[p].snap, records)
    BY <1>5, WorkingOn DEF Write, Alone, Lone, AtSave
  <2>2. \/ file' = proc[p].snap
        \/ file' = Empty /\ \A i \in Ids : ~Has(proc[p].snap, i)
    BY <1>5, AloneWrites
  <2>3. file' # Unreadable /\ Numbered(file', last)
    BY <1>2, <2>1, <2>2, UnreadableAssumption
  <2>4. torn' = torn /\ (torn = "no" => Covers(file', records))
    BY <1>5, <2>1, <2>2 DEF Covers, Write
  <2> QED
    BY <1>4, <1>5, <2>3, <2>4 DEF Write, Ends
<1>6. CASE SaveFails(p) \/ Crash(p)
  <2>1. file' = file /\ (torn' = "no" => Covers(file, records))
    BY <1>6 DEF SaveFails, Crash, Alone, Lone
  <2>2. Idle = Turns({})
    BY DEF Turns
  <2> QED
    BY <1>1, <1>4, <1>6, <2>1, <2>2 DEF SaveFails, Crash, Ends
<1> QED
  BY <1>3, <1>5, <1>6

LEMMA AloneStep ==
    ASSUME OneProcess, IInv, Alone, Moves
    PROVE  Alone'
<1>1. CASE OtherFault \/ UNCHANGED vars
  BY <1>1 DEF OtherFault, vars, Alone, OneRecordPerName
<1>2. ASSUME NEW p \in Procs, PoolMove(p) PROVE Alone'
  BY <1>2, AloneChanges, AloneLoads, AloneAsks, AlonePuts, AloneSaved DEF PoolMove
<1> QED
  BY <1>1, <1>2 DEF Moves

LEMMA AloneHolds ==
    ASSUME OneProcess
    PROVE  DeploySpec => []Alone
<1>1. DeployInit => Alone
  <2> SUFFICES ASSUME DeployInit PROVE Alone
    OBVIOUS
  <2>1. Init
    BY DEF DeployInit
  <2>2. file = Empty /\ file # Unreadable /\ Numbered(file, last)
    BY <2>1, EmptyIsHonest, UnreadableAssumption
       DEF Init, Numbered, Empty, NoEntry, Has
  <2>3. OneRecordPerName /\ Covers(file, records)
    BY <2>1 DEF Init, OneRecordPerName, Covers
  <2>4. \A p \in Procs : proc[p].at = "idle"
    BY <2>1 DEF Init, Idle, Run
  <2> QED
    BY <2>2, <2>3, <2>4 DEF Alone, Lone, AtWork, AtSave
<1>2. DInv /\ Alone /\ [DeployNext]_allVars => Alone'
  BY DeployMoves, AloneStep DEF DInv
<1> QED
  BY <1>1, <1>2, DInvHolds, PTL DEF DeploySpec

\* An operator who runs one command after the other has one record of a name:
\* after a lost answer, a kill or a failed save the next upsert finds it.
THEOREM OneRecord ==
    ASSUME OneProcess
    PROVE  DeploySpec => []OneRecordPerName
<1>1. Alone => OneRecordPerName
  BY DEF Alone
<1> QED
  BY <1>1, AloneHolds, PTL

\* Nor does that operator leave a record in the zone of which the pool has no
\* entry, unless a save was cut off.
THEOREM NoOrphan ==
    ASSUME OneProcess
    PROVE  DeploySpec => []NoOrphanRecord
<1>1. Alone => NoOrphanRecord
  <2> SUFFICES ASSUME Alone, torn = "no", \A p \in Procs : proc[p].at # "write",
                      NEW r \in RecordIds, records[r] # NoRecord
               PROVE  \E i \in Ids : Record(file[i].name, file[i].target) = records[r]
    BY DEF NoOrphanRecord
  <2>1. PICK p : p \in Procs
    BY DEF OneProcess
  <2>2. Covers(file, records)
    BY <2>1 DEF Alone, Lone
  <2> QED
    BY <2>2 DEF Covers
<1> QED
  BY <1>1, AloneHolds, PTL

------------------------------------------------------------------------------
(***************************************************************************)
(* Given names, a command works on the first entry of one, so the active   *)
(* entries are the first of their names; and no other entry takes over the *)
(* record of an active one.                                                *)
(***************************************************************************)
ByName == Keys \subseteq Names

FirstOf(s, i) == Has(s, i) /\ \A j \in Ids : j < i => s[j].name # s[i].name

Shown(recs, e) == \E r \in RecordIds : recs[r] = Record(e.name, e.target)

Fit(s, recs) ==
    \A i \in Ids : Has(s, i) /\ s[i].status = "active" =>
        FirstOf(s, i) /\ Shown(recs, s[i])

FitRun(run, f, recs) ==
    /\ run.at \in AtWork => FirstOf(f, run.cur)
    /\ run.at \in AtSave => Fit(run.snap, recs)

AllFit ==
    /\ Fit(file, records)
    /\ \A p \in Procs : FitRun(proc[p], file, records)

LEMMA FindsFirst ==
    ASSUME NEW s, NEW k \in Names \cup {NoName}, NEW i \in Ids, Finds(s, k, i)
    PROVE  s[i].name = k /\ FirstOf(s, i)
<1>1. \A j \in Ids : j # k
  BY NamesAssumption
<1> QED
  BY <1>1 DEF Finds, Named, FirstOf, Has

LEMMA FitRelabelled ==
    ASSUME NEW s, NEW t, Relabelled(s, t), NEW recs, Fit(s, recs),
           \A i \in Ids : Has(s, i) /\ t[i].status = "active" =>
              s[i].status = "active" \/ (FirstOf(s, i) /\ Shown(recs, s[i]))
    PROVE  Fit(t, recs)
BY DEF Relabelled, Fit, FirstOf, Shown, Has

LEMMA ShownPut ==
    ASSUME IInv, Alone, NEW p \in Procs, CreateRecord(p) \/ UpdateRecord(p)
    PROVE  /\ Shown(records', Current(p))
           /\ \A e :
                (Shown(records, e) /\ e.name # NoName
                   /\ (e.name = Current(p).name => e.target = Current(p).target))
                => Shown(records', e)
<1> DEFINE new == Record(Current(p).name, Current(p).target)
<1>1. PICK r \in RecordIds :
         /\ records' = [records EXCEPT ![r] = new]
         /\ records[r].name \in {NoName, Current(p).name}
  BY PutsOnce
<1>2. \A q \in RecordIds : records'[q] = IF q = r THEN new ELSE records[q]
  BY <1>1 DEF IInv, Zoned
<1>3. Shown(records', Current(p))
  BY <1>2 DEF Shown
<1>4. ASSUME NEW e, Shown(records, e), e.name # NoName,
             e.name = Current(p).name => e.target = Current(p).target
      PROVE  Shown(records', e)
  <2>1. CASE e.name = Current(p).name
    BY <1>2, <1>4, <2>1 DEF Shown
  <2>2. CASE e.name # Current(p).name
    <3>1. PICK q \in RecordIds : records[q] = Record(e.name, e.target)
      BY <1>4 DEF Shown
    <3>2. q # r
      BY <1>1, <1>4, <2>2, <3>1 DEF Record
    <3> QED
      BY <1>2, <3>1, <3>2 DEF Shown
  <2> QED
    BY <2>1, <2>2
<1> QED
  BY <1>3, <1>4

LEMMA FitRuns ==
    ASSUME OneProcess, IInv, NEW p \in Procs, NEW run,
           proc' = [proc EXCEPT ![p] = run],
           Fit(file', records'), FitRun(run, file', records')
    PROVE  AllFit'
<1>1. \A q \in Procs : proc'[q] = run
  BY DEF OneProcess, IInv, Running
<1> QED
  BY <1>1 DEF AllFit

LEMMA FitSaves ==
    ASSUME OneProcess, IInv, NEW p \in Procs, NEW s, Goes(p, "truncate", s),
           Fit(file', records'), Fit(s, records')
    PROVE  AllFit'
<1> DEFINE run == Run("truncate", s, proc[p].cur, proc[p].todo)
<1>1. proc' = [proc EXCEPT ![p] = run] /\ run.at = "truncate" /\ run.snap = s
  BY DEF Goes, Run
<1> HIDE DEF run
<1>2. FitRun(run, file', records')
  BY <1>1 DEF FitRun, AtWork, AtSave
<1> QED
  BY <1>1, <1>2, FitRuns

LEMMA FitTurns ==
    ASSUME OneProcess, IInv, NEW p \in Procs, NEW todo,
           proc' = [proc EXCEPT ![p] = Turns(todo)], Fit(file', records')
    PROVE  AllFit'
<1>1. Turns(todo).at \in {"idle", "find"}
  BY DEF Turns, Idle, Run
<1>2. FitRun(Turns(todo), file', records')
  BY <1>1 DEF FitRun, AtWork, AtSave
<1> QED
  BY <1>2, FitRuns

LEMMA FitLoads ==
    ASSUME OneProcess, ByName, IInv, AllFit, NEW p \in Procs,
           \/ \E k \in Keys \cup Names, i \in Ids : ApplyDNS(p, k, i) \/ VerifyDNS(p, k, i)
           \/ ApplyAll(p) \/ ApplyNext(p)
    PROVE  AllFit'
<1>1. file' = file /\ records' = records /\ Fit(file', records')
  BY DEF ApplyDNS, VerifyDNS, ApplyAll, ApplyNext, AllFit
<1>2. ASSUME NEW place \in {"zone", "lookup"}, NEW i, NEW todo, FirstOf(file, i),
             proc' = [proc EXCEPT ![p] = Run(place, file, i, todo)]
      PROVE  AllFit'
  <2> DEFINE run == Run(place, file, i, todo)
  <2>1. run.at = place /\ run.cur = i /\ proc' = [proc EXCEPT ![p] = run]
    BY <1>2 DEF Run
  <2> HIDE DEF run
  <2>2. FitRun(run, file', records')
    BY <1>1, <1>2, <2>1 DEF FitRun, AtSave
  <2> QED
    BY <1>1, <2>1, <2>2, FitRuns
<1>3. ASSUME NEW k \in Keys \cup Names, NEW i \in Ids,
             ApplyDNS(p, k, i) \/ VerifyDNS(p, k, i)
      PROVE  AllFit'
  <2>1. FirstOf(file, i)
    BY <1>3, FindsFirst DEF ApplyDNS, VerifyDNS, ByName
  <2>2. \E place \in {"zone", "lookup"} :
           proc' = [proc EXCEPT ![p] = Run(place, file, i, {})]
    BY <1>3 DEF ApplyDNS, VerifyDNS
  <2> QED
    BY <1>2, <2>1, <2>2
<1>4. CASE ApplyAll(p)
  BY <1>1, <1>4, FitTurns DEF ApplyAll
<1>5. CASE ApplyNext(p)
  <2>1. PICK i \in proc[p].todo :
           \/ \E k \in Found(file, entries[i].name) :
                proc' = [proc EXCEPT ![p] =
                            Run("zone", file, k, proc[p].todo \ {i})]
           \/ proc' = [proc EXCEPT ![p] = Turns(proc[p].todo \ {i})]
    BY <1>5 DEF ApplyNext
  <2>2. entries[i].name \in Names \cup {NoName}
    <3>1. i \in Ids /\ entries \in [Ids -> Records]
      BY <2>1, WorkingOn DEF IInv, Rest
    <3> QED
      BY <3>1 DEF Records
  <2>3. ASSUME NEW k \in Found(file, entries[i].name) PROVE FirstOf(file, k)
    BY <2>2, FindsFirst DEF Found
  <2> QED
    BY <1>1, <1>2, <2>1, <2>3, FitTurns
<1> QED
  BY <1>3, <1>4, <1>5

LEMMA FitChanges ==
    ASSUME OneProcess, IInv, Alone, AllFit, NEW p \in Procs,
           \/ \E n \in Names, t \in Targets : Add(p, n, t)
           \/ \E k \in Keys \cup Names, i \in Ids : Remove(p, k, i)
    PROVE  AllFit'
<1>1. file \in Stores /\ Numbered(file, last) /\ last \in Nat
  BY BoundsAssumption DEF IInv, Rest, Filed, Alone
<1>2. UNCHANGED <<file, records>> /\ Fit(file, records)
  BY DEF Add, Remove, AllFit
<1>3. ASSUME NEW n \in Names, NEW t \in Targets, Add(p, n, t)
      PROVE  AllFit'
  <2> DEFINE s == [file EXCEPT ![last + 1] = NewEntry(n, t)]
  <2>1. last + 1 \in Ids /\ Goes(p, "truncate", s)
    BY <1>1, <1>3, BoundsAssumption DEF Add, Ids
  <2>2. \A i \in Ids : s[i] = IF i = last + 1 THEN NewEntry(n, t) ELSE file[i]
    BY <1>1 DEF Stores
  <2>3. NewEntry(n, t).status # "active"
    BY DEF NewEntry
  <2>4. \A i \in Ids : i \in Nat
    BY DEF Ids
  <2> HIDE DEF s
  <2>5. ASSUME NEW i \in Ids, Has(s, i), s[i].status = "active"
        PROVE  FirstOf(s, i) /\ Shown(records, s[i])
    <3>1. s[i] = file[i] /\ Has(file, i) /\ i <= last
      BY <1>1, <2>2, <2>3, <2>5 DEF Has, Numbered
    <3>2. \A j \in Ids : j < i => s[j] = file[j]
      BY <1>1, <2>2, <2>4, <3>1
    <3> QED
      BY <1>2, <2>5, <3>1, <3>2 DEF Fit, FirstOf
  <2> QED
    BY <1>2, <2>1, <2>5, FitSaves DEF Fit
<1>4. ASSUME NEW k \in Keys \cup Names, NEW i \in Ids, Remove(p, k, i)
      PROVE  AllFit'
  <2> DEFINE s == [file EXCEPT ![i].status = "disabled"]
  <2>1. /\ Relabelled(file, s) /\ s[i].status = "disabled"
        /\ \A j \in Ids \ {i} : s[j] = file[j]
    BY <1>1, StatusRelabels
  <2>2. Goes(p, "truncate", s)
    BY <1>4 DEF Remove
  <2> HIDE DEF s
  <2>3. \A j \in Ids : s[j].status = "active" => file[j].status = "active"
    BY <2>1
  <2>4. Fit(s, records)
    BY <1>2, <2>1, <2>3, FitRelabelled
  <2> QED
    BY <1>2, <2>2, <2>4, FitSaves
<1> QED
  BY <1>3, <1>4

\* The store a process at work marks: with the record shown, or failed.
LEMMA MarkedFits ==
    ASSUME IInv, Alone, AllFit, NEW p \in Procs, proc[p].at \in AtWork,
           NEW recs, Fit(file, recs), NEW status \in {"active", "failed"},
           status = "active" => Shown(recs, Current(p))
    PROVE  Fit(Marked(p, status), recs)
<1>1. /\ proc[p].snap = file /\ file \in Stores /\ proc[p].cur \in Ids
      /\ Current(p) = file[proc[p].cur] /\ FirstOf(file, proc[p].cur)
  BY WorkingOn DEF Alone, Lone, AllFit, FitRun, Current
<1> DEFINE s == Marked(p, status)
<1>2. /\ Relabelled(file, s) /\ s[proc[p].cur].status = status
      /\ \A j \in Ids \ {proc[p].cur} : s[j] = file[j]
  BY <1>1, StatusRelabels DEF Marked
<1> HIDE DEF s
<1>3. \A i \in Ids : s[i].status = "active" =>
          file[i].status = "active" \/ (FirstOf(file, i) /\ Shown(recs, file[i]))
  BY <1>1, <1>2
<1>4. Fit(s, recs)
  BY <1>2, <1>3, FitRelabelled
<1> QED
  BY <1>4 DEF s

LEMMA FitAsks ==
    ASSUME OneProcess, IInv, Alone, AllFit, NEW p \in Procs,
           Zone(p) \/ List(p) \/ CallFails(p) \/ Lookup(p)
    PROVE  AllFit'
<1>1. /\ proc[p].at \in AtWork
      /\ UNCHANGED <<file, records>> /\ Fit(file, records)
  BY DEF Zone, List, CallFails, Lookup, AtWork, AllFit
<1>2. /\ proc[p].snap = file /\ file \in Stores /\ proc[p].cur \in Ids
      /\ FirstOf(file, proc[p].cur)
  BY <1>1, WorkingOn DEF Alone, Lone, AllFit, FitRun
<1>3. ASSUME NEW place \in {"list", "create", "update"}, NEW r,
             proc' = [proc EXCEPT ![p] =
                         [Run(place, @.snap, @.cur, @.todo) EXCEPT !.rec = r]]
      PROVE  AllFit'
  <2> DEFINE run == [Run(place, proc[p].snap, proc[p].cur, proc[p].todo)
                        EXCEPT !.rec = r]
  <2>1. run.at = place /\ run.cur = proc[p].cur
    BY DEF Run
  <2>2. proc' = [proc EXCEPT ![p] = run]
    BY <1>3
  <2> HIDE DEF run
  <2>3. FitRun(run, file', records')
    BY <1>1, <1>2, <2>1 DEF FitRun, AtSave
  <2> QED
    BY <1>1, <2>2, <2>3, FitRuns
<1>4. ASSUME NEW place \in {"list", "create"}, Goes(p, place, proc[p].snap)
      PROVE  AllFit'
  <2>1. Run(place, proc[p].snap, proc[p].cur, proc[p].todo)
          = [Run(place, proc[p].snap, proc[p].cur, proc[p].todo) EXCEPT !.rec = 0]
    BY DEF Run
  <2>2. proc' = [proc EXCEPT ![p] =
                    [Run(place, @.snap, @.cur, @.todo) EXCEPT !.rec = 0]]
    BY <1>4, <2>1 DEF Goes
  <2> QED
    BY <1>3, <2>2
<1>5. Fit(Marked(p, "failed"), records)
  BY <1>1, MarkedFits
<1>6. CASE Zone(p)
  BY <1>1, <1>2, <1>4, <1>6, FitSaves DEF Zone
<1>7. CASE List(p)
  <2>1. ASSUME NEW r \in Matches(p), records[r].target = Current(p).target,
               Goes(p, "truncate", Marked(p, "active"))
        PROVE  AllFit'
    <3>1. r \in RecordIds /\ records[r] = Record(Current(p).name, Current(p).target)
      BY <2>1 DEF Matches, IInv, Zoned, Records, Record
    <3>2. Shown(records, Current(p))
      BY <3>1 DEF Shown
    <3>3. Fit(Marked(p, "active"), records)
      BY <1>1, <3>2, MarkedFits
    <3> QED
      BY <1>1, <2>1, <3>3, FitSaves
  <2>2. CASE \E r \in Matches(p) :
                proc' = [proc EXCEPT ![p] =
                            [Run("update", @.snap, @.cur, @.todo) EXCEPT !.rec = r]]
    BY <1>3, <2>2
  <2>3. CASE Goes(p, "create", proc[p].snap)
    BY <1>4, <2>3
  <2> QED
    BY <1>7, <2>1, <2>2, <2>3 DEF List
<1>8. CASE CallFails(p)
  BY <1>1, <1>4, <1>5, <1>8, FitSaves DEF CallFails
<1>9. CASE Lookup(p)
  <2>1. ASSUME NEW v
        PROVE  Fit([proc[p].snap EXCEPT ![proc[p].cur].verification = v], records)
    <3> DEFINE s == [proc[p].snap EXCEPT ![proc[p].cur].verification = v]
    <3>1. Relabelled(file, s) /\ \A i \in Ids : s[i].status = file[i].status
      BY <1>2, VerificationRelabels
    <3> HIDE DEF s
    <3>2. Fit(s, records)
      BY <1>1, <3>1, FitRelabelled
    <3> QED
      BY <3>2 DEF s
  <2> QED
    BY <1>1, <1>9, <2>1, FitSaves DEF Lookup
<1> QED
  BY <1>6, <1>7, <1>8, <1>9

LEMMA FitPuts ==
    ASSUME OneProcess, IInv, Alone, AllFit, NEW p \in Procs,
           CreateRecord(p) \/ UpdateRecord(p)
    PROVE  AllFit'
<1>1. proc[p].at \in AtWork /\ file' = file
  BY DEF CreateRecord, UpdateRecord, AtWork
<1>2. /\ proc[p].cur \in Ids /\ Current(p) = file[proc[p].cur]
      /\ FirstOf(file, proc[p].cur)
  BY <1>1, WorkingOn DEF Alone, Lone, AllFit, FitRun, Current
<1>3. Fit(file, records')
  <2> SUFFICES ASSUME NEW i \in Ids, Has(file, i), file[i].status = "active"
               PROVE  FirstOf(file, i) /\ Shown(records', file[i])
    BY DEF Fit
  <2>1. FirstOf(file, i) /\ Shown(records, file[i]) /\ file[i].name # NoName
    BY DEF AllFit, Fit, Has
  <2>2. file[i].name = Current(p).name => i = proc[p].cur
    <3>1. i \in Nat /\ proc[p].cur \in Nat
      BY <1>2 DEF Ids
    <3> QED
      BY <1>2, <2>1, <3>1 DEF FirstOf
  <2>3. file[i].name = Current(p).name => file[i].target = Current(p).target
    BY <1>2, <2>2
  <2>4. Shown(records', file[i])
    <3> DEFINE e == file[i]
    <3>1. /\ Shown(records, e) /\ e.name # NoName
          /\ e.name = Current(p).name => e.target = Current(p).target
      BY <2>1, <2>3
    <3> HIDE DEF e
    <3>2. Shown(records', e)
      BY <3>1, ShownPut
    <3> QED
      BY <3>2 DEF e
  <2> QED
    BY <2>1, <2>4
<1>4. PICK status \in {"active", "failed"} : Goes(p, "truncate", Marked(p, status))
  BY DEF CreateRecord, UpdateRecord, Answered
<1>5. Shown(records', Current(p))
  BY ShownPut
<1>6. Fit(Marked(p, status), records')
  BY <1>1, <1>3, <1>5, MarkedFits
<1> QED
  BY <1>1, <1>3, <1>4, <1>6, FitSaves

LEMMA FitSaved ==
    ASSUME OneProcess, IInv, Alone, AllFit, NEW p \in Procs,
           Truncate(p) \/ Write(p) \/ SaveFails(p) \/ Crash(p)
    PROVE  AllFit'
<1>1. records' = records /\ Fit(file, records) /\ Fit(Empty, records)
  BY DEF Truncate, Write, SaveFails, Crash, AllFit, Fit, Empty, NoEntry, Has
<1>2. CASE Truncate(p)
  <2> DEFINE run == Run("write", proc[p].snap, proc[p].cur, proc[p].todo)
  <2>1. run.at = "write" /\ run.snap = proc[p].snap /\ file' = Empty
        /\ proc' = [proc EXCEPT ![p] = run]
    BY <1>2 DEF Run, Goes, Truncate
  <2>2. Fit(proc[p].snap, records)
    BY <1>2 DEF Truncate, AllFit, FitRun, AtSave
  <2> HIDE DEF run
  <2>3. FitRun(run, file', records')
    BY <1>1, <2>1, <2>2 DEF FitRun, AtWork
  <2> QED
    BY <1>1, <2>1, <2>3, FitRuns
<1>3. CASE Write(p)
  <2>1. Fit(proc[p].snap, records)
    BY <1>3 DEF Write, AllFit, FitRun, AtSave
  <2>2. file' = proc[p].snap \/ file' = Empty
    BY <1>3, AloneWrites
  <2> QED
    BY <1>1, <1>3, <2>1, <2>2, FitTurns DEF Write, Ends
<1>4. CASE SaveFails(p) \/ Crash(p)
  <2>1. Idle = Turns({})
    BY DEF Turns
  <2> QED
    BY <1>1, <1>4, <2>1, FitTurns DEF SaveFails, Crash, Ends
<1> QED
  BY <1>2, <1>3, <1>4

LEMMA FitStep ==
    ASSUME OneProcess, ByName, IInv, Alone, AllFit, Moves
    PROVE  AllFit'
<1>1. CASE OtherFault \/ UNCHANGED vars
  BY <1>1 DEF OtherFault, vars, AllFit
<1>2. ASSUME NEW p \in Procs, PoolMove(p) PROVE AllFit'
  BY <1>2, FitChanges, FitLoads, FitAsks, FitPuts, FitSaved DEF PoolMove
<1> QED
  BY <1>1, <1>2 DEF Moves

\* Of commands run one after the other and given names, an entry that is active
\* has its record in the zone now, however many entries of its name, disabled or
\* added since, there are.
THEOREM ActiveServedNow ==
    ASSUME OneProcess, ByName
    PROVE  DeploySpec => []ActiveIsServed
<1>1. DeployInit => AllFit
  <2> SUFFICES ASSUME DeployInit PROVE AllFit
    OBVIOUS
  <2>1. Init
    BY DEF DeployInit
  <2>2. Fit(file, records)
    BY <2>1 DEF Init, Fit, Empty, NoEntry, Has
  <2>3. \A p \in Procs : proc[p].at = "idle"
    BY <2>1 DEF Init, Idle, Run
  <2> QED
    BY <2>2, <2>3 DEF AllFit, FitRun, AtWork, AtSave
<1>2. DInv /\ Alone /\ AllFit /\ [DeployNext]_allVars => AllFit'
  BY DeployMoves, FitStep DEF DInv
<1>3. AllFit => ActiveIsServed
  BY DEF AllFit, Fit, Shown, ActiveIsServed
<1> QED
  BY <1>1, <1>2, <1>3, DInvHolds, AloneHolds, PTL DEF DeploySpec

------------------------------------------------------------------------------
(***************************************************************************)
(* The domains of a deploy of that operator, one after the other: those    *)
(* that were applied are served, in the file and in what is to be saved,   *)
(* while the next one is added and applied; and a deploy goes on from an   *)
(* apply only when that made the entry active.                             *)
(***************************************************************************)
Serves(s, recs, n) ==
    \E i \in Ids : Finds(s, n, i) /\ s[i].status = "active" /\ Shown(recs, s[i])

BeforeDNS == {"check", "manifest", "env", "login", "up"}

WithDNS(d) == d.at \in {"dns", "add", "apply"} \/ (d.at = "done" /\ d.dns)

Turned(d) ==
    {d.names[k] : k \in {j \in d.todo : \A m \in d.todo : j <= m}}

Applied(d) == {d.names[k] : k \in DeployDomains(d.names) \ d.todo}

\* Nothing is left of an apply-all that is over.
Resting == \A p \in Procs : proc[p].at = "idle" => proc[p].todo = {}

Follows(d, run, f, recs) ==
    /\ d.at \notin {"none", "add", "apply"} => run.at = "idle"
    /\ d.at \in BeforeDNS => d.todo = DeployDomains(d.names)
    /\ d.at = "done" /\ d.dns => d.todo = {}
    /\ d.at = "add" => run.at \in AtSave /\ run.todo = {}
    /\ d.at = "apply" =>
          /\ run.at \notin {"find", "lookup"} /\ run.todo = {}
          /\ run.at \in AtWork =>
                FirstOf(f, run.cur) /\ \A n \in Turned(d) : Finds(f, n, run.cur)
          /\ run.at \in AtSave => \A n \in Turned(d) : Serves(run.snap, recs, n)
    /\ WithDNS(d) =>
          \A n \in Applied(d) :
             /\ run.at # "write" => Serves(f, recs, n)
             /\ run.at \in AtSave => Serves(run.snap, recs, n)

Settled ==
    /\ Resting
    /\ \A p \in Procs : Follows(deploy[p], proc[p], file, records)

LEMMA RestingStep ==
    ASSUME IInv, Resting, Moves
    PROVE  Resting'
<1>1. proc \in [Procs -> Runs]
  BY DEF IInv, Running
<1>2. CASE OtherFault \/ UNCHANGED vars
  BY <1>2 DEF OtherFault, vars, Resting
<1>3. ASSUME NEW p \in Procs, PoolMove(p) PROVE Resting'
  <2>1. ASSUME NEW run, proc' = [proc EXCEPT ![p] = run],
               run.at = "idle" => run.todo = {}
        PROVE  Resting'
    BY <1>1, <2>1 DEF Resting
  <2>2. \A todo : Turns(todo).at = "idle" => Turns(todo).todo = {}
    BY DEF Turns, Idle, Run
  <2>3. Idle.todo = {}
    BY DEF Idle, Run
  <2>4. CASE \E todo : proc' = [proc EXCEPT ![p] = Turns(todo)]
    BY <2>1, <2>2, <2>4
  <2>5. CASE proc' = [proc EXCEPT ![p] = Idle]
    BY <2>1, <2>3, <2>5
  <2>6. ASSUME NEW place \in Places \ {"idle"}, NEW s, NEW i, NEW todo,
               proc' = [proc EXCEPT ![p] = Run(place, s, i, todo)]
        PROVE  Resting'
    <3>1. Run(place, s, i, todo).at # "idle"
      BY DEF Run
    <3> QED
      BY <2>1, <2>6, <3>1
  <2>7. ASSUME NEW place \in Places \ {"idle"}, NEW s, Goes(p, place, s)
        PROVE  Resting'
    BY <2>6, <2>7 DEF Goes
  <2>8. Places \ {"idle"} = {"find", "zone", "list", "create", "update", "lookup",
                             "truncate", "write"}
    BY DEF Places
  <2>9. CASE \/ \E n \in Names, t \in Targets : Add(p, n, t)
             \/ \E k \in Keys \cup Names, i \in Ids : Remove(p, k, i)
    BY <2>7, <2>8, <2>9 DEF Add, Remove
  <2>10. CASE \E k \in Keys \cup Names, i \in Ids : ApplyDNS(p, k, i) \/ VerifyDNS(p, k, i)
    BY <2>6, <2>8, <2>10 DEF ApplyDNS, VerifyDNS
  <2>11. CASE ApplyAll(p) \/ ApplyNext(p)
    BY <2>4, <2>6, <2>8, <2>11 DEF ApplyAll, ApplyNext
  <2>12. CASE Zone(p) \/ CallFails(p) \/ CreateRecord(p) \/ UpdateRecord(p)
              \/ Lookup(p) \/ Truncate(p)
    BY <2>7, <2>8, <2>12
       DEF Zone, CallFails, CreateRecord, UpdateRecord, Answered, Lookup, Truncate
  <2>13. CASE List(p)
    <3>1. CASE \E place \in {"truncate", "create"} : \E s : Goes(p, place, s)
      BY <2>7, <2>8, <3>1
    <3>2. ASSUME NEW r, proc' = [proc EXCEPT ![p] =
                            [Run("update", @.snap, @.cur, @.todo) EXCEPT !.rec = r]]
          PROVE  Resting'
      <4> DEFINE run == [Run("update", proc[p].snap, proc[p].cur, proc[p].todo)
                            EXCEPT !.rec = r]
      <4>1. run.at = "update" /\ proc' = [proc EXCEPT ![p] = run]
        BY <3>2 DEF Run
      <4> HIDE DEF run
      <4> QED
        BY <2>1, <4>1
    <3> QED
      BY <2>13, <3>1, <3>2 DEF List
  <2>14. CASE Write(p) \/ SaveFails(p) \/ Crash(p)
    BY <2>4, <2>5, <2>14 DEF Write, SaveFails, Crash, Ends
  <2> QED
    BY <1>3, <2>9, <2>10, <2>11, <2>12, <2>13, <2>14 DEF PoolMove
<1> QED
  BY <1>2, <1>3 DEF Moves

\* Stores that serve what another one does.
LEMMA ServesRelabelled ==
    ASSUME NEW s, NEW t, Relabelled(s, t), NEW recs, NEW n, Serves(s, recs, n),
           \A i \in Ids : s[i].status = "active" => t[i].status = "active"
    PROVE  Serves(t, recs, n)
<1>1. PICK i \in Ids : Finds(s, n, i) /\ s[i].status = "active" /\ Shown(recs, s[i])
  BY DEF Serves
<1>2. Finds(t, n, i)
  BY <1>1 DEF Finds, Named, Has, Relabelled
<1>3. Shown(recs, t[i])
  BY <1>1 DEF Shown, Relabelled
<1> QED
  BY <1>1, <1>2, <1>3 DEF Serves

LEMMA ServesAdded ==
    ASSUME NEW s \in Stores, NEW m \in Nat, Numbered(s, m), m + 1 \in Ids,
           NEW e, NEW recs, NEW n, Serves(s, recs, n)
    PROVE  Serves([s EXCEPT ![m + 1] = e], recs, n)
<1> DEFINE t == [s EXCEPT ![m + 1] = e]
<1>1. PICK i \in Ids : Finds(s, n, i) /\ s[i].status = "active" /\ Shown(recs, s[i])
  BY DEF Serves
<1>2. \A j \in Ids : j # m + 1 => t[j] = s[j]
  BY DEF Stores
<1>3. i <= m /\ \A j \in Ids : j \in Nat
  BY <1>1 DEF Finds, Named, Numbered, Ids
<1>4. t[i] = s[i] /\ \A j \in Ids : j < i => t[j] = s[j]
  BY <1>2, <1>3
<1> HIDE DEF t
<1>5. Finds(t, n, i)
  BY <1>1, <1>4 DEF Finds, Named, Has
<1>6. Serves(t, recs, n)
  BY <1>1, <1>4, <1>5 DEF Serves
<1> QED
  BY <1>6 DEF t

\* The record that a process puts there is of the entry that serves its name.
LEMMA ServesPut ==
    ASSUME IInv, Alone, NEW p \in Procs, CreateRecord(p) \/ UpdateRecord(p),
           FirstOf(file, proc[p].cur), NEW n \in Names, Serves(file, records, n)
    PROVE  Serves(file, records', n)
<1>1. PICK i \in Ids : /\ Finds(file, n, i) /\ file[i].status = "active"
                       /\ Shown(records, file[i])
  BY DEF Serves
<1>2. file[i].name = n /\ FirstOf(file, i)
  BY <1>1, FindsFirst
<1>3. proc[p].cur \in Ids /\ Current(p) = file[proc[p].cur]
  <2>1. proc[p].at \in AtWork
    BY DEF CreateRecord, UpdateRecord, AtWork
  <2> QED
    BY <2>1, WorkingOn DEF Alone, Lone, Current
<1>4. file[i].name = Current(p).name => i = proc[p].cur
  <2>1. i \in Nat /\ proc[p].cur \in Nat
    BY <1>3 DEF Ids
  <2> QED
    BY <1>2, <1>3, <2>1 DEF FirstOf
<1> DEFINE e == file[i]
<1>5. /\ Shown(records, e) /\ e.name # NoName
      /\ e.name = Current(p).name => e.target = Current(p).target
  BY <1>1, <1>2, <1>3, <1>4, NothingAssumption
<1> HIDE DEF e
<1>6. Shown(records', e)
  BY <1>5, ShownPut
<1> QED
  BY <1>1, <1>6 DEF Serves, e

LEMMA MarkedServes ==
    ASSUME IInv, Alone, NEW p \in Procs, proc[p].at \in AtWork, NEW recs, NEW n,
           \/ Serves(file, recs, n)
           \/ Finds(file, n, proc[p].cur) /\ Shown(recs, Current(p))
    PROVE  Serves(Marked(p, "active"), recs, n)
<1>1. /\ proc[p].snap = file /\ file \in Stores /\ proc[p].cur \in Ids
      /\ Current(p) = file[proc[p].cur]
  BY WorkingOn DEF Alone, Lone, Current
<1> DEFINE s == Marked(p, "active")
<1>2. /\ Relabelled(file, s) /\ s[proc[p].cur].status = "active"
      /\ \A j \in Ids \ {proc[p].cur} : s[j] = file[j]
  BY <1>1, StatusRelabels DEF Marked
<1> HIDE DEF s
<1>3. CASE Serves(file, recs, n)
  <2>1. \A i \in Ids : file[i].status = "active" => s[i].status = "active"
    BY <1>2
  <2>2. Serves(s, recs, n)
    BY <1>2, <1>3, <2>1, ServesRelabelled
  <2> QED
    BY <2>2 DEF s
<1>4. CASE Finds(file, n, proc[p].cur) /\ Shown(recs, Current(p))
  <2>1. Finds(s, n, proc[p].cur)
    BY <1>1, <1>2, <1>4 DEF Finds, Named, Has, Relabelled
  <2>2. Shown(recs, s[proc[p].cur])
    BY <1>1, <1>2, <1>4 DEF Shown, Relabelled
  <2>3. Serves(s, recs, n)
    BY <1>1, <1>2, <2>1, <2>2 DEF Serves
  <2> QED
    BY <2>3 DEF s
<1> QED
  BY <1>3, <1>4

\* What is applied is named.
LEMMA AppliedAreNames ==
    ASSUME NEW d \in Deploys
    PROVE  Applied(d) \subseteq Names
<1>1. d.names \in Seq(Names \cup {NoName})
  BY DEF Deploys
<1> QED
  BY <1>1 DEF Applied, DeployDomains

------------------------------------------------------------------------------
(* Each step follows.                                                      *)

LEMMA FollowsRuns ==
    ASSUME OneProcess, Resting', NEW p \in Procs,
           Follows(deploy'[p], proc'[p], file', records')
    PROVE  Settled'
<1>1. \A q \in Procs : q = p
  BY DEF OneProcess
<1> QED
  BY <1>1 DEF Settled

LEMMA NoneFollows ==
    ASSUME NEW d, d.at = "none", NEW run, NEW f, NEW recs
    PROVE  Follows(d, run, f, recs)
BY DEF Follows, BeforeDNS, WithDNS

\* A deploy that turns to stage of its own.
LEMMA Advanced ==
    ASSUME DTypes, NEW p \in Procs, NEW stage \in Stages, To(p, stage)
    PROVE  /\ deploy'[p].at = stage /\ deploy'[p].names = deploy[p].names
           /\ deploy'[p].todo = deploy[p].todo /\ deploy'[p].dns = deploy[p].dns
           /\ Turned(deploy'[p]) = Turned(deploy[p])
           /\ Applied(deploy'[p]) = Applied(deploy[p])
<1>1. deploy[p] \in Deploys
  BY DEF DTypes
<1> DEFINE d == [deploy[p] EXCEPT !.at = stage]
<1>2. d.at = stage /\ d.names = deploy[p].names /\ d.todo = deploy[p].todo
      /\ d.dns = deploy[p].dns
  BY <1>1, Staged
<1>3. deploy'[p] = d
  BY DEF To, DTypes
<1> HIDE DEF d
<1> QED
  BY <1>2, <1>3 DEF Turned, Applied

LEMMA RemoteFollows ==
    ASSUME DInv, Settled, NEW p \in Procs,
           \/ \E r \in Requests : BeginDeploy(p, r)
           \/ CheckCompose(p) \/ WriteManifest(p) \/ WriteEnv(p)
           \/ RegistryLogin(p) \/ ComposeUp(p) \/ RemoteFails(p)
    PROVE  Follows(deploy'[p], proc'[p], file', records')
<1>1. UNCHANGED <<file, proc, records>>
  BY DEF BeginDeploy, CheckCompose, WriteManifest, WriteEnv, RegistryLogin,
         ComposeUp, RemoteFails, vars
<1>2. DTypes /\ deploy[p] \in Deploys /\ Follows(deploy[p], proc[p], file, records)
  BY DEF DInv, DTypes, Settled
<1>3. ASSUME deploy'[p].at \in BeforeDNS, proc[p].at = "idle",
             deploy'[p].todo = DeployDomains(deploy'[p].names)
      PROVE  Follows(deploy'[p], proc'[p], file', records')
  BY <1>1, <1>3 DEF Follows, BeforeDNS, WithDNS
<1>4. CASE \E r \in Requests : BeginDeploy(p, r)
  <2>1. PICK r \in Requests : BeginDeploy(p, r)
    BY <1>4
  <2> DEFINE d == [at |-> "check", nr |-> begun + 1,
                   node |-> SelectDeployNode(r.wanted),
                   target |-> Nodes[SelectDeployNode(r.wanted)].public,
                   root |-> r.root, dns |-> r.dns, names |-> r.candidates,
                   todo |-> DeployDomains(r.candidates), logins |-> r.logins]
  <2>2. deploy' = [deploy EXCEPT ![p] = d] /\ proc[p].at = "idle"
    BY <2>1 DEF BeginDeploy, Free
  <2>3. d.at = "check" /\ d.todo = DeployDomains(d.names)
    OBVIOUS
  <2> HIDE DEF d
  <2>4. deploy'[p] = d
    BY <1>2, <2>2 DEF DTypes
  <2> QED
    BY <1>3, <2>2, <2>3, <2>4 DEF BeforeDNS
<1>5. CASE CheckCompose(p) \/ WriteManifest(p) \/ WriteEnv(p)
           \/ (RegistryLogin(p) /\ To(p, "up"))
  <2>1. PICK stage \in {"manifest", "env", "login", "up"} : To(p, stage)
    BY <1>5 DEF CheckCompose, WriteManifest, WriteEnv
  <2>2. deploy[p].at \in {"check", "manifest", "env", "login"}
    BY <1>5 DEF CheckCompose, WriteManifest, WriteEnv, RegistryLogin
  <2>3. proc[p].at = "idle" /\ deploy[p].todo = DeployDomains(deploy[p].names)
    BY <1>2, <2>2 DEF Follows, BeforeDNS
  <2>4. stage \in Stages /\ stage \in BeforeDNS
    BY DEF Stages, BeforeDNS
  <2> QED
    BY <1>2, <1>3, <2>1, <2>3, <2>4, Advanced
<1>6. CASE RegistryLogin(p) /\ deploy[p].logins > 0
  <2> DEFINE d == [deploy[p] EXCEPT !.logins = deploy[p].logins - 1]
  <2>1. deploy' = [deploy EXCEPT ![p] = d] /\ deploy[p].at = "login"
    BY <1>6 DEF RegistryLogin
  <2>2. d.at = "login" /\ d.names = deploy[p].names /\ d.todo = deploy[p].todo
    BY <1>2, <2>1 DEF Deploys
  <2> HIDE DEF d
  <2>3. deploy'[p] = d
    BY <1>2, <2>1 DEF DTypes
  <2>4. proc[p].at = "idle" /\ deploy[p].todo = DeployDomains(deploy[p].names)
    BY <1>2, <2>1 DEF Follows, BeforeDNS
  <2> QED
    BY <1>3, <2>2, <2>3, <2>4 DEF BeforeDNS
<1>7. CASE ComposeUp(p)
  <2>1. To(p, AfterUp(p)) /\ deploy[p].at = "up"
    BY <1>7 DEF ComposeUp
  <2>2. proc[p].at = "idle" /\ deploy[p].todo = DeployDomains(deploy[p].names)
    BY <1>2, <2>1 DEF Follows, BeforeDNS
  <2>3. AfterUp(p) \in {"done", "none", "dns"}
        /\ (AfterUp(p) = "done" => ~deploy[p].dns \/ deploy[p].todo = {})
    BY DEF AfterUp
  <2>4. AfterUp(p) \in Stages
    BY <2>3 DEF Stages
  <2>5. /\ deploy'[p].at = AfterUp(p) /\ deploy'[p].dns = deploy[p].dns
        /\ deploy'[p].todo = deploy[p].todo
        /\ Applied(deploy'[p]) = Applied(deploy[p])
    BY <1>2, <2>1, <2>4, Advanced
  <2>6. Applied(deploy[p]) = {}
    BY <2>2 DEF Applied
  <2>7. deploy'[p].at \notin BeforeDNS /\ deploy'[p].at # "add" /\ deploy'[p].at # "apply"
    BY <2>3, <2>5 DEF BeforeDNS
  <2> QED
    BY <1>1, <2>2, <2>3, <2>5, <2>6, <2>7 DEF Follows
<1>8. CASE RemoteFails(p)
  <2>1. To(p, "none") /\ "none" \in Stages
    BY <1>8 DEF RemoteFails, Failed, Stages
  <2> QED
    BY <1>2, <2>1, Advanced, NoneFollows
<1> QED
  BY <1>4, <1>5, <1>6, <1>7, <1>8 DEF RegistryLogin

\* A deploy turns to a domain: it is in the pool, or added; and then applied.
LEMMA DomainFollows ==
    ASSUME DInv, Alone, Settled, NEW p \in Procs,
           FindDomain(p) \/ AddDomain(p) \/ ApplyDomain(p)
    PROVE  Follows(deploy'[p], proc'[p], file', records')
<1>1. /\ DTypes /\ deploy[p] \in Deploys /\ IInv
      /\ Follows(deploy[p], proc[p], file, records)
      /\ proc[p].at = "idle" /\ proc[p].todo = {}
  BY DEF DInv, DTypes, Settled, Resting, FindDomain, AddDomain, ApplyDomain
<1>2. \A n \in Applied(deploy[p]) : Serves(file, records, n)
  <2>1. WithDNS(deploy[p])
    BY DEF FindDomain, AddDomain, ApplyDomain, WithDNS
  <2> QED
    BY <1>1, <2>1 DEF Follows
<1>3. {"none", "add", "apply"} \subseteq Stages
  BY DEF Stages
<1>4. CASE Failed(p)
  BY <1>1, <1>3, <1>4, Advanced, NoneFollows DEF Failed
<1>5. CASE FindDomain(p)
  <2>1. To(p, "apply") /\ UNCHANGED <<file, proc, records>>
    BY <1>5 DEF FindDomain, vars
  <2>2. deploy'[p].at = "apply" /\ Applied(deploy'[p]) = Applied(deploy[p])
    BY <1>1, <1>3, <2>1, Advanced
  <2> QED
    BY <1>1, <1>2, <2>1, <2>2 DEF Follows, BeforeDNS, AtWork, AtSave
<1>6. CASE AddDomain(p) /\ ~Failed(p)
  <2>1. PICK k \in Turn(p) : Add(p, deploy[p].names[k], deploy[p].target)
    BY <1>6 DEF AddDomain
  <2>2. To(p, "add")
    BY <1>6 DEF AddDomain
  <2> DEFINE s == [file EXCEPT ![last + 1] =
                      NewEntry(deploy[p].names[k], deploy[p].target)]
  <2>3. /\ Goes(p, "truncate", s) /\ UNCHANGED <<file, records>>
        /\ last < MaxEntries
    BY <2>1 DEF Add
  <2>4. /\ file \in Stores /\ Numbered(file, last) /\ last \in Nat
    BY <1>1, BoundsAssumption DEF IInv, Rest, Filed, Alone
  <2>5. last + 1 \in Ids
    BY <2>3, <2>4, BoundsAssumption DEF Ids
  <2>6. \A n \in Applied(deploy[p]) : Serves(s, records, n)
    BY <1>2, <2>4, <2>5, ServesAdded
  <2> HIDE DEF s
  <2>7. proc'[p].at = "truncate" /\ proc'[p].snap = s /\ proc'[p].todo = {}
    BY <1>1, <2>3 DEF Goes, Run, IInv, Running
  <2>8. deploy'[p].at = "add" /\ Applied(deploy'[p]) = Applied(deploy[p])
    BY <1>1, <1>3, <2>2, Advanced
  <2> QED
    BY <1>2, <2>3, <2>6, <2>7, <2>8 DEF Follows, BeforeDNS, AtSave
<1>7. CASE ApplyDomain(p) /\ ~Failed(p)
  <2>1. PICK k \in Turn(p), i \in Ids : ApplyDNS(p, deploy[p].names[k], i)
    BY <1>7 DEF ApplyDomain
  <2>2. deploy' = deploy /\ deploy[p].at = "apply"
    BY <1>7 DEF ApplyDomain
  <2>3. /\ proc' = [proc EXCEPT ![p] = Run("zone", file, i, {})]
        /\ UNCHANGED <<file, records>> /\ Finds(file, deploy[p].names[k], i)
    BY <2>1 DEF ApplyDNS
  <2>4. FirstOf(file, i)
    BY <1>1, <2>3, FindsFirst, TurnIsName DEF DInv
  <2>5. \A n \in Turned(deploy[p]) : n = deploy[p].names[k]
    <3>1. deploy[p].todo \in SUBSET Nat
      BY <1>1 DEF Deploys
    <3>2. \A j \in deploy[p].todo : (\A m \in deploy[p].todo : j <= m) => j = k
      BY <3>1 DEF Turn
    <3> QED
      BY <3>2 DEF Turned
  <2>6. proc'[p].at = "zone" /\ proc'[p].cur = i /\ proc'[p].todo = {}
    BY <1>1, <2>3 DEF Run, IInv, Running
  <2> QED
    BY <1>2, <2>2, <2>3, <2>4, <2>5, <2>6 DEF Follows, BeforeDNS, AtWork, AtSave
<1> QED
  BY <1>4, <1>5, <1>6, <1>7

\* An add or an apply of a deploy is still under way.
LEMMA WorkFollows ==
    ASSUME DInv, Alone, Settled, NEW p \in Procs,
           deploy[p].at = "apply", proc[p].at \in AtWork,
           Zone(p) \/ List(p) \/ CreateRecord(p) \/ UpdateRecord(p) \/ CallFails(p),
           ~ReturnsError(p), UNCHANGED deploy
    PROVE  Follows(deploy'[p], proc'[p], file', records')
<1>1. /\ DTypes /\ deploy[p] \in Deploys /\ IInv
      /\ Follows(deploy[p], proc[p], file, records)
      /\ proc \in [Procs -> Runs] /\ proc[p] \in Runs /\ faults \in Nat
  BY BoundsAssumption DEF DInv, DTypes, Settled, IInv, Running, Rest
<1>2. /\ \A n \in Applied(deploy[p]) : Serves(file, records, n)
      /\ FirstOf(file, proc[p].cur)
      /\ \A n \in Turned(deploy[p]) : Finds(file, n, proc[p].cur)
      /\ proc[p].todo = {}
  <2>1. proc[p].at # "write" /\ WithDNS(deploy[p])
    BY DEF AtWork, WithDNS
  <2> QED
    BY <1>1, <2>1 DEF Follows
<1>3. file' = file
  BY DEF Zone, List, CreateRecord, UpdateRecord, CallFails
<1>4. ASSUME NEW place \in {"list", "create", "update"}, NEW s, NEW r,
             proc' = [proc EXCEPT ![p] =
                         [Run(place, s, @.cur, @.todo) EXCEPT !.rec = r]],
             records' = records
      PROVE  Follows(deploy'[p], proc'[p], file', records')
  <2>1. /\ proc'[p].at = place /\ proc'[p].cur = proc[p].cur
        /\ proc'[p].todo = {}
    BY <1>1, <1>2, <1>4 DEF Run
  <2> QED
    BY <1>2, <1>3, <1>4, <2>1 DEF Follows, BeforeDNS, AtWork, AtSave
<1>5. ASSUME NEW place \in {"list", "create"}, Goes(p, place, proc[p].snap),
             records' = records
      PROVE  Follows(deploy'[p], proc'[p], file', records')
  <2>1. Run(place, proc[p].snap, proc[p].cur, proc[p].todo)
          = [Run(place, proc[p].snap, proc[p].cur, proc[p].todo) EXCEPT !.rec = 0]
    BY DEF Run
  <2>2. proc' = [proc EXCEPT ![p] =
                    [Run(place, proc[p].snap, @.cur, @.todo) EXCEPT !.rec = 0]]
    BY <1>5, <2>1 DEF Goes
  <2> QED
    BY <1>4, <1>5, <2>2
<1>6. ASSUME Goes(p, "truncate", Marked(p, "active")), Shown(records', Current(p)),
             \A n \in Applied(deploy[p]) : Serves(file, records', n)
      PROVE  Follows(deploy'[p], proc'[p], file', records')
  <2> DEFINE s == Marked(p, "active")
  <2>1. /\ \A n \in Applied(deploy[p]) : Serves(s, records', n)
        /\ \A n \in Turned(deploy[p]) : Serves(s, records', n)
    BY <1>1, <1>2, <1>6, MarkedServes
  <2> HIDE DEF s
  <2>2. proc'[p].at = "truncate" /\ proc'[p].snap = s /\ proc'[p].todo = {}
    BY <1>1, <1>2, <1>6 DEF Goes, Run, s
  <2> QED
    BY <1>3, <1>6, <2>1, <2>2 DEF Follows, BeforeDNS, AtWork, AtSave
<1>7. ASSUME NEW s, Goes(p, "truncate", s), Fault PROVE FALSE
  <2>1. proc'[p].at = "truncate" /\ faults' # faults
    BY <1>1, <1>7 DEF Goes, Run, Fault
  <2> QED
    BY <2>1 DEF ReturnsError
<1>8. CASE Zone(p)
  BY <1>5, <1>7, <1>8 DEF Zone
<1>9. CASE CallFails(p)
  BY <1>5, <1>7, <1>9 DEF CallFails
<1>10. CASE List(p)
  <2>1. records' = records
    BY <1>10 DEF List
  <2>2. ASSUME NEW r \in Matches(p), records[r].target = Current(p).target,
               Goes(p, "truncate", Marked(p, "active"))
        PROVE  Follows(deploy'[p], proc'[p], file', records')
    <3>1. r \in RecordIds /\ records[r] = Record(Current(p).name, Current(p).target)
      BY <1>1, <2>2 DEF Matches, IInv, Zoned, Records, Record
    <3>2. Shown(records', Current(p))
      BY <2>1, <3>1 DEF Shown
    <3> QED
      BY <1>2, <1>6, <2>1, <2>2, <3>2
  <2>3. CASE \E r \in Matches(p) :
                proc' = [proc EXCEPT ![p] =
                            [Run("update", @.snap, @.cur, @.todo) EXCEPT !.rec = r]]
    BY <1>4, <2>1, <2>3
  <2>4. CASE Goes(p, "create", proc[p].snap)
    BY <1>5, <2>1, <2>4
  <2> QED
    BY <1>10, <2>2, <2>3, <2>4 DEF List
<1>11. CASE CreateRecord(p) \/ UpdateRecord(p)
  <2>1. Goes(p, "truncate", Marked(p, "active"))
    BY <1>7, <1>11 DEF CreateRecord, UpdateRecord, Answered
  <2>2. Shown(records', Current(p))
    BY <1>1, <1>11, ShownPut
  <2>3. \A n \in Applied(deploy[p]) : Serves(file, records', n)
    BY <1>1, <1>2, <1>11, ServesPut, AppliedAreNames
  <2> QED
    BY <1>6, <2>1, <2>2, <2>3
<1> QED
  BY <1>8, <1>9, <1>10, <1>11

LEMMA SaveFollows ==
    ASSUME DInv, Alone, Settled, NEW p \in Procs,
           deploy[p].at \in {"add", "apply"}, proc[p].at \in AtSave,
           Truncate(p) \/ Write(p) \/ SaveFails(p) \/ Crash(p),
           ~ReturnsError(p), Continues(p)
    PROVE  Follows(deploy'[p], proc'[p], file', records')
<1>1. /\ DTypes /\ deploy[p] \in Deploys /\ IInv
      /\ Follows(deploy[p], proc[p], file, records)
      /\ proc \in [Procs -> Runs] /\ proc[p] \in Runs /\ faults \in Nat
  BY BoundsAssumption DEF DInv, DTypes, Settled, IInv, Running, Rest
<1>2. /\ \A n \in Applied(deploy[p]) : Serves(proc[p].snap, records, n)
      /\ deploy[p].at = "apply" =>
            \A n \in Turned(deploy[p]) : Serves(proc[p].snap, records, n)
      /\ proc[p].todo = {}
  BY <1>1 DEF Follows, WithDNS
<1>3. records' = records
  BY DEF Truncate, Write, SaveFails, Crash
<1>4. CASE Truncate(p)
  <2>1. /\ proc'[p].at = "write" /\ proc'[p].snap = proc[p].snap
        /\ proc'[p].todo = {}
    BY <1>1, <1>2, <1>4 DEF Truncate, Goes, Run
  <2>2. deploy' = deploy
    BY <2>1 DEF Continues
  <2> QED
    BY <1>2, <1>3, <2>1, <2>2 DEF Follows, BeforeDNS, AtWork, AtSave
<1>5. CASE Write(p)
  <2>1. proc'[p] = Idle /\ proc'[p].at = "idle" /\ proc'[p].todo = {}
    BY <1>1, <1>2, <1>5 DEF Write, Ends, Turns, Idle, Run
  <2>2. ASSUME NEW n, Serves(proc[p].snap, records, n)
        PROVE  Serves(file', records', n)
    <3>1. \E i \in Ids : Has(proc[p].snap, i)
      BY <2>2 DEF Serves, Finds, Named
    <3> QED
      BY <1>3, <1>5, <2>2, <3>1, AloneWrites
  <2>3. CASE deploy[p].at = "add" /\ To(p, "apply")
    <3>1. "apply" \in Stages
      BY DEF Stages
    <3>2. deploy'[p].at = "apply" /\ Applied(deploy'[p]) = Applied(deploy[p])
      BY <1>1, <2>3, <3>1, Advanced
    <3> QED
      BY <1>2, <2>1, <2>2, <3>2 DEF Follows, BeforeDNS, AtWork, AtSave
  <2>4. ASSUME NEW stage \in {"done", "dns"}, deploy[p].at = "apply",
               stage = "done" => deploy[p].todo \ Turn(p) = {},
               deploy' = [deploy EXCEPT ![p] =
                             [@ EXCEPT !.todo = deploy[p].todo \ Turn(p),
                                       !.at = stage]]
        PROVE  Follows(deploy'[p], proc'[p], file', records')
    <3> DEFINE d == [deploy[p] EXCEPT !.todo = deploy[p].todo \ Turn(p), !.at = stage]
    <3>1. /\ d.at = stage /\ d.names = deploy[p].names
          /\ d.todo = deploy[p].todo \ Turn(p)
      BY <1>1 DEF Deploys
    <3>2. deploy'[p] = d
      BY <1>1, <2>4 DEF DTypes
    <3> HIDE DEF d
    <3>3. Applied(d) \subseteq Applied(deploy[p]) \cup Turned(deploy[p])
      BY <3>1 DEF Applied, Turned, Turn
    <3>4. \A n \in Applied(d) : Serves(file', records', n)
      BY <1>2, <2>2, <2>4, <3>3
    <3> QED
      BY <2>1, <2>4, <3>1, <3>2, <3>4 DEF Follows, BeforeDNS, AtSave
  <2>5. \/ deploy[p].at = "add" /\ To(p, "apply")
        \/ /\ deploy[p].at = "apply"
           /\ deploy' = [deploy EXCEPT ![p] =
                [@ EXCEPT !.todo = deploy[p].todo \ Turn(p),
                          !.at = IF deploy[p].todo \ Turn(p) = {}
                                 THEN "done" ELSE "dns"]]
    BY <2>1 DEF Continues
  <2>6. CASE deploy[p].todo \ Turn(p) = {}
    BY <2>3, <2>4, <2>5, <2>6
  <2>7. CASE deploy[p].todo \ Turn(p) # {}
    BY <2>3, <2>4, <2>5, <2>7
  <2> QED
    BY <2>6, <2>7
<1>6. ~SaveFails(p) /\ ~Crash(p)
  <2>1. ASSUME SaveFails(p) \/ Crash(p) PROVE FALSE
    <3>1. proc'[p] = Idle /\ faults' # faults
      BY <1>1, <1>2, <2>1 DEF SaveFails, Crash, Ends, Turns, Fault
    <3>2. Idle.at # "list"
      BY DEF Idle, Run
    <3> QED
      BY <3>1, <3>2 DEF ReturnsError
  <2> QED
    BY <2>1
<1> QED
  BY <1>4, <1>5, <1>6

LEMMA PoolFollows ==
    ASSUME DInv, Alone, Settled, NEW p \in Procs, PoolStep(p)
    PROVE  Follows(deploy'[p], proc'[p], file', records')
<1>1. DTypes /\ IInv /\ Follows(deploy[p], proc[p], file, records)
  BY DEF DInv, Settled
<1>2. proc[p].at # "idle"
  BY DEF PoolStep, ApplyNext, Zone, List, CreateRecord, UpdateRecord, CallFails,
         Lookup, Truncate, Write, SaveFails, Crash
<1>3. CASE Failed(p)
  BY <1>1, <1>3, Advanced, NoneFollows DEF Failed, Stages
<1>4. CASE deploy[p].at \in {"none", "done"} /\ UNCHANGED deploy
  BY <1>1, <1>2, <1>4, NoneFollows DEF Follows
<1>5. CASE deploy[p].at \in {"add", "apply"} /\ ~ReturnsError(p)
  <2>1. Continues(p)
    BY DEF PoolStep
  <2>2. CASE proc[p].at \in AtSave
    <3>1. Truncate(p) \/ Write(p) \/ SaveFails(p) \/ Crash(p)
      BY <2>2 DEF PoolStep, AtSave, ApplyNext, Zone, List, CreateRecord,
                  UpdateRecord, CallFails, Lookup
    <3> QED
      BY <1>5, <2>1, <2>2, <3>1, SaveFollows
  <2>3. CASE proc[p].at \in AtWork
    <3>1. deploy[p].at = "apply" /\ proc[p].at # "lookup"
      BY <1>1, <1>5, <2>3 DEF Follows, AtWork, AtSave
    <3>2. \/ Zone(p) \/ List(p) \/ CreateRecord(p) \/ UpdateRecord(p) \/ CallFails(p)
          \/ Crash(p)
      BY <2>3, <3>1 DEF PoolStep, AtWork, ApplyNext, Lookup, Truncate, Write, SaveFails
    <3>3. ~Crash(p)
      <4>1. ASSUME Crash(p) PROVE FALSE
        <5>1. proc'[p] = Idle /\ faults' # faults
          BY <1>1, <4>1, BoundsAssumption DEF Crash, Fault, IInv, Running, Rest
        <5>2. Idle.at # "list"
          BY DEF Idle, Run
        <5> QED
          BY <1>5, <5>1, <5>2 DEF ReturnsError
      <4> QED
        BY <4>1
    <3>4. proc'[p].at # "idle"
      <4>1. proc \in [Procs -> Runs]
        BY <1>1 DEF IInv, Running
      <4> QED
        BY <3>2, <3>3, <4>1 DEF Zone, List, CreateRecord, UpdateRecord, CallFails,
                                Answered, Goes, Run
    <3>5. UNCHANGED deploy
      BY <1>5, <2>1, <3>4 DEF Continues
    <3> QED
      BY <1>5, <2>3, <3>1, <3>2, <3>3, <3>5, WorkFollows
  <2>4. proc[p].at \in AtSave \cup AtWork
    <3>1. proc[p].at \in Places
      BY <1>1 DEF IInv, Running, Runs
    <3>2. CASE deploy[p].at = "add"
      BY <1>1, <3>2 DEF Follows
    <3>3. CASE deploy[p].at = "apply"
      BY <1>1, <1>2, <3>1, <3>3 DEF Follows, Places, AtWork, AtSave
    <3> QED
      BY <1>5, <3>2, <3>3
  <2> QED
    BY <2>2, <2>3, <2>4
<1> QED
  BY <1>3, <1>4, <1>5 DEF PoolStep, Continues

LEMMA SettledStep ==
    ASSUME OneProcess, DInv, Alone, Settled, [DeployNext]_allVars
    PROVE  Settled'
<1>1. Resting'
  BY DeployMoves, RestingStep DEF DInv, Settled
<1>2. CASE UNCHANGED <<file, proc, records, deploy>>
  BY <1>2 DEF Settled, Resting
<1>3. ASSUME NEW p \in Procs, DomainCommand(p)
      PROVE  Follows(deploy'[p], proc'[p], file', records')
  <2>1. To(p, "none") /\ "none" \in Stages /\ DTypes
    BY <1>3 DEF DomainCommand, Stages, DInv
  <2> QED
    BY <2>1, Advanced, NoneFollows
<1>4. CASE DeployNext
  <2>1. CASE \E n \in NodeIds : LateUp(n) \/ LateWrite(n)
    BY <1>2, <2>1 DEF LateUp, LateWrite, vars
  <2>2. CASE \E p \in Procs :
               \/ \E r \in Requests : BeginDeploy(p, r)
               \/ CheckCompose(p) \/ WriteManifest(p) \/ WriteEnv(p)
               \/ RegistryLogin(p) \/ ComposeUp(p) \/ RemoteFails(p)
               \/ FindDomain(p) \/ AddDomain(p) \/ ApplyDomain(p)
               \/ PoolStep(p) \/ DomainCommand(p)
    BY <1>1, <1>3, <2>2, RemoteFollows, DomainFollows, PoolFollows, FollowsRuns
  <2> QED
    BY <1>4, <2>1, <2>2 DEF DeployNext
<1> QED
  BY <1>2, <1>4 DEF allVars, deployVars, vars

\* When a deploy of an operator who runs one command after the other has ended
\* well with DNS on, and until the next command, each of its domains is active
\* in the pool and in the zone with the target of its entry, whatever was cut
\* off, disabled or lost before.  The target is the entry's own: of a domain
\* that was in the pool before, it need not be the node deployed to.
THEOREM DeployedServed ==
    ASSUME OneProcess
    PROVE  DeploySpec => []DeployedIsServed
<1>1. DeployInit => Settled
  <2> SUFFICES ASSUME DeployInit PROVE Settled
    OBVIOUS
  <2>1. \A p \in Procs : proc[p] = Idle /\ deploy[p] = NoDeploy
    BY DEF DeployInit, Init
  <2>2. Idle.todo = {} /\ NoDeploy.at = "none"
    BY DEF Idle, Run, NoDeploy
  <2> QED
    BY <2>1, <2>2, NoneFollows DEF Settled, Resting
<1>2. DInv /\ Alone /\ Settled /\ [DeployNext]_allVars => Settled'
  BY SettledStep
<1>3. Settled => DeployedIsServed
  <2> SUFFICES ASSUME Settled, NEW p \in Procs, deploy[p].at = "done", deploy[p].dns,
                      NEW k \in DeployDomains(deploy[p].names)
               PROVE  \E i \in Ids, r \in RecordIds :
                        /\ Finds(file, deploy[p].names[k], i)
                        /\ file[i].status = "active"
                        /\ records[r] = Record(file[i].name, file[i].target)
    BY DEF DeployedIsServed
  <2>1. Follows(deploy[p], proc[p], file, records)
    BY DEF Settled
  <2>2. proc[p].at = "idle" /\ deploy[p].todo = {} /\ WithDNS(deploy[p])
    BY <2>1 DEF Follows, WithDNS
  <2>3. deploy[p].names[k] \in Applied(deploy[p])
    BY <2>2 DEF Applied
  <2>4. Serves(file, records, deploy[p].names[k])
    BY <2>1, <2>2, <2>3 DEF Follows
  <2> QED
    BY <2>4 DEF Serves, Shown
<1> QED
  BY <1>1, <1>2, <1>3, DInvHolds, AloneHolds, PTL DEF DeploySpec
================================================================================
