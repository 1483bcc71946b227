# StackForge in TLA+

StackForge is a Go program of two parts. The `stackforge` command line installs
a cluster (Consul, Nomad, Traefik, Postgres, Redis, monitoring, backup jobs) on
Linux nodes over SSH and keeps its own records of what it did in a directory of
YAML and JSON files. The control plane is an HTTP service that registers domain
names, verifies who owns them, and reconciles DNS records, routes and jobs for
them.

This directory holds TLA+ modules of the parts whose behaviour over time is hard
to test, TLC configurations that check them on small instances, and theorems
that hold for every instance, with proofs for TLAPS. `PROJECT.json` is the index:
which definition models which lines, which run checks which property, which
change of the code each property would catch, and the hazards the properties are
for.

To repeat everything, in this directory: `tlc -workers 2 -config X.cfg M` for
each run of `PROJECT.json`, `tlapm M.tla` for each `*Proofs` module.

## 1. The system

| Component | Its state | Its operations | Talks to |
|---|---|---|---|
| install engine `install/install.go` | a run in memory: plan, position, report, inventory | `Run` (fresh, `--resume`, `--dry-run`) | nodes (ssh), the state files, rollback records |
| inventory `inventory/` | `inventory.yaml` | `Load`, `Save`, `Mark*`, `Refresh`, observations | every command |
| rollback `rollback/rollback.go` | `rollback/*.json` | `Save`, `List`, `Apply` | nodes |
| secrets, ACL tokens `secrets/`, steps of `install.go` | `generated-secrets.yaml`, the servers' ACLs, `stackforge.env` | `LoadOrGenerate`, `Save`, bootstrap of Consul and Nomad | install engine |
| ssh executor `ssh/`, `remoteexec/` | a session per command | `Run`, `Upload` with a timeout; `Redact` | nodes |
| ssh bootstrap `bootstrap/` | inventory | key, login, entry, node by node | nodes |
| onboarding `cli/onboarding.go` | inventory, configuration file | seven stages over the nodes; `nodes bootstrap`, `components install`, `firewall apply` | bootstrap, components, preflight, install engine, verify |
| cluster context `cli/context.go` | context file | use, list, sync | nodes |
| backup and restore `backup/` | a manifest and exports per backup | `Run`, `Restore`, `List` | nodes, inventory |
| domain pool `domainpool/` | `domain-pool.yaml` | `Add`, `Remove`, `ApplyDNS`, `ApplyAll`, `VerifyDNS` | Cloudflare |
| deploy `cli/deploy.go` | the files of `/opt/stackforge/deployments/NAME` on a node | write manifest and env over ssh, registry logins, `docker compose up`, then add and apply domains | nodes, domain pool |
| upgrade, uninstall, components, status, verify | inventory | one read-modify-write each, or none | nodes |
| preflight `safety/`, `firewall/`, `validate/`, `config/` | none | pure checks of a configuration, the firewall plan | onboarding, install engine |
| control plane domain stores `controlplane/domain/` | domains and verification tokens: maps, SQLite or Postgres | `Create`, `Get`, `List`, `Delete`, `VerificationToken`, `MarkVerified` | http server |
| control plane http server, auth, reconcile | none of its own | routes; DNS record, then route, then job status | stores, Cloudflare, Consul, Nomad |
| audit, config of the control plane | none | a log line; values read once | http server |

What is hard in it, and where:

* *Crash and resume.* A run of the install engine takes many minutes and may die
  anywhere. The next one trusts `install-report.json`. Both state files are
  written with `os.WriteFile`, which truncates first, and most errors of those
  writes are ignored.
* *Several files, one story.* The inventory and the report are written one after
  the other, on some paths only one of them.
* *A world that moves.* Nodes change between a check and a change, and a command
  whose session timed out may still be running.
* *Requests that interleave.* The methods of the database stores are several
  statements without a transaction; the memory store has a mutex.
* *Files without a lock.* Inventory and domain pool are read, changed and written
  by whichever commands run at the time.
* *Secrets shown once.* Nomad prints its management token once; what the executor
  strikes out of the output, a failed save or a kill may cost it.
* *Stages that trust each other.* What a stage of an onboarding, or the domain part
  of a deploy, knows of the earlier ones it knows from a file or an error.
* *Two steps elsewhere.* The Cloudflare upsert lists and then creates; a
  reconcile or a restore of several parts may stop between them.

What makes each component correct is stated in section 3. The list of hazards, each at its line, with
the properties that cover it or the reason why none does, is in
`PROJECT.json`.

## 2. The modules

### InstallEngine (`src/internal/stackforge/install/install.go`)

One process runs `install.Run`. The variables of the process (`pc`, `kind`,
`plan`, `at`, `completed`, `rep`, `inv`) are what the function has in memory and
are forgotten when it returns or dies. The state directory is `reportFile`
(`install-report.json`), `invFile` (`inventory.yaml`) and `records` (the rollback
records). The nodes are two sets of steps: `present`, those whose `Check` finds
them done, and `working`, those whose `Verify` succeeds. Five variables are
history (`verified`, `planned`, `dirty`, `outdated`, `exit`), two are budgets.

| Code | Action |
|---|---|
| command line: validate, safety check, load or make the inventory | `Start` |
| save the inventory, build the plan, read the prior report | `Begin`, or `Refuse` when the save or the plan fails |
| loop: step in the prior report | `SkipCompleted` |
| loop: dry run | `DryRun` |
| loop: `Check` says done | `CheckDone`, then `VerifyOk` or `VerifyFails` |
| loop: `Check` says not done, save a rollback record | `CheckNotDone` |
| loop: `Apply`, then `Verify` | `Apply`, `ApplyFails`, `VerifyOk`, `VerifyFails` |
| `_ = saveInventory` and `writeReports`, on each of the four paths | `SaveInventory`, `WriteReports` |
| after the loop | `LoopEnds` |
| a kill or a power loss | `Crash` |
| nodes changing, operator mending | `Drift`, `Repair` |

The steps of a plan are numbers. What the properties tell apart of a step is
whether it only looks (`Probe`: ssh and os checks), whether it has a rollback id
(`Guarded`), and that the last one writes the reports and changes no node. The
plans are a constant, so that a resume may follow a run of another plan (the
firewall step comes and goes with `--allow-no-firewall`).

Abstractions, all of them named in the module: the shell commands are replaced by
what they find, do and confirm; a failing command leaves any part of its work;
a torn write leaves the old file or an empty one (the empty report does not
parse, which is the same as no report; the empty inventory parses as one with
status "pending"); a partly written YAML prefix is not modelled; the text and
HTML forms of the report are not modelled; the node facts of the inventory are
not modelled, so the refresh that the command line does after a run, which
changes only them, is left out. The `installCmd` flags that leave the state
alone are left out.

### DomainRegistry, MemoryDomainStore, SQLDomainStore (`src/internal/controlplane/domain/`)

`DomainNames` declares the constants both have. `DomainRegistry` is the abstract specification: what the interface `Repository`
promises, whichever store is behind it. Names get registered, live registrations
of a name are at most one, deletion is for good, a token is issued for one
registration and only a registration that had one becomes verified.

`MemoryDomainStore` is `Store` of `domain.go`. Each method holds the mutex
throughout, so each is one action on the maps `domains`, `byDomain` and
`verifications`.

`SQLDomainStore` is both `SQLiteStore` and `PostgresStore` (variable `backend`, which
stays as the server opened it).
A statement is atomic; a method with several statements is a request whose
position is in `req`. `VerificationToken` is `AskToken`, `IssueToken`.
`MarkVerified` is `AskVerify`, `ReadMatching` or `ReadOther`, `MarkDomain`,
`MarkVerification`. `Abandon` is a statement that fails or a server that dies,
after any of them. The backends differ as the code does: SQLite has one token row
for a domain (`ON CONFLICT(domain_id) DO UPDATE`), Postgres adds a row for each
token and reads the latest `created_at`; SQLite ignores a `deleted_at` in the
request, Postgres stores it.

Both stores implement `DomainRegistry` (`Registry == INSTANCE DomainRegistry WITH
...`, checked as the property `ImplementsRegistry`, and proved).

Abstractions: names are model values, so normalisation is not modelled (a
trailing dot that survives it is a listed hazard); a token and its hash are one
value; columns no method of the store reads are left out. Two processes that ask
for time get times of one clock that does not step back.

### DomainPool (`src/internal/stackforge/domainpool/`, `controlplane/dns/cloudflare/client.go`)

`file` is `domain-pool.yaml`, a function from entry numbers to entries (an entry
has a number in the order in which `Add` makes it, which is its place in the
file), or `Unreadable`. Each process of `Procs` runs one command at a time:
`proc[p].at` is its place in it and `proc[p].snap` the store it loaded and
changed. `records` are the DNS records at Cloudflare.

| Code | Action |
|---|---|
| `Add`, `Remove` up to `Save` | `Add`, `Remove` |
| `ApplyDNS`: `Find`; zone; `ListRecords`; create or update; a call that fails | `ApplyDNS`, `Zone`, `List`, `CreateRecord`, `UpdateRecord`, `CallFails` |
| `ApplyAll`: load, then `ApplyDNS` of each live entry by name | `ApplyAll`, `ApplyNext` |
| `VerifyDNSWithOptions`: `Find`; the resolvers | `VerifyDNS`, `Lookup` |
| `Save`: `os.WriteFile` truncates, then writes | `Truncate`, `Write`, `SaveFails` |
| a kill; an edit of the zone by others | `Crash`, `EditZone` |

A command that finds nothing to do, or cannot read the file, changes nothing and
has no action. `Keys` are what commands are given: names, IDs or both. Names and
targets are model values; one record type; the columns `dns_status`,
`last_error` and the record id, which nothing reads back, the audit log and dry
runs are left out. Of two writes that overlap, the text that is left is the new
one, the old one (when the new one is how it begins), or unreadable: mixed text
that still parses is not modelled. A resolver may answer anything: `LookupHost`
(`domainpool.go:382`) follows CNAMEs and wildcard records and may answer from a cache, so
that the verdict of `Lookup` is any status, whoever's record it was about.

### BackupRestore (`src/internal/stackforge/backup/`, its commands in `cli/cli.go`)

`inventory` is `inventory.yaml`: the last backup, the last restore, and whether it
lists the nodes. Of each backup `d` the directory holds `copies[d]` (of the
inventory), `dumps[<<d, c>>]` (the file of component `c`: an export, the marker
written in its place, or what is left of a file on a full disk), `manifests[d]`
and `reports[d]` (what `restore-report.json` calls restored). Each process of
`Procs` runs one command: `proc[p]` is its place and what it has in memory.
`loaded` and `carried` are history: what the components were given, and which
restores went through to their report.

| Code | Action |
|---|---|
| `RunWithOptions`: directory and copy; `BuildExportPlans`; each export; manifest; `updateInventoryBackup` | `Backup`, `Plan`, `ExportPlanned`, `ExportRuns`, `ExportFails`, `WriteManifest`, `ManifestFails`, `MarkBackup` |
| `RestoreWithDetailedOptions`: dry; checks and the inventory; each component; report; `updateInventoryRestore` | `RestoreDryRun`, `Restore`, `LoadSkips`, `LoadRuns`, `LoadFails`, `WriteReport`, `MarkRestore` |
| `refreshInventoryFromConfig` after either, or alone | `StartRefresh`, `Refresh` |
| a save or a copy of the inventory: truncate, write, or neither | `Truncate`, `Write`, `SaveFails` |
| a command on a node without `--config`: a nil `*ssh.Executor` | `Panic` |
| a kill | `Crash` |

`Modes` are the ways a command is given: a dry run, with the config, or without.
`executorFromConfig` returns a nil pointer in the last case, which the checks
`opts.Executor == nil` do not see. The five components are `1 .. N` in the order of
the code; `Reviewed` is nomad, whose restore command always ends with status 12.
The restore command of a component is taken to refuse a text that is no export
(`pg_restore`, `tar` and `consul` check what they read).

Abstractions: a backup is numbered by the second it starts in; two in the same
second, which would share a directory, are left out. All components have a node
or none has. A file is written whole or is `Torn`; only `inventory.yaml`, which other
commands read at any time, is truncated and written in two steps. The redacted copy
of the secrets, which nothing reads back, warnings and errors are left out.

### ControlPlane (`controlplane/http/server.go`, `controlplane/reconcile/reconcile.go`)

It extends `MemoryDomainStore`, the store `serve` uses without a database: the
methods of the store are atomic, the reconcile is not. `run[c]` is the place of
each caller that reconciles, `records` the zone at Cloudflare, `routes` what
Consul has. A record or a route holds the target of a registration, which here
is its id, so that "whose traffic" can be asked. `kind` is the type of record and the
zone a registration asks for; registrations of one name may differ in it
(`domain.go:90`), and `UpsertRecord` passes over records of another type
(`client.go:72`), beside which it makes one of its own.

| Code | Action |
|---|---|
| `createDomain`, `deleteDomain`, `verificationToken`, `verifyDomain` behind `auth.Middleware` | `StoreRequest` |
| `reconcileDomain`, `reconcileAll` up to the call of `DomainWithClients` | `ReconcileDomain`, `ReconcileAll` |
| `DomainWithClients`: the clients; zone; `UpsertRecord` | `NextDomain`, `Zone`, `List`, `CreateRecord`, `UpdateRecord` |
| `WriteRoute`; the job's status | `WriteRoute`, `JobStatus` |
| a call that fails before, or after, its effect | `CallFails`; the second branch of `Zone`, `Puts`, `WriteRoute` |

`ClientSets` are the clients a caller passes: the server passes none, so its own
reconciles return at the first check; the package promises more to those that
pass some. `dns apply` and `routing apply` answer 202 and change nothing.

### AclTokens (`install/install.go`, `secrets/secrets.go`, `remoteexec/remoteexec.go`)

`file` is `generated-secrets.yaml`, `run` the install under way: `run.plan` are the
secrets that were put into the commands of all steps before the first step ran,
`run.secrets` the `SecretSet` as it is now. Both exist because `Plan` takes the
values and `updateBootstrapSecrets` changes the set afterwards. `accepts`, `booted`
and `env` are Consul, Nomad and the environment of the control plane.

| Code | Action |
|---|---|
| `Run` up to the plan: `LoadOrGenerate`; its save | `Start`, `SaveGenerated` |
| loop: in the prior report; check says done, verify | `SkipCompleted`, `VerifyChecked` |
| `Apply` of the three steps, `Redact`, `updateBootstrapSecrets` | `ApplyConsul`, `ApplyNomad`, `ApplyControlPlane`, `ApplyFails` |
| `_ = secrets.Save` | `SaveSecrets` |
| verify after an apply | `VerifyApplied` |
| a kill; a package removed by hand | `Kill`, `RemovePackage` |

Two variables are history: `lost`, how a token was lost, and `emptied`, whether the save
of newly made secrets was cut off and left an empty file, which later installs load
without an error and make no tokens of.

A token of Consul is the number of the set of secrets it was made with; `Boot` is
the token Nomad makes, `Redacted` what the executor leaves of a secret it knows.
Whether a step is applied is `InstallEngine`'s subject; here its check is what it
finds. A cluster with ACLs off is left out: no token moves there.

### FirewallRules and Onboarding (`config/`, `safety/`, `firewall/`, `cli/onboarding.go`, `bootstrap/`, `components/`, `validate/`, `verify/`)

`FirewallRules` has no state: a configuration is a record, and `IsValid`
(`config.Validate`), `IsSafe` (`safety.Check`), `Rules` and `PlanAccepted`
(`BuildPlanWithOptions`) are functions of it. `Onboarding` is a command over these:
`run` is its stage, the nodes still to turn to and the install steps of the first of
them; `hosts` are the servers (key, packages, Docker, ufw, services), `inventory`
the nodes in `inventory.yaml` and those that are "ssh-ready".

| Code | Action |
|---|---|
| a command is called; its dry run | `Start`, `DryRun` |
| stage 1: `bootstrap.Run` per node | `BootstrapNode` |
| stages 2 and 4: `components.RunInstall` per node | `EnterPackages`, `InstallPackages`, `PackagesFail` |
| stage 3: `validate.RunWithOptions` | `RunPreflight` |
| stage 5: `install.Run` | `EnterInstall`, `InstallBase`, `InstallFirewall`, `LeaveOut`, `InstallComponent`, `StepFails` |
| stage 6: `verify` | `EnterVerify`, `VerifyNode` |
| `firewall apply` | `ApplyRules`, `RulesFail` |
| the return of the command; a service that stops | `Finish`, `ServiceStops` |

One command at a time (overlapping writes are in `BackupRestore`). A save of
`inventory.yaml` may be cut off in every stage that makes one: the file then does not
load (`there = "no"`) or is a beginning of it (`"cut"`). The install stage is the
plan's steps without the reports and rollback records, which `InstallEngine` has; with
sqlite the plan leaves the database step out (`LeaveOut`, `install.go:326`).

Verification looks at what the node's roles in the inventory call for (`LookedAt`):
Nomad on its servers only (`verify.go:188`), so that a Nomad that is there for the role
`nomad-client` alone is never looked at. It is left out altogether when the inventory does
not load (`onboarding.go:244`), which after the install means that its last, unchecked save
was cut off. With sqlite and a database role it always fails (`verify.go:181`).

`components install` is the second or the fourth stage alone, for the nodes of the
inventory; the options `{"docker"}` stand for it. A ufw chain that timed out and goes on
at the node while the next apply runs is not modelled; that its answer is lost when it
was through is (`ApplyRules`).

### Deploy (`cli/deploy.go`)

It extends `DomainPool`: the pool commands a deploy calls are that module's actions,
and `Continues` says what their ends and errors do to the deploy. `node[n]` is what
the deployment directory of a node holds (files are known by the deploy that wrote
them), which services run, each with the deploy whose compose started it and the texts it
read, and what abandoned composes and abandoned writes may still do. A compose leaves
services that only an earlier manifest has (`up` without `--remove-orphans`), and one
that was cut off may have started any part of its own, so services of several deploys may
run at a time.

| Code | Action |
|---|---|
| files read, node selected, confirmed | `BeginDeploy` (`SelectDeployNode`, `DeployDomains`) |
| the remote commands in their order | `CheckCompose`, `WriteManifest`, `WriteEnv`, `RegistryLogin`, `ComposeUp` |
| one of them fails, loses its answer, or goes on after its session was cut | `RemoteFails`, `LateUp`, `LateWrite` |
| `configureDeployDNS`: each domain found or added, then applied | `FindDomain`, `AddDomain`, `ApplyDomain`, `PoolStep` |
| `domains` commands in between | `DomainCommand` |

### MC modules

Each `MC` module gives the constants of its module small sets, and the symmetry of
model values where there is one.

## 3. The runs

| Run | Checks | Distinct states |
|---|---|---|
| `install_any_run` | `ClaimsAreWitnessed` `OrderRespected` `FilesAgree` `InstalledOnlyWhenDone` `ResumeKeepsProgress` `NoHalfAppliedClaim` | 2.8 million |
| `install_by_the_book` | `NoHalfAppliedClaim` `HalfAppliedHasRecord` `EventuallyInstalled` | 792 thousand |
| `install_dry_run_claims` | finding: `ResumeSkipsOnlyCompletedWork` is violated | |
| `acl_tokens` | `NomadTokenIsKept` `ControlPlaneReachesNomad` `ResumeCompletes` | 152 thousand |
| `acl_stored_token` | finding: `StoredConsulTokenWorks` is violated | |
| `onboarding` | `TypeOK` `ActiveIsWhole` `NothingExposed` `ReadyHasKey` `OnboardedWasVerified` `OnboardedHasDocker` | 3.1 million |
| `onboarding_firewall` | finding: `OnboardedHasFirewall` is violated | |
| `control_plane` | `ControlPlaneTypeOK` `ByDomainFindsLive` `TrafficByOwnToken` `RouteAfterRecord` `SuccessIsWhole` `ImplementsRegistry` | 927 thousand |
| `domain_sql` | `StampedMeansVerified` `RotationRetires` `RetiredTokenNeverVerifies` `ImplementsRegistry` | 2.2 million |
| `pool_processes` | `ActiveWasServed` `TwinsAreApplied` | 1.5 million |
| `deploy` | `DeployTypeOK` `RunsOneDeploy` `DeployedIsServed` `DomainsFollowApp` `OneRecordPerName` `ActiveIsServed` `NoOrphanRecord` | 3.4 million |
| `backup_restore` | `MarkersAreTrue` `CompleteIsRestorable` `ReportsAreTrue` | 3.4 million |

The type invariants of `InstallEngine`, `MemoryDomainStore`, `SQLDomainStore`,
`DomainPool`, `BackupRestore` and `AclTokens` have no place of their own in the runs:
they are proved (section 6), and those of the store and the pool are parts of
`ControlPlaneTypeOK` and `DeployTypeOK`.

**`install_any_run`** lets the operator start any of the four kinds of run, of
two plans, in any order, with one fault (a crash, a failing command or a drift)
anywhere. It shows that the report and the inventory never claim a step nobody
verified or planned, that no step is touched before the earlier ones of its plan
were seen to, that the two files tell one story when a run has ended, and that a
resume keeps what the last run achieved.

It also shows `NoHalfAppliedClaim`: a report that calls a half applied step done (one an
Apply touched and no Verify confirmed since) is older than that Apply, which a run without
`--resume` began and was killed over; or a dry run recorded the step without looking at
it. No resume leaves such a claim, nor does a run that got to write its own report.
`FilesAgree` is about runs that returned: after a crash between the two saves they tell different
stories until the next run, and nothing in the code prevents it.

**`install_by_the_book`** lets the operator do what `docs/OPERATIONS.md:73-103` tells:
a dry run, an install, `install --resume`; and again. With a fault and a lost write,
claims of half applied steps are those named above and no others. They do exist on the
documented way: a crash in an Apply of the install that follows the dry run leaves the report of
the dry run, which calls all steps planned, and the next resume skips them (the
finding below is what the resume makes of it). A half applied guarded step has its rollback
record. The run also checks liveness, see section 5.

**`domain_sql`** has two requests at once, to either backend. The registration
found by a request may be deleted, and its name registered anew, before the
request's update: the update goes by id, so the new registration is untouched.
Two requests for tokens may overlap: a token asked for after another was handed
out wins, on both backends, and a request begun after that is not satisfied by
the older token. Of requests that overlap nothing of the kind holds.

**`pool_processes`** has two processes in one file without a lock. Entries get
lost (the second save writes over the first), but an entry that is called active
is one whose record was in the zone: a process writes its verdict
about an entry together with that entry. Of an entry called verified nothing of the
kind holds, since its answer may be that of a wildcard or of somebody else's CNAME. The duplicate check of `Add`, made on a
store that is stale when it is written, still leaves one live entry of a name,
since the whole store is written; two come about only when the earlier one was
disabled and an apply command set it active again (`TwinsAreApplied`; see the
remarks below).

**`deploy`** is one operator who deploys twice and uses `domains` commands before,
between and after, with two faults anywhere: a remote command that fails or whose
answer is lost, a file half written, a compose that starts later than anybody
waits, a write that comes through when the next deploy has written its own, a failed
call or save, a kill. Each service that runs was started by a deploy from its own manifest
and its own env file (`ComposeUp` follows both writes, and what an abandoned compose
starts was read before), with one exception: an abandoned write of an earlier deploy may
change a file between a deploy's write of it and its compose (`overtaken`), as nothing
in the code waits for it. A domain is entered by a deploy only
when its application came up. A deploy that ends well has each of its domains
active in the pool and in the zone, with the target of the *entry*, which need not be
the node's: an entry that exists keeps its old target, and the output names the new one.
For the pool the run shows what holds of commands one after the other: a retry after
a lost answer, a kill or a failed save finds the record that is there; what is
called active is in the zone now; records do not outlive their entries (unless a
save was cut off and emptied the file). With two processes none of these three
holds: two upserts may both create.

**`control_plane`** has two registrations, of one name or of two, two callers that
reconcile at the same time, and one failing call. `TrafficByOwnToken` is the
property the ownership check is for: a name leads only to registrations of that
very name that were verified by a token of their own. It holds although a
reconcile works on a `Domain` value that may have been deleted, and its name
registered anew, since it was read: the reconcile may then still point the name at
the old, once verified, registration, but never at the new one. `RouteAfterRecord`
says Consul routes no domain whose record was not made. `SuccessIsWhole` says that a
result without an error stands for a route and the one record of the name of the type and in
the zone the domain asks for, of reconciles
that do not overlap; when two do, the slower one leaves its target in one of the places.
A name that was reconciled as A, deleted, and registered anew as AAAA has both records: no
code takes the first one away, and the property says so.

**`acl_tokens`** runs up to five installs and resumes with three failed calls, failed
saves, kills or removed packages. Nomad makes its token once; from then on the file
or the install that runs has it, unless one of three named losses happened (the
answer or the save was lost, or a second installation printed it and it was struck
out). The control plane that the report calls done has that token; except after those, and
except when the save of newly made secrets had left an empty file: then installs go on with
empty secrets, ask nothing of Nomad, and configure the control plane without a token.
The first install of a cluster with Nomad ends in an error, as the verification
uses the token of the plan, which is older than the one Nomad made; its resume gets
through (`ResumeCompletes`).

**`onboarding`** calls onboardings of all stages and of some, `nodes bootstrap`,
and `firewall apply`, with five configurations of two nodes (a cluster of one and of both,
three that one check or another refuses), with two failing commands or saves, or stopping
services. An active firewall holds all its rules wherever an apply was cut off,
and opens nothing internal to everyone, although `firewall apply` asks neither
`config.Validate` nor `safety.Check`. The inventory calls no node "ssh-ready" that
does not take the key. An onboarding that returned without an error, and left an inventory
written to its end, has had each node looked at with all the services running that verification has a
check for, and, when it copied its key, has Docker on
all of them. Without that option the Docker stage goes to the nodes of the inventory
of an earlier run and may miss new ones.

**`backup_restore`** has two processes and up to four commands, with one fault. An
inventory travels: it is copied into a backup, put back by a restore, and held in
memory while a refresh looks at nodes; whichever is written last, the backup it
names has its manifest, and the restore it names was carried out. A backup with a
manifest passes the check a restore makes, markers and torn files included. What a
report calls restored was loaded with the component's export of that backup. What
does not hold, and nothing promises: that the marker of the newest backup stays in
the inventory (a refresh that loaded before puts an older one back), that a restore
is of all components, that the inventory was put back when the report lists it
(`copyIfExists` at `backup.go:164` drops its errors), and that a dry-run restore changes
no file (it replaces the report of an earlier restore, `backup.go:158`).

### Findings

* `install.go:141` counts the status "dry-run" as completed. An
  `install --resume` after a `--dry-run` skips steps nobody applied and says
  "installed". `CLI_REFERENCE.md:45` promises to "skip steps already completed".
* `install.go:306` and the verification of the firewall step: the check is
  `command -v ufw`, which the base packages have made true, so the rules of an
  onboarding are never applied and ufw stays inactive; the verification greps for
  "active", which "Status: inactive" contains. `INFRA_COMPONENTS.md:394` says
  "Force-enable UFW" and "Verify UFW is active".
* `install.go:557`: the command that installs Consul prints the token it was given,
  the executor strikes known secrets out of what it prints (`ssh.go:104`), and what
  is left, `[REDACTED]`, is saved as `consul_bootstrap_token`
  (`CONFIGURATION.md:312`).

### Remarks

Met while modelling; no property of a run is about them, or a run shows the other side.

* `install.go:196` ignores the error of `rollback.Save` and applies the step all the
  same; `ARCHITECTURE.md:332` says "Saves rollback records before live changes."
* `domainpool.go:317`: `ApplyAll` skips disabled entries and applies the others by
  name, and `Find` returns the first entry of the name. After add, remove and add
  again, `apply-all` sets the removed entry active, with its old target; the new one
  stays pending. `Remove` and `ApplyDNS` find the first entry in the same way.
* After a resume the control plane's environment has `[REDACTED]` for the token of
  Consul, and a later fresh install fails at the verification of Consul. Installing
  Nomad's package again with the right token stored prints it and strikes it out.
* A save of the secrets that is cut off leaves an empty file, which loads without
  an error: the next install works with empty passwords.
* `--allow-public-ssh` is heard by the plan of an install and by `firewall apply`,
  not by the preflight, which builds its plan without it. A second
  onboarding with preflight fails because its own components hold the ports.
* An inventory is replaced before the plan is refused (`mysql` with a database
  node), and by the dry run of an onboarding. It loses the "ssh-ready" marks.
* An apply of Consul, Nomad or Traefik that is cut off between binary and service
  leaves a step whose check says "done" and whose verification fails, at every rerun.
* With one node, private traffic is allowed from that node; with more, from
  `10.0.0.0/8`, whatever the nodes' addresses are. The firewall's verification does
  not look at port 3306.
* A Nomad on a node of role `nomad-client` only is installed, and looked at by no verification
  (`verify.go:188`).
* An onboarding whose install ended with a save of the inventory that was cut off is not
  verified, and returns without an error (`onboarding.go:244`).
* `sudo -n` is put before the whole remote command, of which it covers the first
  part; a user other than root cannot write the manifest of a deploy.
* Two deploys of one name at a time share a directory, and the compose of one may
  read the files of the other.
* Two Cloudflare upserts that both list before either creates make two records
  (`client.go:80`).

## 4. The bounds

Install engine: four steps are one of each sort (a probe, the guarded firewall
step, a guarded service, the reports). A fault between two steps, a step before
and a step after the fault, and a plan with and without the firewall step all
occur. The number of runs is not bounded: runs follow each other until the state
repeats. `MaxFaults` and `MaxLost` are the only bounds on behaviour. One fault is
enough for every single failure followed by any sequence of runs; a lost
write beside it covers a crash whose traces are gone.

Domain pool: two entries of one name with different targets are what removal and
renewal need; two records are one too many. Two processes are a race. `MaxFaults`
bounds failed calls, failed saves, kills and edits of the zone together. Deadlock checks are
off: with all entries added and the file unreadable nothing can happen any more.

Backup and restore: two backups are an older and a newer inventory to confuse; two
components are one that is restored and one that is refused; two processes are a
race; four commands are two backups, a restore and a refresh, in any order and
overlap. One fault (`MaxFaults`) is a failed call, a full disk or a kill. The deadlock
check is off: after four commands nothing more happens.

Deploy: two deploys are an earlier and a later one on the same node or on another;
two names and three requests share domains, so that a deploy meets entries of
another and of the operator; two faults are a failure and one while it is mended. The
second node has no public address; one request is not by root. The deadlock check
is off, as deploys, entries and faults are used up.

Control plane: two registrations are an old and a new one of a name; two callers a
race; two records one too many; one fault; two kinds of record, so that a name registered
anew asks for the same or for another. Headers are a right and a wrong key.

ACL tokens: three steps are those tokens pass through. Five installs and three
faults are a loss, another while it is mended, and a fresh install after; two sets
of secrets are a stale and a new one.

Onboarding: two nodes are one that fails and one after it; five configurations are
two that are accepted, with and without the second node, and three that the safety
check, the firewall plan or the plan of the install refuses. The second node is a Nomad client
and no server, and one configuration has sqlite with a database role. A bare
`nodes bootstrap`, `components install` and `firewall apply` are among the options. Two faults are a failure in one stage and a
stopped service in another. The number of commands is not bounded.

Domain stores: two registrations of one name are what deletion and renewal need;
two tokens are an old and a new one; two requests are a race. `MaxTime = 3`
allows four different times: both issues and a later verification have beginnings
and ends of their own. The SQL, pool and backup runs switch the deadlock check off, as
nothing happens any more when ids, tokens and times (or entries, or commands) are used up and
no request is under way. Every other run checks deadlock.

## 5. Fairness

`FairSpec` of `InstallEngine` assumes that

* the process goes on (`WF(Engine)`): `Run` is a sequential loop, and each remote
  command has a timeout (`install.go:266-292, 465-490`), so that no step blocks
  for ever;
* the operator starts another run after one ended (`WF(StartRun)`), and mends a
  broken step in the end (`WF(Repair(s))`), as `docs/OPERATIONS.md:84-103`
  instructs: look at the failing step, repair, `install --resume`.

The engine alone does not get past a step that is present but not working: it
verifies and never applies it again. Without the fairness of `Repair` the
property fails. Faults are bounded, so from some time on there are none.
The other modules are checked for safety only: a command or a request of theirs that
fails is over, nothing retries it, and the code promises no more than an error.

## 6. The proofs

All of them are for any constants that meet the named assumptions: any number of
steps, plans, nodes, registrations, requests, any bound. In each module an inductive
invariant is shown to hold at the start and to be kept by each action; the
properties follow from it.

**`InstallEngineProofs`.** The invariant of the claims is
`IInv == TypeOK /\ Witnessed /\ Passed /\ InstalledAtEnd`.

* `Witnessed`: every step called done by the report in memory, by the report on
  disk or by `completed` was verified or planned. The property is about the file;
  it needs the memory from which the file is written, and `completed`, which
  carries claims of the last file into the next one.
* `Passed`: the steps of the plan before the current one were witnessed. It makes
  the order of the plan inductive.
* `InstalledAtEnd`: the inventory in memory says "installed" only at the end of
  the loop, when all steps of the plan are passed.

From it: `TypeCorrect`, `ReportIsWitnessed` (`ClaimsAreWitnessed`),
`PlanOrderIsKept` (`OrderRespected`) and `InstalledMeansDone`, which is an action
property (`InstalledOnlyWhenDone`). Three more invariants stand beside it.

* `Ledger`: what the report on disk calls done is in `completed` or recorded again
  in memory (`Carried`), nothing from the current step on is (`Ahead`), and a run that
  is not a resume starts with no claims (`FreshStart`). It gives `ProgressIsKept`
  (`ResumeKeepsProgress`), and with `Clean` (of the claims, wherever they are held, those of a half applied step are the
  outdated ones) `NothingHalfApplied`, for all kinds of run in any order.
* `Recorded`: while no write was lost, a guarded step that is being applied, or was
  and is not verified, has its rollback record (`HalfAppliedRecorded`).
* `Together`, `Agreed`: the report and the inventory in memory name the same last and
  failed step, and whenever the report is about to be written the inventory already
  is (`FilesTellOneStory`).

**`ControlPlaneProofs`.** First the store. `byDomain` leads to the live domain of every
name (`ByDomainIsRight`); with it the duplicate check of `Create`, which looks only
at `byDomain`, is the registry's check, and each action is a registry action
(`Implements`). The other part of the invariant: the token on file is an issued
one, and no token is issued for two domains. `StoreInside` says that each step of the
server is a step of the store or leaves it alone, which carries both theorems
over to the server (`ServedByDomain`, `ServedImplements`).

Then the reconciles. `CInv` says that what a caller works on (`CallersWork`), and what
the zone and Consul hold (`Visible`), is *owned*: read live, verified and with a token
of its own; and that a caller past the record has it among the ensured ones. All
of it only grows, since a registration keeps its name and its verification, so what other
callers and requests do in between cannot undo it. From it `OwnTraffic`,
`RoutesFollowRecords`, `ControlPlaneTypes`. `SuccessWhole` needs `Alone`: as long as no two
reconciles overlapped, what a caller found or made (no record of the name, one record of the kind wanted, one route) is
still so when it goes on, and a name it works on has no result.

**`SQLDomainStoreProofs`.** `Implements`, and `StampedIsVerified`, need that a
request under way holds a domain that exists and, past its read, a token issued
for it. `Rotation` and `RetiredTokenIsRefused` need more, on times: the row on
file is no older than any token handed out (SQLite because the last write wins
and a write happens after its request began, Postgres because it orders by
`created_at`), and a request that read a token read one not retired before it
began. Both proofs are for any number of processes. The assumption used is one
clock that does not step back; the servers of a Postgres store with clocks of
their own do not have it. Since each step of the stores is one of the registry or
leaves it alone (`StepMaps`), what the registry's actions keep holds of the tables:
one live row of a name (`OneLiveRow`), and tokens that verify the row they were made for
and no other (`OwnToken`).

**`DomainPoolProofs`.** The invariant `IInv` says that every store there is, in the
file or loaded by a process, is honest about what the zone has held; that the
records of the zone are among what it has held (`List` marks an entry active
because of a record it finds); and that a process at work on an entry has it in
its store. All stores, because what a process loaded is what it will write.
From it `TypeCorrect`, `ActiveServed`. `OneLiveWithoutApply`
assumes that no apply command is used and shows that every store has one live
entry of a name. `TwinsApplied` needs a second invariant, `Orderly`, that every store,
and what a process will make of the one it loaded, has twins only where the earlier
was disabled and applied. All of it is for any number of processes.

**`DeployProofs`.** What a deploy does to the pool are steps of the pool's commands, and a
failed remote command, which counts as a fault (`Moves`, `DeployMoves`); so the pool's
`IInv` holds under deploys. `DInv` adds the types and what a deploy is at (`Sound`: one
that came to its domains came up, and has a target for them), and gives `DeployTypes`
and `DomainsFollow`, for any number of processes. The rest is about an operator who runs one
command after the other, as the run `deploy` does; the assumption `OneProcess` says so. With
two commands at a time all of it is false: two deploys share a directory, and two commands the file.

* `Unmixed`: until compose starts, the files in the directory are those the deploy
  wrote, or it is overtaken; and what runs, or is still being started by a compose that was
  cut off, read the files of one deploy or was started by an overtaken one (`OneDeployRuns`).
* `Alone`: a command works on the store the file holds, creates a record only where
  there is none of the name and updates one of the name; each record has its
  entry in the file, and in the store about to be written, unless a save was cut off
  (`OneRecord`, `NoOrphan`).
* `AllFit`: the active entries are the first of their names and have their records.
  It needs commands that are given names (`ByName`), as those of the run: an id may
  find a later entry of a name and point the record elsewhere (`ActiveServedNow`).
* `Settled`: the domains a deploy has applied are served, in the file and in the store
  about to be written, while it adds and applies the next; and it goes on from an apply only when that made
  the entry active (`DeployedServed`).

**`OnboardingProofs`.** `Called`: the command under way has a configuration and options it may
be called with, and `firewall apply` has an accepted plan. `Accepted`: the rules of an
active firewall are all those of an accepted plan, because `ApplyRules` enables
it after the last rule and a failed apply leaves it as it was or reset and inactive.
`WholeFirewalls` follows, and `NothingInternalExposed`, for which the rules of a plan are gone
through purpose by purpose (that no rule `PlanAccepted` lets pass is one for
everyone but ssh, http and https). `ReadyNodesHaveKey` is inductive with the
types. `OnboardingIsVerified` needs `LooksAtAll`: the install stage made the
inventory that of the configuration, so the nodes verify goes through are all of them, and those
behind it are witnessed as long as none failed; of an inventory that was cut off, or does not
load, nothing is claimed. `OnboardingHasDocker` needs
`DockerGoesRound`: when the key was copied, the inventory has the nodes of the
configuration from the first stage on, and the Docker stage goes through it. The
assumption `OptionsAssumption` is that `firewall apply` is a command of its
own, as in the code; the type invariant, too, is proved (`TypeCorrect`).

**`BackupRestoreProofs`.** The invariant of the markers says that every inventory there
is, in the file, in a backup or in the memory of a command, is true about manifests and
carried restores; and that a command about to enter a backup (or a restore) in
the inventory has its manifest (or was carried out). It is stated over the
manifests and the carried restores as parameters, so that one lemma (`SaneLater`)
says that it survives more of them. From it `TypeCorrect`, `MarkersTrue`. `Filed` is about the
files: a backup under way has its number to itself and no manifest yet, and the
manifest in its memory says of each file passed so far what is in it (`Backs`), a
restore under way is of a backup with a manifest and has loaded what it calls done
(`Restores`); therefore the files of a complete backup never change again
(`Complete`) and what reports say stays true (`Reported`). From it `CompleteRestorable`, `ReportsTrue`.

**`AclTokensProofs`.** The invariant is `IInv == TypeOK /\ NotThere /\ Unknown /\ Known`.
`Unknown`: before Nomad made its token, no secrets have it; therefore it is not struck
out when it is printed. `Known`: from then on, unless it was lost, the file has it or
it is about to be saved, and an install that runs has it in memory; the latter
because what the install saves for another component overwrites the file.
`NotThere`: secrets are made only when there is no file, which is what keeps `Start`
from undoing `Known`. From it `TypeCorrect` and `NomadTokenKept`, for any order of the steps
and any number of installs and faults. `ControlPlaneReaches` needs `Reaches`: while nothing
was lost, an install's token is that of its plan or the one Nomad made since, a plan
under which Nomad's step is passed has a token that works (or none at all), and so
has the environment. `Serves` excludes the none: as long as no save left an empty file, the secrets
are made ones, so that the check of the control plane, which compares a secret, does not
take an environment without any for the plan's. It assumes `NomadFirst`, that the plan has Nomad before the control plane,
as `install.Plan` has: otherwise the control plane is given the generated token,
and the property is false. `Resumed` is about an install and its resume without
a fault, in any order of the steps. `Book` says how far each is: the install stops at Nomad's step (`Stopped`: the
report has the steps before it, the file Nomad's token), and the resume skips
those, finds Nomad there with the right token, and nothing of what comes after (`Resuming`).

Only model-checked: `EventuallyInstalled`, as liveness is beyond the prover. Every
other property that holds is a theorem. There is no recursion in any module.

## 7. Not modelled

Not modelled:

* `rollback` list and apply, `uninstall`, `upgrade`, `context`: single commands over one
  file, with nothing that interleaves or is retried. What may go wrong there is among
  the hazards: uninstall keeps the install report (`uninstall.go:28`), and a
  pruning `context sync` removes the local state before it has another (`context.go:278`).
* Rollback records and backups with ids of a second's resolution (`rollback.go:38`,
  `backup.go:74`) that meet in one second; the restore command of a rollback record
  takes the latest tarball of the node (`install.go:782`).
* Normalisation of domain names (`domain.go:179` keeps a trailing dot): names are model values.
* Shell commands, templates, HTML and Markdown reports, prompts, flag parsing (text, no
  state over time); audit and configuration of the control plane (no state); the
  Terraform, Docker and example files.
