----------------------------- MODULE FirewallRules -----------------------------
(***************************************************************************)
(* What a cluster configuration must satisfy before a live command acts on *)
(* it, and the firewall rules made of it: config.Validate                  *)
(* (src/internal/stackforge/config/config.go), safety.Check                *)
(* (src/internal/stackforge/safety/safety.go) and                          *)
(* firewall.BuildPlanWithOptions                                           *)
(* (src/internal/stackforge/firewall/firewall.go).                         *)
(*                                                                         *)
(* A configuration is a record.  A port is named by what it is for: every  *)
(* node gets the rules of every service, whatever its roles are.           *)
(***************************************************************************)
EXTENDS Naturals, FiniteSets, Sequences

CONSTANTS
    Nodes,   \* the servers
    Cidrs    \* the networks that allowed_ssh_cidrs and allowed_admin_cidrs list

\* The components roles call for.
Parts == {"consul", "nomad", "traefik", "postgres", "control-plane"}

Public == {"0.0.0.0/0", "::/0"}

Flags == {"confirm-production", "allow-example-config", "allow-public-ssh",
          "allow-no-firewall"}

\* nodes: in the order of the file.  parts: of each node, the components of its
\* roles, in the order of the roles.  shared: the nodes whose internal address
\* is their public one.  internal: allow_public_internal_communication.
ConfigType ==
    [nodes : Seq(Nodes), parts : [Nodes -> Seq(Parts)],
     nomadServers : SUBSET Nodes, public : SUBSET Nodes, shared : SUBSET Nodes,
     internal : {"private", "public"}, ssh : SUBSET Cidrs, admin : SUBSET Cidrs,
     environment : {"staging", "production"}, values : {"real", "example"},
     dashboard : {"off", "basic-auth", "open"},
     engine : {"postgres", "mysql", "sqlite"},
     cloudflare : {"off", "token", "no-token"}]

Members(s) == {s[k] : k \in DOMAIN s}
NodesOf(cfg) == Members(cfg.nodes)
With(cfg, part) == {n \in NodesOf(cfg) : part \in Members(cfg.parts[n])}
IsOdd(k) == k % 2 = 1

\* config.Validate.
IsValid(cfg) ==
    /\ cfg.nodes # <<>>
    /\ cfg.internal = "public" \/ cfg.shared \cap NodesOf(cfg) = {}
    /\ cfg.engine = "sqlite" \/ With(cfg, "postgres") # {}
    /\ With(cfg, "control-plane") # {}
    /\ IsOdd(Cardinality(With(cfg, "consul")))
    /\ IsOdd(Cardinality(cfg.nomadServers \cap NodesOf(cfg)))
    /\ cfg.dashboard # "open"

\* A name, an address or a domain is one of those the examples have.
IsExample(cfg) == cfg.values = "example"

\* A database node's internal address is its public one, or its public one may
\* carry internal traffic.
DatabasePublic(cfg) ==
    With(cfg, "postgres") \cap
        (cfg.shared \cup IF cfg.internal = "public" THEN cfg.public ELSE {}) # {}

\* The admin networks are everyone's, or servers may talk over public addresses.
InternalAPIPublic(cfg) ==
    \/ cfg.admin \cap Public # {}
    \/ /\ cfg.internal = "public"
       /\ (With(cfg, "consul") \cup cfg.nomadServers) \cap cfg.public # {}

\* safety.Check of a live run has no finding that is an error.
IsSafe(cfg, flags) ==
    /\ cfg.environment = "production" => "confirm-production" \in flags
    /\ IsExample(cfg) => "allow-example-config" \in flags
    /\ cfg.admin \cap Public = {}
    /\ cfg.ssh \cap Public # {} => "allow-public-ssh" \in flags
    /\ cfg.dashboard # "open"
    /\ ~DatabasePublic(cfg)
    /\ ~InternalAPIPublic(cfg)
    /\ cfg.cloudflare # "no-token"

------------------------------------------------------------------------------
(* The plan.                                                               *)

AdminServices == {"api", "consul-http", "nomad-http"}
PrivateServices == {"consul-rpc", "consul-lan", "consul-wan", "consul-dns",
                    "nomad-rpc", "nomad-serf", "database"}
Purposes == {"ssh", "http", "https", "dashboard"} \cup AdminServices \cup PrivateServices

\* privateSource: the only node's own address, or all of 10.0.0.0/8.
PrivateSource(cfg) == IF Len(cfg.nodes) = 1 THEN "the node" ELSE "10.0.0.0/8"

Rule(purpose, source) == [purpose |-> purpose, source |-> source]
AllRules == [purpose : Purposes,
             source : Cidrs \cup Public \cup {"the node", "10.0.0.0/8"}]

SshRules(cfg) == {Rule("ssh", c) : c \in cfg.ssh}

\* Mutant: the API is opened to everyone, as the ports of Traefik are.
RulesOpenApi(cfg) ==
    SshRules(cfg)
    \cup {Rule(p, "0.0.0.0/0") : p \in {"http", "https", "api"}}
    \cup {Rule(p, PrivateSource(cfg)) : p \in PrivateServices}
    \cup {Rule(p, c) : p \in {"consul-http", "nomad-http"}, c \in cfg.admin}

\* The rules of a plan, the same on every node.
Rules(cfg) ==
    SshRules(cfg)
    \cup {Rule(p, "0.0.0.0/0") : p \in {"http", "https"}}
    \cup {Rule(p, c) : p \in AdminServices, c \in cfg.admin}
    \cup {Rule(p, PrivateSource(cfg)) : p \in PrivateServices}
    \cup {Rule("dashboard", c) : c \in IF cfg.dashboard = "off" THEN {} ELSE cfg.admin}

\* firewall.Validate: its words for what must not be public.
NamedInternal == {"consul-http", "nomad-http", "dashboard"} \cup PrivateServices

Exposed(rules) == {r \in rules : r.source \in Public}

\* BuildPlanWithOptions returns a plan and no error.
PlanAccepted(cfg, flags) ==
    /\ cfg.ssh # {}
    /\ cfg.admin # {}
    /\ cfg.admin \cap Public = {}
    /\ cfg.ssh \cap Public # {} => "allow-public-ssh" \in flags
    /\ \A r \in Exposed(Rules(cfg)) : r.purpose \notin NamedInternal

\* VerifyUFWCommand's second half: the four ports it looks for are not open to
\* Anywhere.
PortsVerified(rules) ==
    \A r \in Exposed(rules) :
        r.purpose \notin {"database", "consul-http", "nomad-http", "api", "dashboard"}
================================================================================
