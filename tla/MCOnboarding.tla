------------------------------ MODULE MCOnboarding ------------------------------
(* Two servers, a cluster of the first and one of both, and three               *)
(* configurations that one check or another refuses.                            *)
EXTENDS Onboarding, TLC

CONSTANTS n1, n2, one, both, publicAdmin, publicSsh, mysql

MCNodes == {n1, n2}
Office == "198.18.0.0/24"
MCCidrs == {Office, "0.0.0.0/0"}

One ==
    [nodes |-> <<n1>>,
     parts |-> [n \in MCNodes |-> IF n = n1 THEN <<"consul", "nomad", "control-plane">>
                            ELSE <<"nomad", "postgres">>],
     nomadServers |-> {n1}, public |-> {}, shared |-> {}, internal |-> "private",
     ssh |-> {Office}, admin |-> {Office}, environment |-> "staging",
     values |-> "real", dashboard |-> "basic-auth", engine |-> "sqlite",
     cloudflare |-> "off"]

Both ==
    [One EXCEPT !.nodes = <<n1, n2>>, !.engine = "postgres", !.dashboard = "off"]

PublicAdmin == [One EXCEPT !.admin = {Office, "0.0.0.0/0"}]
PublicSsh ==
    [One EXCEPT !.ssh = {"0.0.0.0/0"},
                !.parts[n1] = <<"postgres", "consul", "nomad", "control-plane">>]
Mysql == [Both EXCEPT !.engine = "mysql"]

MCConfigOf == [f \in {one, both, publicAdmin, publicSsh, mysql} |->
    CASE f = one -> One [] f = both -> Both [] f = publicAdmin -> PublicAdmin
      [] f = publicSsh -> PublicSsh [] f = mysql -> Mysql]
AllFiles == {one, both, publicAdmin, publicSsh, mysql}

AllStages == {"copy", "base", "preflight", "docker", "components", "firewall"}
MCOptions ==
    {AllStages, {"copy"},
     (AllStages \ {"preflight"}) \cup {"allow-public-ssh"},
     {"docker"}, {"components"}, {"apply", "allow-public-ssh"}}
OnboardOnly == {AllStages}
================================================================================
