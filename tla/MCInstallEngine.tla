---------------------------- MODULE MCInstallEngine ----------------------------
(***************************************************************************)
(* Instances of InstallEngine for TLC.  One node with its probe            *)
(* ("<node>:ssh"), its firewall step, one service and local:reports; the   *)
(* plan without the firewall step is the one of --allow-no-firewall.       *)
(***************************************************************************)
EXTENDS InstallEngine

MCN == 4
MCProbe == {1}
MCGuarded == {2, 3}
FirewallPlan == {1, 2, 3, 4}
NoFirewallPlan == {1, 3, 4}
BothPlans == {FirewallPlan, NoFirewallPlan}
OnePlan == {FirewallPlan}
===============================================================================
