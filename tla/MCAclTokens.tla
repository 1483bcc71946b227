------------------------------ MODULE MCAclTokens ------------------------------
(* Small instances of the tokens of an install: one node with all the roles,   *)
(* in the order in which the examples list them.                               *)
EXTENDS AclTokens, TLC

MCOrder == <<"consul", "nomad", "control-plane">>
===============================================================================
