------------------------------- MODULE MCDeploy -------------------------------
(* A small instance of deploy: two nodes, of which the one that is selected by *)
(* default is not the first and the other has no public address, and three     *)
(* requests that have domains in common.                                       *)
EXTENDS Deploy, TLC

CONSTANTS n1, n2, t1, t2, p1, inside, control

TwoNames == {n1, n2}
TwoTargets == {t1, t2}
OneProc == {p1}

MCNodes == <<
    [name |-> inside,  roles |-> {"nomad-client"},  public |-> NoTarget],
    [name |-> control, roles |-> {"control-plane"}, public |-> t1] >>

MCRequests == {
    [wanted |-> NoNode, candidates |-> <<NoName, n1, n2, n1>>, dns |-> TRUE,
     logins |-> 1, root |-> TRUE],
    [wanted |-> control, candidates |-> <<n2>>, dns |-> TRUE,
     logins |-> 0, root |-> FALSE],
    [wanted |-> inside, candidates |-> <<n1>>, dns |-> TRUE,
     logins |-> 0, root |-> TRUE] }
===============================================================================
