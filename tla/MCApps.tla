------------------------------- MODULE MCApps -------------------------------
(***************************************************************************)
(* Small instances of Apps: the configurations the operator chooses among, *)
(* and the calls that fail.                                                *)
(***************************************************************************)
EXTENDS Apps, TLC

CONSTANTS b1, b2, p1, p2, r1, r2, s1, x1, x2

(* One instance in service, without route or service. *)
Base ==
  [name |-> <<"a", 0>>, inst |-> 1, started |-> TRUE, par |-> p1,
   routes |-> {}, svcs |-> {}, path |-> x1, noDeploy |-> FALSE,
   noRestage |-> FALSE]

Other == [Base EXCEPT !.par = p2, !.routes = {r1}, !.svcs = {s1}]

(* Everything a blue-green update goes through, started or not.             *)
BlueGreenConfigs == {Base, Other, [Other EXCEPT !.started = FALSE]}

(* Every branch of createOrUpdate, with renames onto a name that may be     *)
(* taken, and the code behind another path.                                 *)
BranchConfigs ==
  {Base, [Base EXCEPT !.name = <<"b", 0>>], [Base EXCEPT !.inst = 0],
   [Base EXCEPT !.routes = {r1, r2}], [Base EXCEPT !.routes = {r2}],
   [Other EXCEPT !.noDeploy = TRUE, !.noRestage = TRUE],
   [Base EXCEPT !.noDeploy = TRUE, !.noRestage = TRUE, !.path = x2]}

(* Every branch but the in-place deployment, under one name and with the    *)
(* code at one path.                                                        *)
RecoveryConfigs ==
  BlueGreenConfigs \cup
  {[Base EXCEPT !.noRestage = TRUE, !.par = p2], [Base EXCEPT !.routes = {r1}],
   [Base EXCEPT !.inst = 0]}

(* All that may fail, and of that all that a later run makes good.          *)
Anything == Calls \cup {"refresh", "plan", "crash", "platform"}
Repairable ==
  Anything \ {"rename", "deleteOrig", "revDelete", "revRename", "plan", "crash"}

Symmetry == Permutations(Guids)
=============================================================================
