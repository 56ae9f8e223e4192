---------------------------- MODULE MCResources -----------------------------
(* A small instance of each of the resources of one object. *)
EXTENDS Resources, TLC

CONSTANTS n1, n2, x1, x2, x3

Two   == {n1, n2}
Pair  == {x1, x2}
Three == {x1, x2, x3}

(* A space, its name and organization being one of two. *)
SpaceOf(place, quota, ssh, groups) ==
  [place |-> place, quota |-> quota, ssh |-> ssh, groups |-> groups]

(* A shared domain, and private ones of two owners, shared with one or two. *)
DomainOf(shared, owner, orgs) == [shared |-> shared, owner |-> owner, orgs |-> orgs]

(* Two keys and two values. *)
VarOf(k, v, r, s) == [key |-> k, value |-> v, running |-> r, staging |-> s]

(* Two known flags, a custom one, and a custom one the platform lacks. *)
FlagOf(a, b, c, e) == (n1 :> a) @@ (n2 :> b) @@ (x1 :> c) @@ (x2 :> e)
Flagged == {n1, n2, x1}
Usual == (n1 :> FALSE) @@ (n2 :> TRUE)

(* 1G, 512M, 1024M; the others also know 1040M, which is shown as 1G.       *)
Mega(i)  == [n |-> 10 * i, unit |-> "M"]
Giga(i)  == [n |-> 10 * i, unit |-> "G"]
Memories == {512, 1024, 1040}
Sizes    == {Mega(512), Mega(1024), Giga(1)}

FileNames == (x1 :> "one.zip") @@ (x2 :> "two.zip")

(* Of names, quotas and options there are two; one group of three applies   *)
(* everywhere; the third organization is not entitled at first, the third   *)
(* space belongs to others.                                                 *)
LastOne == {x3}
Asked ==
  [organization   |-> [name : Two, quota : {None, x2}, system : BOOLEAN],
   space          |-> {SpaceOf(x1, None, TRUE, {x1}), SpaceOf(x2, None, TRUE, {x1}),
                       SpaceOf(x1, n1, FALSE, {x1, x2}), SpaceOf(x1, n2, FALSE, {x2, x3}),
                       SpaceOf(x1, None, FALSE, {})},
   security_group |-> [rules : Pair, staging : BOOLEAN, running : BOOLEAN],
   domain         |-> {DomainOf(TRUE, None, {}), DomainOf(FALSE, x1, {x2}),
                       DomainOf(FALSE, x1, {x2, x3}), DomainOf(FALSE, x1, {x3}),
                       DomainOf(FALSE, x2, {})},
   route          |-> [space : Pair, svc : {None, n1, n2}, params : Pair],
   env_var_group  |-> {{}, {VarOf(n1, x1, TRUE, TRUE)}, {VarOf(n1, x2, TRUE, TRUE)},
                       {VarOf(n1, x1, FALSE, TRUE), VarOf(n2, x2, TRUE, FALSE)}},
   feature_flags  |-> {FlagOf(TRUE, FALSE, None, None), FlagOf(FALSE, TRUE, TRUE, TRUE),
                       FlagOf(TRUE, TRUE, FALSE, None)},
   quota          |-> [scope : {"org", "space"}, memory : Sizes],
   buildpack      |-> [path : {x1, x2, None}, options : Two],
   segment        |-> {{x1}, {x1, x2}, {x2, x3}},
   segment_space  |-> Pair]

(* Every call may fail but the pretended ones, which only set or drop an id. *)
Anything ==
  {"crash", "default", "find", "get", "private", "filter", "list", "post", "put",
   "quota", "rename", "delete", "bind", "unbind", "ssh", "trySsh", "unassign",
   "assign", "rules", "tryRules", "staging", "running", "share", "unshare",
   "getService", "setStaging", "setRunning", "zip", "upload",
   "entitle", "revoke", "set", n1, n2, x1}
=============================================================================
