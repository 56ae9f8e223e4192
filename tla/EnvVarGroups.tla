---------------------------- MODULE EnvVarGroups ----------------------------
(***************************************************************************)
(* The env_var_group resource (resources/env_var_group.go): the environment *)
(* variables of running and of staging applications, two maps that are set  *)
(* whole, one after the other, and read into one set of entries.            *)
(***************************************************************************)
EXTENDS Terraform

CONSTANTS Keys, Values

(* A map of the Cloud Controller: some keys with a value. *)
EnvMap == UNION {[K -> Values] : K \in SUBSET Keys}
Entry  == [key : Keys, value : Values, running : BOOLEAN, staging : BOOLEAN]
Config == SUBSET Entry
Data   == [vars : SUBSET Entry, there : BOOLEAN, tainted : BOOLEAN]
VarGroups == [running : EnvMap, staging : EnvMap]

(* One entry for a key, which is for something: others are never read back. *)
EnvVarGroupsAssumption ==
  /\ Configs \subseteq Config
  /\ \A c \in Configs : /\ \A e, f \in c : e.key = f.key => e = f
                        /\ \A e \in c : e.running \/ e.staging

Planned(there) == [vars |-> cfg, there |-> there, tainted |-> FALSE]
Absent == Planned(FALSE)
InSync == tf = Planned(TRUE)

-----------------------------------------------------------------------------
(* resourceObject: the map of the entries that are for "it". *)
MapOf(entries) == [k \in {e.key : e \in entries} |-> (CHOOSE e \in entries : e.key = k).value]
Running(entries) == MapOf({e \in entries : e.running})
Staging(entries) == MapOf({e \in entries : e.staging})

(* Mutant: an entry has the staging value. *)
ToSchemaStaging(g) ==
  {[key |-> k, value |-> IF k \in DOMAIN g.staging THEN g.staging[k] ELSE g.running[k],
    running |-> k \in DOMAIN g.running, staging |-> k \in DOMAIN g.staging] :
      k \in DOMAIN g.running \cup DOMAIN g.staging}

(* ToSchema: one entry for a key, with the running value if it has one.     *)
ToSchema(g) ==
  {[key |-> k, value |-> IF k \in DOMAIN g.running THEN g.running[k] ELSE g.staging[k],
    running |-> k \in DOMAIN g.running, staging |-> k \in DOMAIN g.staging] :
      k \in DOMAIN g.running \cup DOMAIN g.staging}

(* Read; Exists says yes of whatever has an id. *)
Refresh == NoMishap /\ Refreshed(IF tf.there THEN [tf EXCEPT !.vars = ToSchema(cf)] ELSE Absent)

SetCalls == <<Call("setStaging", Staging(cfg)), Call("setRunning", Running(cfg))>>

(* Create has nothing to do when all that is asked for is there. *)
Create ==
  /\ ~tf.there
  /\ \/ cfg \subseteq ToSchema(cf) /\ NoMishap /\ Begin("create", Planned(TRUE), <<>>)
     \/ /\ IF cfg \subseteq ToSchema(cf) THEN Mishap("find") ELSE NoMishap
        /\ Begin("create", Absent, SetCalls)

Update == tf.there /\ ~tf.tainted /\ ~InSync /\ NoMishap /\ Begin("update", Planned(TRUE), SetCalls)

(* Delete clears both, of whatever they have. *)
DeleteCalls == <<Call("setRunning", <<>>), Call("setStaging", <<>>)>>
Destroy == Removed(DeleteCalls)

Effect(c) ==
  IF c.do = "setStaging" THEN [cf EXCEPT !.staging = c.arg] ELSE [cf EXCEPT !.running = c.arg]

(* The id is set behind the second request. *)
Perform ==
  /\ todo # <<>>
  /\ Calling(Effect(Head(todo)), [d EXCEPT !.there = @ \/ Head(todo).do = "setRunning"], TRUE, FALSE)

OthersChange == \E g \in {[cf EXCEPT !.running = r] : r \in EnvMap}
                         \cup {[cf EXCEPT !.staging = s] : s \in EnvMap} : Others(g)

-----------------------------------------------------------------------------
Init == cf \in VarGroups /\ Idle(Absent)

NothingToDo == Settled(InSync)
Run     == Refresh \/ NothingToDo \/ Create \/ Update
Operate == Perform \/ Finish \/ EndOperation(Absent)
Disturb == EditConfig \/ OthersChange \/ Destroy \/ Crash(Absent)

Next == Run \/ Operate \/ Disturb
Spec == Init /\ [][Next]_vars

-----------------------------------------------------------------------------
TypeOK ==
  /\ CoreOK /\ cf \in VarGroups /\ tf \in Data /\ d \in Data
  /\ todo \in Seq([do : {"setStaging", "setRunning"}, arg : EnvMap])

(* An empty plan is true but for one thing: running applications have       *)
(* exactly the variables asked for; those that stage have the keys asked    *)
(* for, and the values unless a running one hides them                      *)
(* (env_var_group.go:33).                                                   *)
OnlyStagedValuesHide ==
  InSync =>
    /\ cf.running = Running(cfg)
    /\ DOMAIN cf.staging = DOMAIN Staging(cfg)
    /\ \A k \in DOMAIN cf.staging \ DOMAIN cf.running : cf.staging[k] = Staging(cfg)[k]

(* An Update that succeeded left both groups as asked for, a Create may     *)
(* have found them with more variables (env_var_group.go:59).               *)
Truthful ==
  Told => \/ cf = [running |-> Running(d.vars), staging |-> Staging(d.vars)]
          \/ op = "create" /\ d.vars \subseteq ToSchema(cf)
=============================================================================
