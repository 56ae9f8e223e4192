--------------------------- MODULE SecurityGroups ---------------------------
(***************************************************************************)
(* The security group resource (resources/security_groups.go): rules, and   *)
(* whether the group is in the sets for staging and for running. A set of   *)
(* rules is one value; how a rule is written is left out.                   *)
(***************************************************************************)
EXTENDS Terraform

CONSTANT Rules

Config == [rules : Rules, staging : BOOLEAN, running : BOOLEAN]
Data   == [rules : Rules, staging : BOOLEAN, running : BOOLEAN,
           there : BOOLEAN, tainted : BOOLEAN]
Group  == [there : BOOLEAN, rules : Rules, staging : BOOLEAN, running : BOOLEAN]

SecurityGroupsAssumption == Configs \subseteq Config

Planned(there) == [rules |-> cfg.rules, staging |-> cfg.staging,
                   running |-> cfg.running, there |-> there, tainted |-> FALSE]
Absent == Planned(FALSE)
InSync == tf = Planned(TRUE)

-----------------------------------------------------------------------------
(* Mutant: what the state says of the two sets is kept. *)
ReadRulesOnly == [tf EXCEPT !.rules = cf.rules]

Read == [tf EXCEPT !.rules = cf.rules, !.staging = cf.staging, !.running = cf.running]

Refresh == NoMishap /\ Refreshed(IF tf.there /\ cf.there THEN Read ELSE Absent)

Bindings == (IF cfg.staging THEN <<Call("staging", TRUE)>> ELSE <<>>)
            \o IF cfg.running THEN <<Call("running", TRUE)>> ELSE <<>>

(* Create gives a group of the name the rules, and takes it out of no set.  *)
(* A request that made a group is followed by a look for its id.            *)
Create ==
  /\ ~tf.there
  /\ \/ /\ cf.there /\ NoMishap
        /\ Begin("create", Planned(TRUE), <<Call("rules", cfg.rules)>> \o Bindings)
     \/ /\ IF cf.there THEN Mishap("find") ELSE NoMishap
        /\ Begin("create", Absent, <<Call("post", cfg.rules), Call("find", FALSE)>> \o Bindings)

(* isRulesChange: the same rules in another order are a change. *)
RulesCalls == {<<Call("tryRules", cfg.rules)>>}
              \cup IF cf.rules = cfg.rules THEN {<<>>} ELSE {}

(* Update compares with the two sets as they are, not with the state. *)
SetCalls == (IF cf.staging # cfg.staging THEN <<Call("staging", cfg.staging)>> ELSE <<>>)
            \o IF cf.running # cfg.running THEN <<Call("running", cfg.running)>> ELSE <<>>

Update ==
  /\ tf.there /\ ~tf.tainted /\ ~InSync
  /\ \/ /\ cf.there /\ NoMishap
        /\ \E r \in RulesCalls : Begin("update", Planned(TRUE), r \o <<Call("list", FALSE)>> \o SetCalls)
     \/ ~cf.there /\ NoMishap /\ Begin("update", Absent, <<>>)
     \/ Mishap("get") /\ GivesUp("update", Planned(TRUE))

DeleteCalls == <<Call("delete", FALSE)>>
Replace == tf.there /\ tf.tainted /\ NoMishap /\ Begin("delete", tf, DeleteCalls)
Destroy == Removed(DeleteCalls)

Effect(c) ==
  CASE c.do = "post"    -> [there |-> TRUE, rules |-> c.arg, staging |-> FALSE, running |-> FALSE]
    [] c.do \in {"rules", "tryRules"} -> [cf EXCEPT !.rules = c.arg]
    [] c.do = "staging" -> [cf EXCEPT !.staging = c.arg]
    [] c.do = "running" -> [cf EXCEPT !.running = c.arg]
    [] c.do = "delete"  -> [cf EXCEPT !.there = FALSE, !.staging = FALSE, !.running = FALSE]
    [] OTHER -> cf

(* Mutant: the errors of the two sets are dropped as well. *)
DroppedAlso(c) == c.do \in {"tryRules", "staging", "running"}

(* updateRules of an update has its error dropped. *)
Dropped(c) == c.do = "tryRules"

Perform ==
  /\ todo # <<>>
  /\ LET c == Head(todo)
     IN Calling(Effect(c), IF c.do = "find" THEN [d EXCEPT !.there = TRUE] ELSE d,
                cf.there <=> c.do # "post", Dropped(c))

OthersChange == \E g \in Group : Others(IF g.there THEN g ELSE [cf EXCEPT !.there = FALSE])

-----------------------------------------------------------------------------
Init == cf \in Group /\ Idle(Absent)

NothingToDo == Settled(InSync)
Run     == Refresh \/ NothingToDo \/ Create \/ Update \/ Replace
Operate == Perform \/ Finish \/ EndOperation(Absent)
Disturb == EditConfig \/ OthersChange \/ Destroy \/ Crash(Absent)

Next == Run \/ Operate \/ Disturb
Spec == Init /\ [][Next]_vars

-----------------------------------------------------------------------------
TypeOK ==
  /\ CoreOK /\ cf \in Group /\ tf \in Data /\ d \in Data
  /\ todo \in Seq([do : {"post", "find", "rules", "tryRules", "list", "staging",
                         "running", "delete"}, arg : Rules \cup BOOLEAN])

(* An empty plan is true: the group has the rules, and is in the two sets,  *)
(* as asked for, although an update that could not change the rules reports *)
(* success (security_groups.go:190).                                        *)
AsAsked ==
  InSync /\ cf.there => cf.rules = cfg.rules /\ cf.staging = cfg.staging /\ cf.running = cfg.running

(* A Create or Update that succeeded left the rules, but for those that     *)
(* Update may lose, and put the group in the sets asked for; Create does    *)
(* not take a group that it found out of a set (security_groups.go:84).     *)
Truthful ==
  Told => /\ cf.there
          /\ cf.rules = d.rules \/ (op = "update" /\ mishaps > 0)
          /\ cf.staging = d.staging \/ (op = "create" /\ ~d.staging)
          /\ cf.running = d.running \/ (op = "create" /\ ~d.running)
=============================================================================
