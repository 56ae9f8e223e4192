--------------------------- MODULE Organizations ----------------------------
(***************************************************************************)
(* The organization resource (resources/organizations.go): a name, a quota  *)
(* that is assigned in a call of its own, and a refresh that is silent      *)
(* about the default quota.                                                 *)
(***************************************************************************)
EXTENDS Terraform

CONSTANTS Names, OrgQuotas, Default, None   \* Default is the quota named "default"

Config == [name : Names, quota : OrgQuotas \cup {None}, system : BOOLEAN]
Data   == [name : Names, quota : OrgQuotas \cup {None}, system : BOOLEAN,
           there : BOOLEAN, tainted : BOOLEAN]
Org    == [there : BOOLEAN, name : Names, quota : OrgQuotas]

OrganizationsAssumption ==
  Default \in OrgQuotas /\ None \notin OrgQuotas /\ Configs \subseteq Config

Planned(there) == [name |-> cfg.name, quota |-> cfg.quota, system |-> cfg.system,
                   there |-> there, tainted |-> FALSE]
Absent == Planned(FALSE)
InSync == tf = Planned(TRUE)

-----------------------------------------------------------------------------
(* Mutant: the quota is not read at all. *)
ReadNoQuota == [tf EXCEPT !.name = cf.name]

(* Read: of the default quota the state says what it said before. Without   *)
(* an answer about the default quota, the quota is told.                    *)
Read == [tf EXCEPT !.name  = cf.name,
                   !.quota = IF cf.quota = Default THEN @ ELSE cf.quota]

Refresh ==
  IF tf.there /\ cf.there
  THEN \/ NoMishap /\ Refreshed(Read)
       \/ Mishap("default") /\ Refreshed([tf EXCEPT !.name = cf.name, !.quota = cf.quota])
  ELSE NoMishap /\ Refreshed(Absent)

(* Mutant: no quota is assigned as well. *)
BindQuotaAlways(quota) == <<Call("quota", quota)>>

(* bindQuota: no quota is nothing to do. *)
BindQuota(quota) == IF quota = None THEN <<>> ELSE <<Call("quota", quota)>>

(* Create takes an organization of the name as it is. An error counts as    *)
(* not found. After the request its id is looked up, the error dropped: it  *)
(* is the read behind it that fails then.                                   *)
Create ==
  /\ ~tf.there
  /\ \/ /\ cf.there /\ cf.name = cfg.name /\ NoMishap
        /\ Begin("create", Planned(TRUE), <<Call("get", None)>> \o BindQuota(cfg.quota))
     \/ /\ IF cf.there /\ cf.name = cfg.name THEN Mishap("find") ELSE NoMishap
        /\ Begin("create", Absent, <<Call("post", None), Call("find", None),
                                     Call("get", None)>> \o BindQuota(cfg.quota))

(* Update compares with the Cloud Controller and not with the state. *)
Update ==
  /\ tf.there /\ ~tf.tainted /\ ~InSync
  /\ \/ /\ cf.there /\ NoMishap
        /\ Begin("update", Planned(TRUE),
                 (IF cf.quota # cfg.quota THEN BindQuota(cfg.quota) ELSE <<>>)
                 \o IF cf.name # cfg.name THEN <<Call("rename", cfg.name)>> ELSE <<>>)
     \/ ~cf.there /\ NoMishap /\ Begin("update", Absent, <<>>)
     \/ Mishap("get") /\ GivesUp("update", Planned(TRUE))

(* Delete leaves the organization of the system domain. *)
DeleteCalls == IF tf.system THEN <<>> ELSE <<Call("delete", None)>>

Replace == tf.there /\ tf.tainted /\ NoMishap /\ Begin("delete", tf, DeleteCalls)
Destroy == Removed(DeleteCalls)

Effect(c) ==
  CASE c.do = "post"   -> [there |-> TRUE, name |-> d.name,
                           quota |-> IF d.quota = None THEN Default ELSE d.quota]
    [] c.do = "quota"  -> [cf EXCEPT !.quota = c.arg]
    [] c.do = "rename" -> [cf EXCEPT !.name = c.arg]
    [] c.do = "delete" -> [cf EXCEPT !.there = FALSE]
    [] OTHER -> cf

Perform ==
  /\ todo # <<>>
  /\ Calling(Effect(Head(todo)),
             IF Head(todo).do = "find" THEN [d EXCEPT !.there = TRUE] ELSE d,
             IF Head(todo).do = "post" THEN ~(cf.there /\ cf.name = d.name) ELSE cf.there, FALSE)

OthersChange == \E o \in Org : Others(IF o.there THEN o ELSE [cf EXCEPT !.there = FALSE])

-----------------------------------------------------------------------------
Init ==
  /\ cf \in Org /\ Idle(Absent)

NothingToDo == Settled(InSync)
Run     == Refresh \/ NothingToDo \/ Create \/ Update \/ Replace
Operate == Perform \/ Finish \/ EndOperation(Absent)
Disturb == EditConfig \/ OthersChange \/ Destroy \/ Crash(Absent)

Next == Run \/ Operate \/ Disturb
Spec == Init /\ [][Next]_vars

-----------------------------------------------------------------------------
TypeOK == CoreOK /\ cf \in Org /\ tf \in Data /\ d \in Data

(* What an empty plan may hide of an organization, whatever failed before:  *)
(* its name is the one asked for, and its quota is, or else it is the       *)
(* default (organizations.go:80).                                           *)
OnlyDefaultHides ==
  InSync /\ cf.there => cf.name = cfg.name /\ cf.quota \in {cfg.quota, Default}

(* Runs end in an empty plan unless the configuration has no quota and the  *)
(* organization another than the default: that is seen and never changed.   *)
Recovers == cfg.quota = None => cf.quota = Default

(* A Create or Update that succeeded left the name and, if one was asked    *)
(* for, the quota (organizations.go:48, 111).                               *)
Truthful == Told => cf.there /\ cf.name = d.name /\ d.quota \in {None, cf.quota}
=============================================================================
