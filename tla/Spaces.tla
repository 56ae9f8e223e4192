------------------------------- MODULE Spaces -------------------------------
(***************************************************************************)
(* The space resource (resources/spaces.go): a space with its quota, ssh    *)
(* access and the security groups bound to it. Others bind groups to the    *)
(* same space, and some groups apply to every space without being bound.    *)
(* Its name and its organization are one value, its place.                  *)
(***************************************************************************)
EXTENDS Terraform

CONSTANTS
  Groups,
  Everywhere,  \* the groups of every running application, bound or not
  Elsewhere,   \* the groups that are bound to other spaces
  Places, SpaceQuotas, None

Config == [place : Places, quota : SpaceQuotas \cup {None}, ssh : BOOLEAN,
           groups : SUBSET Groups]
Data   == [place : Places, quota : SpaceQuotas \cup {None}, ssh : BOOLEAN,
           groups : SUBSET Groups, there : BOOLEAN, tainted : BOOLEAN]
Space  == [there : BOOLEAN, place : Places, quota : SpaceQuotas \cup {None},
           ssh : BOOLEAN, bound : SUBSET Groups]

SpacesAssumption ==
  /\ None \notin SpaceQuotas /\ IsFiniteSet(Groups)
  /\ Everywhere \subseteq Groups /\ Elsewhere \subseteq Groups
  /\ Configs \subseteq Config

Planned(there) == [place |-> cfg.place, quota |-> cfg.quota, ssh |-> cfg.ssh,
                   groups |-> cfg.groups, there |-> there, tainted |-> FALSE]
Absent == Planned(FALSE)
InSync == tf = Planned(TRUE)

-----------------------------------------------------------------------------
Listed == IF cf.there THEN cf.bound \cup Everywhere ELSE {}

(* filterSecGroup: of the groups listed, those that are bound to a space,   *)
(* be it another, and that the resource names. A group whose own read fails *)
(* is dropped.                                                              *)
Seen(named) == (cf.bound \cup (Everywhere \cap Elsewhere)) \cap named
Filter(named, seen) ==
  \/ seen = Seen(named) /\ NoMishap
  \/ seen \in SUBSET Seen(named) \ {Seen(named)} /\ Mishap("filter")

(* Neither the name nor the organization is read.                           *)
Read(seen) == [tf EXCEPT !.quota = cf.quota, !.ssh = cf.ssh, !.groups = seen]

Refresh ==
  IF tf.there /\ cf.there
  THEN \E seen \in SUBSET tf.groups : Filter(tf.groups, seen) /\ Refreshed(Read(seen))
  ELSE NoMishap /\ Refreshed(Absent)

(* updateSecGroups: first what is missing, then what is too much. *)
SecGroupCalls(from, to) == InTurn(Each("bind", to \ from), Each("unbind", from \ to))

(* bindOrUnbindQuota: one quota after the other, with none in between. *)
QuotaCalls(from, to) ==
  (IF from \notin {to, None} THEN <<Call("unassign", None)>> ELSE <<>>)
  \o IF to \notin {from, None} THEN <<Call("assign", to)>> ELSE <<>>

(* FindByNameInOrg.                                                         *)
Found == cf.there /\ cf.place = cfg.place

(* Create takes a space of the name with the quota and the ssh access it    *)
(* has, keeps its id from then on, and binds the groups. Of a space that it *)
(* made it keeps the id behind the groups. The ssh access comes last.       *)
Create ==
  /\ ~tf.there
  /\ LET adopted == [Absent EXCEPT !.there = TRUE, !.quota = cf.quota]
         made(b)  == <<Call("post", None)>> \o b
                     \o <<Call("setId", None), Call("ssh", cfg.ssh)>>
     IN \/ /\ Found
           /\ \/ \E seen \in SUBSET cfg.groups :
                   /\ Filter(cfg.groups, seen)
                   /\ \E b \in Each("bind", cfg.groups \ seen) :
                        Begin("create", adopted, b \o <<Call("ssh", cfg.ssh)>>)
              \/ Mishap("get") /\ GivesUp("create", adopted)
        \/ /\ IF Found THEN Mishap("find") ELSE NoMishap
           /\ \E b \in Each("bind", cfg.groups) : Begin("create", Absent, made(b))

(* Mutant: an update looks at all the groups that are listed. *)
FromListed == Listed

(* Update: when the configuration's groups changed it compares with the     *)
(* groups of the state, else with all that are listed. It sends no name and *)
(* no organization.                                                         *)
From == IF tf.groups # cfg.groups THEN Listed \cap tf.groups ELSE Listed

Update ==
  /\ tf.there /\ ~tf.tainted /\ ~InSync
  /\ \/ /\ NoMishap
        /\ \E g \in SecGroupCalls(From, cfg.groups) :
             Begin("update", Planned(TRUE),
                   (IF (cf.there /\ cf.ssh) # cfg.ssh THEN <<Call("trySsh", cfg.ssh)>> ELSE <<>>)
                   \o g \o QuotaCalls(IF cf.there THEN cf.quota ELSE None, cfg.quota))
     \/ Mishap("get") /\ GivesUp("update", Planned(TRUE))

DeleteCalls == <<Call("delete", None)>>
Replace == tf.there /\ tf.tainted /\ NoMishap /\ Begin("delete", tf, DeleteCalls)
Destroy == Removed(DeleteCalls)

Effect(c) ==
  CASE c.do = "post"     -> [there |-> TRUE, place |-> d.place, quota |-> d.quota,
                             ssh |-> TRUE, bound |-> {}]
    [] c.do = "bind"     -> [cf EXCEPT !.bound = @ \cup {c.arg}]
    [] c.do = "unbind"   -> [cf EXCEPT !.bound = @ \ {c.arg}]
    [] c.do = "unassign" -> [cf EXCEPT !.quota = None]
    [] c.do = "assign"   -> [cf EXCEPT !.quota = c.arg]
    [] c.do \in {"ssh", "trySsh"} -> [cf EXCEPT !.ssh = c.arg]
    [] c.do = "delete"   -> [cf EXCEPT !.there = FALSE, !.bound = {}]
    [] OTHER -> cf

(* A name is given once in an organization; a space made under another is a *)
(* new one.                                                                 *)
Possible(c) == IF c.do = "post" THEN ~(cf.there /\ cf.place = d.place) ELSE cf.there

(* The request of an update for the ssh access has its error dropped. *)
Perform ==
  /\ todo # <<>>
  /\ LET c == Head(todo)
     IN Calling(Effect(c), IF c.do = "setId" THEN [d EXCEPT !.there = TRUE] ELSE d,
                Possible(c), c.do = "trySsh")

(* Others bind and unbind groups; they rename the space, make it, or delete *)
(* it.                                                                      *)
OthersChange ==
  \/ \E g \in Groups : cf.there /\ Others([cf EXCEPT !.bound = (@ \ {g}) \cup ({g} \ @)])
  \/ \E p \in Places : cf.there /\ Others([cf EXCEPT !.place = p])
  \/ Others([cf EXCEPT !.there = ~@, !.bound = {}])

-----------------------------------------------------------------------------
Init ==
  /\ cf \in Space /\ (~cf.there => cf.bound = {} /\ cf.quota = None /\ cf.ssh)
  /\ Idle(Absent)

NothingToDo == Settled(InSync)
Run     == Refresh \/ NothingToDo \/ Create \/ Update \/ Replace
Operate == Perform \/ Finish \/ EndOperation(Absent)
Disturb == EditConfig \/ OthersChange \/ Destroy \/ Crash(Absent)

Next == Run \/ Operate \/ Disturb
Spec == Init /\ [][Next]_vars

-----------------------------------------------------------------------------
TypeOK ==
  /\ CoreOK /\ cf \in Space /\ tf \in Data /\ d \in Data
  /\ todo \in Seq([do : {"post", "setId", "ssh", "trySsh", "bind", "unbind",
                         "assign", "unassign", "delete"},
                   arg : Groups \cup SpaceQuotas \cup {None} \cup BOOLEAN])

(* The groups that apply to the space. *)
Applied == cf.bound \cup Everywhere

(* An empty plan is true: the space has the quota and the ssh access that   *)
(* are asked for, and each group applies to it, whatever failed before,     *)
(* also the request for the ssh access whose error Update drops             *)
(* (spaces.go:169). It has the name and the organization only as long as    *)
(* nobody changes either: they are not read (125-151), and an edit of them  *)
(* is neither sent (152-184) nor a replacement (227-244).                   *)
AsAsked ==
  InSync /\ cf.there
    => /\ cf.quota = cfg.quota /\ cf.ssh = cfg.ssh /\ cfg.groups \subseteq Applied
       /\ edits = 0 => cf.place = cfg.place

(* An update to other groups leaves a group alone that others bound, and    *)
(* does not lift, even for a moment, a group that stays asked for           *)
(* (spaces.go:82, 171). (An update that changes no groups unbinds all that  *)
(* are not in the configuration.)                                           *)
KeepsGroups ==
  op = "update" /\ d.groups # tf.groups
    => (cf.bound \ (tf.groups \ d.groups)) \subseteq cf'.bound

(* A Create or Update that succeeded left what it tells Terraform, but for  *)
(* the request for the ssh access that Update may lose (spaces.go:94, 152). *)
(* An Update with nothing to bind or assign succeeds without a space: it    *)
(* looks whether the id it asks for is empty, not that of the answer (159). *)
(* Of the name and the organization only a Create speaks the truth: an      *)
(* Update takes others over into the state without sending them (152-184).  *)
Truthful ==
  Told => \/ /\ cf.there /\ cf.quota = d.quota /\ d.groups \subseteq Applied
             /\ cf.ssh = d.ssh \/ (op = "update" /\ mishaps > 0)
             /\ op = "create" => cf.place = d.place
          \/ op = "update" /\ ~cf.there /\ d.groups = {} /\ d.quota = None
=============================================================================
