------------------------- MODULE IsolationSegments --------------------------
(***************************************************************************)
(* The isolation_segment resource (resources/isolation_segments.go) with    *)
(* its deprecated orgs_id: the organizations entitled to the segment, which *)
(* are sent and never read back.                                            *)
(***************************************************************************)
EXTENDS Terraform

CONSTANT Orgs

(* "own": it has the name that the resource has, always the same.           *)
Config  == SUBSET Orgs
Data    == [orgs : SUBSET Orgs, own : BOOLEAN, there : BOOLEAN, tainted : BOOLEAN]
Segment == [there : BOOLEAN, own : BOOLEAN, orgs : SUBSET Orgs]
Sensible(s) == ~s.there => s.own /\ s.orgs = {}

IsolationSegmentsAssumption == IsFiniteSet(Orgs) /\ Configs \subseteq Config

Planned(there) == [orgs |-> cfg, own |-> TRUE, there |-> there, tainted |-> FALSE]
Absent == Planned(FALSE)
InSync == tf = Planned(TRUE)

(* Another name is a ForceNew. *)
ToReplace == tf.tainted \/ ~tf.own

-----------------------------------------------------------------------------
Read == [tf EXCEPT !.own = cf.own]

Refresh == NoMishap /\ Refreshed(IF tf.there /\ cf.there THEN Read ELSE Absent)

(* updateIsolationSegmentToOrg: one call for each that is revoked, one for  *)
(* all that are entitled.                                                   *)
ToOrg(current, wanted) ==
  {r \o IF wanted \subseteq current THEN <<>> ELSE <<Call("entitle", wanted \ current)>> :
     r \in Each("revoke", current \ wanted)}

(* Exists asks the v3 API with the v2 filter "q=name:" (the client has      *)
(* "names") and takes the first segment of the answer without a look at its *)
(* name: one of another name, or none, an error counting as none, whether   *)
(* there is one of the name or not. Create revokes nothing.                 *)
Create ==
  /\ ~tf.there /\ NoMishap
  /\ \E calls \in ToOrg({}, cfg) :
       \/ cf.there /\ Begin("create", Planned(TRUE), calls)
       \/ Begin("create", Absent, <<Call("post", cfg)>> \o calls)

(* Mutant: everything that is asked for counts as what there is. *)
CurrentAsked == cfg

(* Update starts from what the state says, whatever there is. *)
Current == tf.orgs

Update ==
  /\ tf.there /\ ~ToReplace /\ ~InSync
  /\ \/ /\ cf.there /\ NoMishap
        /\ \E calls \in ToOrg(Current, cfg) : Begin("update", Planned(TRUE), calls)
     \/ ~cf.there /\ NoMishap /\ Begin("update", Absent, <<>>)
     \/ Mishap("get") /\ GivesUp("update", Planned(TRUE))

DeleteCalls == <<Call("delete", {})>>
Replace == tf.there /\ ToReplace /\ NoMishap /\ Begin("delete", tf, DeleteCalls)
Destroy == Removed(DeleteCalls)

Effect(c) ==
  CASE c.do = "post"    -> [there |-> TRUE, own |-> TRUE, orgs |-> {}]
    [] c.do = "entitle" -> [cf EXCEPT !.orgs = @ \cup c.arg]
    [] c.do = "revoke"  -> [cf EXCEPT !.orgs = @ \ {c.arg}]
    [] c.do = "delete"  -> [there |-> FALSE, own |-> TRUE, orgs |-> {}]

(* A name is given once. *)
Possible(c) == IF c.do = "post" THEN ~(cf.there /\ cf.own) ELSE cf.there

Perform ==
  /\ todo # <<>>
  /\ LET c == Head(todo)
     IN Calling(Effect(c), [d EXCEPT !.there = TRUE], Possible(c), FALSE)

OthersChange == \E s \in Segment : Sensible(s) /\ Others(s)

-----------------------------------------------------------------------------
Init == cf \in Segment /\ Sensible(cf) /\ Idle(Absent)

NothingToDo == Settled(InSync)
Run     == Refresh \/ NothingToDo \/ Create \/ Update \/ Replace
Operate == Perform \/ Finish \/ EndOperation(Absent)
Disturb == EditConfig \/ OthersChange \/ Destroy \/ Crash(Absent)

Next == Run \/ Operate \/ Disturb
Spec == Init /\ [][Next]_vars

-----------------------------------------------------------------------------
TypeOK ==
  /\ CoreOK /\ cf \in Segment /\ tf \in Data /\ d \in Data
  /\ todo \in Seq([do : {"post", "entitle", "revoke", "delete"}, arg : Orgs \cup SUBSET Orgs])

(* Behind an empty plan is a segment of the name, also when Create took     *)
(* another (157-170). That it is entitled is true only as long as nobody    *)
(* else acts and nothing fails: an update that failed half way is never     *)
(* seen again (isolation_segments.go:109, 132).                             *)
AsAsked ==
  InSync => /\ cf.own
            /\ edits = 0 /\ mishaps = 0 => cf.there /\ cfg \subseteq cf.orgs

(* A Create that does not find the segment of the name cannot make it.      *)
Recovers == tf.there \/ ~(cf.there /\ cf.own)

(* A Create that succeeded has entitled those asked for, to the segment     *)
(* that it took, be it another's; an Update has entitled those and revoked  *)
(* those that are new and gone since the state.                             *)
Truthful ==
  Told => /\ cf.there /\ (op = "create" => d.orgs \subseteq cf.orgs)
          /\ op = "update" => /\ d.orgs \ tf.orgs \subseteq cf.orgs
                              /\ (tf.orgs \ d.orgs) \cap cf.orgs = {}
=============================================================================
