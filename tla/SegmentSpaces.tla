--------------------------- MODULE SegmentSpaces ----------------------------
(***************************************************************************)
(* The isolation_segment_space resource                                     *)
(* (resources/isolation_segment_space.go): the segment of one space. The id *)
(* of the resource, the space and the segment, is set before the only call. *)
(***************************************************************************)
EXTENDS Terraform

CONSTANTS Segments, None

Data == [segment : Segments, there : BOOLEAN, tainted : BOOLEAN]

SegmentSpacesAssumption == None \notin Segments /\ Configs \subseteq Segments

Planned(there) == [segment |-> cfg, there |-> there, tainted |-> FALSE]
Absent == Planned(FALSE)
InSync == tf = Planned(TRUE)

-----------------------------------------------------------------------------
(* Mutant: any segment will do. *)
ExistsAny == tf.there /\ cf # None

(* Exists: the space has the segment of the id, which is what Read reads.   *)
Exists == tf.there /\ cf = tf.segment

Refresh == NoMishap /\ Refreshed(IF Exists THEN tf ELSE Absent)

Create == ~tf.there /\ NoMishap /\ Begin("create", Planned(TRUE), <<Call("set", cfg)>>)

(* Another segment is a ForceNew. Delete leaves the space with no segment,  *)
(* whichever it has by then.                                                *)
DeleteCalls == <<Call("set", None)>>
Replace == /\ tf.there /\ (tf.tainted \/ tf.segment # cfg)
           /\ NoMishap /\ Begin("delete", tf, DeleteCalls)
Destroy == Removed(DeleteCalls)

Perform == todo # <<>> /\ Calling(Head(todo).arg, d, TRUE, FALSE)

OthersChange == \E s \in Segments \cup {None} : Others(s)

-----------------------------------------------------------------------------
Init == cf \in Segments \cup {None} /\ Idle(Absent)

NothingToDo == Settled(InSync)
Run     == Refresh \/ NothingToDo \/ Create \/ Replace
Operate == Perform \/ Finish \/ EndOperation(Absent)
Disturb == EditConfig \/ OthersChange \/ Destroy \/ Crash(Absent)

Next == Run \/ Operate \/ Disturb
Spec == Init /\ [][Next]_vars

-----------------------------------------------------------------------------
TypeOK ==
  /\ CoreOK /\ cf \in Segments \cup {None} /\ tf \in Data /\ d \in Data
  /\ todo \in Seq([do : {"set"}, arg : Segments \cup {None}])

(* An empty plan is true: the space has the segment asked for, although the *)
(* resource has its id also when the call failed                            *)
(* (isolation_segment_space.go:13).                                         *)
AsAsked == InSync => cf = cfg

(* A Create that succeeded gave the space the segment. *)
Truthful == Told => cf = d.segment
=============================================================================
