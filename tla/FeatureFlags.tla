---------------------------- MODULE FeatureFlags ----------------------------
(***************************************************************************)
(* The feature_flags resource (resources/feature_flags.go): the flags that  *)
(* the provider knows, each with a default, and custom flags that a         *)
(* configuration may name. They are set one call at a time, in the order of *)
(* a Go map.                                                                *)
(***************************************************************************)
EXTENDS Terraform

CONSTANTS
  Known, Custom,
  Defaults,    \* the value of a known flag that is not configured
  Served,      \* the flags that the Cloud Controller has
  Unnamed      \* the value of a custom flag that is not configured

Flags  == Known \cup Custom
Wanted == [Flags -> BOOLEAN \cup {Unnamed}]
Data   == [flags : Wanted, there : BOOLEAN, tainted : BOOLEAN]

FeatureFlagsAssumption ==
  /\ Known \cap Custom = {} /\ Served \subseteq Flags /\ IsFiniteSet(Flags)
  /\ Defaults \in [Known -> BOOLEAN] /\ Unnamed \notin BOOLEAN /\ "setId" \notin Flags
  /\ Configs \subseteq {w \in Wanted : \A f \in Known : w[f] # Unnamed}

Planned(there) == [flags |-> cfg, there |-> there, tainted |-> FALSE]
Absent == Planned(FALSE)
InSync == tf = Planned(TRUE)

-----------------------------------------------------------------------------
(* Mutant: what is not known is not read. *)
ReadKnown(flags) == [f \in Flags |-> IF f \in Known \cap Served THEN cf[f] ELSE flags[f]]

(* Read: a flag that the Cloud Controller does not have keeps its value.    *)
Read(flags) ==
  [f \in Flags |-> IF f \in Served /\ flags[f] # Unnamed THEN cf[f] ELSE flags[f]]

(* Exists says yes of whatever has an id. *)
Refresh == NoMishap /\ Refreshed(IF tf.there THEN [tf EXCEPT !.flags = Read(@)] ELSE Absent)

(* filteredFlagsWithCf: those that the Cloud Controller has otherwise.      *)
Filtered(flags) == {f \in DOMAIN flags \cap Served : flags[f] # Unnamed /\ flags[f] # cf[f]}

FlagCalls(flags) ==
  {[i \in DOMAIN q |-> Call(q[i], flags[q[i]])] : q \in Orders(Filtered(flags))}

(* Create has an id when there is nothing to set or everything is set. *)
SetId == <<Call("setId", TRUE)>>
Create ==
  /\ ~tf.there
  /\ \/ Filtered(cfg) = {} /\ NoMishap /\ Begin("create", Planned(TRUE), <<>>)
     \/ /\ IF Filtered(cfg) = {} THEN Mishap("list") ELSE NoMishap
        /\ \E calls \in FlagCalls(cfg) : Begin("create", Absent, calls \o SetId)
     \/ Mishap("list") /\ GivesUp("create", Absent)

Update ==
  /\ tf.there /\ ~tf.tainted /\ ~InSync
  /\ \/ NoMishap /\ \E calls \in FlagCalls(cfg) : Begin("update", Planned(TRUE), calls)
     \/ Mishap("list") /\ GivesUp("update", Planned(TRUE))

(* Delete sets the known flags to their defaults. *)
Destroy == \E calls \in FlagCalls(Defaults) : Removed(calls)

Effect(c) == IF c.do \in Served THEN [cf EXCEPT ![c.do] = c.arg] ELSE cf

Perform ==
  /\ todo # <<>>
  /\ Calling(Effect(Head(todo)), [d EXCEPT !.there = @ \/ Head(todo).do = "setId"], TRUE, FALSE)

OthersChange == \E f \in Served : Others([cf EXCEPT ![f] = ~@])

-----------------------------------------------------------------------------
Init == cf \in [Served -> BOOLEAN] /\ Idle(Absent)

NothingToDo == Settled(InSync)
Run     == Refresh \/ NothingToDo \/ Create \/ Update
Operate == Perform \/ Finish \/ EndOperation(Absent)
Disturb == EditConfig \/ OthersChange \/ Destroy \/ Crash(Absent)

Next == Run \/ Operate \/ Disturb
Spec == Init /\ [][Next]_vars

-----------------------------------------------------------------------------
TypeOK ==
  /\ CoreOK /\ cf \in [Served -> BOOLEAN] /\ tf \in Data /\ d \in Data
  /\ todo \in Seq([do : Flags \cup {"setId"}, arg : BOOLEAN])

(* An empty plan is true: each flag that the configuration gives a value    *)
(* and that the Cloud Controller has, has that value - also when an         *)
(* operation stopped in the middle of its flags (feature_flags.go:71).      *)
AsAsked == InSync => \A f \in Served : cfg[f] \in {cf[f], Unnamed}

(* A Create or Update that succeeded left every flag as asked for that the  *)
(* Cloud Controller has, although only those that differed were sent.       *)
Truthful == Told => \A f \in Served : d.flags[f] \in {cf[f], Unnamed}
=============================================================================
