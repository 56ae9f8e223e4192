----------------------------- MODULE Terraform ------------------------------
(***************************************************************************)
(* What the resources of one object have in common: Terraform's core, which *)
(* is not in this repository, and a request to the Cloud Controller. A run  *)
(* of Terraform is a refresh, a plan, and an operation of the provider that *)
(* makes its calls one by one until one of them fails. Others change the    *)
(* object before a run, and between its refresh and its operation.          *)
(*                                                                         *)
(* Each resource EXTENDS this module and says what its object "cf" is, what *)
(* a refresh reads, which calls an operation makes and what they do.        *)
(***************************************************************************)
EXTENDS Naturals, Sequences, FiniteSets

CONSTANTS
  Configs,     \* configurations the operator may write
  Failing, MaxMishaps,  \* which calls may fail, how often
  MaxEdits     \* bound on what the operator and others do

ASSUME TerraformAssumption == MaxMishaps \in Nat /\ MaxEdits \in Nat

VARIABLES
  cfg,      \* the configuration
  cf,       \* the object in the Cloud Controller
  tf,       \* Terraform's state: attributes, "there", "tainted"
  d,        \* the resource data of the operation
  pc, op,   \* where the run is; which operation
  todo,     \* the calls still to make: [do |-> a name, arg |-> an argument]
  result, edits, mishaps

vars == <<cfg, cf, tf, d, pc, op, todo, result, edits, mishaps>>

Call(what, arg) == [do |-> what, arg |-> arg]

(* The orders in which a loop over a finite set may take its members.       *)
Orders(S) == {q \in [1 .. Cardinality(S) -> S] : \A i, j \in DOMAIN q : i # j => q[i] # q[j]}

(* The calls of one kind for each member of a set, in an order of the       *)
(* code's choosing.                                                         *)
Each(what, S) == {[i \in DOMAIN q |-> Call(what, q[i])] : q \in Orders(S)}

(* First the calls of one list of A, then those of one of B.                *)
InTurn(A, B) == {a \o b : a \in A, b \in B}

-----------------------------------------------------------------------------
Answers == {"ok", "fail", "lost", "rejected"}
Done    == {"ok", "lost"}

Mishap(where) == where \in Failing /\ mishaps < MaxMishaps /\ mishaps' = mishaps + 1
NoMishap == UNCHANGED mishaps

Answer(a, where, possible) ==
  \/ possible  /\ a = "ok"               /\ NoMishap
  \/ possible  /\ a \in {"fail", "lost"} /\ Mishap(where)
  \/ ~possible /\ a = "rejected"         /\ NoMishap

-----------------------------------------------------------------------------
(* A plan compares what a refresh read with the configuration.              *)
Refreshed(new) ==
  /\ pc = "idle" /\ pc' = "plan" /\ tf' = new
  /\ UNCHANGED <<cfg, cf, d, op, todo, result, edits>>

Settled(inSync) ==
  /\ pc = "plan" /\ inSync /\ pc' = "idle"
  /\ UNCHANGED <<cfg, cf, tf, d, op, todo, result, edits, mishaps>>

(* An operation begins, on what it reads first.                             *)
Begin(what, data, calls) ==
  /\ pc = "plan" /\ pc' = "call"
  /\ op' = what /\ d' = data /\ todo' = calls
  /\ UNCHANGED <<cfg, cf, tf, result, edits>>

GivesUp(what, data) ==
  /\ pc = "plan" /\ pc' = "return" /\ result' = "failed"
  /\ op' = what /\ d' = data /\ todo' = <<>>
  /\ UNCHANGED <<cfg, cf, tf, edits>>

(* The next call: "new" is the object, "learned" the resource data after    *)
(* it. The first error ends the operation, if it is not dropped.            *)
Calling(new, learned, possible, dropped) ==
  /\ pc = "call" /\ todo # <<>>
  /\ \E a \in Answers :
       /\ Answer(a, Head(todo).do, possible)
       /\ cf' = IF a \in Done THEN new ELSE cf
       /\ d'  = IF a = "ok" THEN learned ELSE d
       /\ IF a = "ok" \/ dropped
          THEN todo' = Tail(todo) /\ UNCHANGED <<pc, result>>
          ELSE todo' = <<>> /\ pc' = "return" /\ result' = "failed"
  /\ UNCHANGED <<cfg, tf, op, edits>>

Finish ==
  /\ pc = "call" /\ todo = <<>>
  /\ pc' = "return" /\ result' = "ok"
  /\ UNCHANGED <<cfg, cf, tf, d, op, todo, edits, mishaps>>

(* Terraform keeps the resource data of an operation, failed or not; a      *)
(* failed Create taints. What was deleted is created by the next run.       *)
EndOperation(absent) ==
  /\ pc = "return" /\ pc' = "idle"
  /\ tf' = CASE op = "delete" /\ result = "ok" -> absent
             [] op = "delete" /\ result # "ok" -> tf
             [] op # "delete" -> IF d.there
                                 THEN [d EXCEPT !.tainted = op = "create" /\ result = "failed"]
                                 ELSE absent
  /\ d' = absent /\ op' = "none" /\ result' = "none"
  /\ UNCHANGED <<cfg, cf, todo, edits, mishaps>>

(* Terraform is killed, and its state stays what it was. *)
Crash(absent) ==
  /\ pc # "idle" /\ pc' = "idle" /\ Mishap("crash")
  /\ todo' = <<>> /\ d' = absent /\ op' = "none" /\ result' = "none"
  /\ UNCHANGED <<cfg, cf, tf, edits>>

(* The provider panics in a refresh; the operator runs Terraform again. *)
Panics == /\ pc = "idle" /\ pc' = "panic"
          /\ UNCHANGED <<cfg, cf, tf, d, op, todo, result, edits, mishaps>>
Again  == /\ pc = "panic" /\ pc' = "idle"
          /\ UNCHANGED <<cfg, cf, tf, d, op, todo, result, edits, mishaps>>

-----------------------------------------------------------------------------
EditConfig ==
  /\ pc = "idle" /\ edits < MaxEdits /\ edits' = edits + 1
  /\ cfg' \in Configs \ {cfg}
  /\ UNCHANGED <<cf, tf, d, pc, op, todo, result, mishaps>>

(* The object is changed by others, or the operator removes the resource.   *)
Others(new) ==
  /\ pc \in {"idle", "plan"} /\ edits < MaxEdits /\ edits' = edits + 1
  /\ new # cf /\ cf' = new
  /\ UNCHANGED <<cfg, tf, d, pc, op, todo, result, mishaps>>

Removed(calls) ==
  /\ pc = "plan" /\ tf.there /\ edits < MaxEdits /\ edits' = edits + 1
  /\ pc' = "call" /\ op' = "delete" /\ d' = tf /\ todo' = calls
  /\ UNCHANGED <<cfg, cf, tf, result, mishaps>>

Idle(absent) ==
  /\ cfg \in Configs /\ tf = absent /\ d = absent
  /\ pc = "idle" /\ op = "none" /\ todo = <<>> /\ result = "none"
  /\ edits = 0 /\ mishaps = 0

(* A Create or Update returned without an error, and Terraform will keep    *)
(* what it says. Nobody else acts while an operation is under way.          *)
Told == pc = "return" /\ result = "ok" /\ op \in {"create", "update"} /\ d.there

(* The types of what is not the resource's own. *)
CoreOK ==
  /\ cfg \in Configs
  /\ pc \in {"idle", "plan", "call", "return", "panic"}
  /\ op \in {"none", "create", "update", "delete"}
  /\ result \in {"none", "ok", "failed"}
  /\ edits \in 0 .. MaxEdits /\ mishaps \in 0 .. MaxMishaps
=============================================================================
