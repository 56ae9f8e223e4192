------------------------------- MODULE Rewind -------------------------------
(***************************************************************************)
(* Actions.Execute (rewind/rewind.go): run the Forward of each action of a *)
(* list in turn. The first one that fails ends the list: its own           *)
(* ReversePrevious undoes what the actions before it did, once, and the    *)
(* error of the Forward is returned, or the reverse's if that fails too.   *)
(* What the actions do is left open: this is what a blue-green update of   *)
(* an application promises (AppsRewind).                                   *)
(***************************************************************************)
EXTENDS Naturals, Sequences

CONSTANT Lists   \* lists of actions: whether each one has a ReversePrevious

VARIABLES
  list,      \* the actions that are executed
  at,        \* the one whose Forward runs
  mode,      \* where Execute is; "idle" when it is not called
  outcome    \* what it returned: "error" is the Forward's, not reversed;
             \* "rewound" the Forward's, reversed; "rewindFailed" the reverse's

vars == <<list, at, mode, outcome>>

Init == list = <<>> /\ at = 0 /\ mode = "idle" /\ outcome = "none"

Returns(o) == mode' = "returned" /\ at' = 0 /\ outcome' = o

Execute ==
  /\ mode = "idle"
  /\ list' \in Lists
  /\ IF list' = <<>> THEN Returns("ok")
                     ELSE mode' = "forward" /\ at' = 1 /\ outcome' = "none"

ForwardDone ==
  /\ mode = "forward"
  /\ IF at = Len(list) THEN Returns("ok")
                       ELSE at' = at + 1 /\ UNCHANGED <<mode, outcome>>
  /\ UNCHANGED list

ForwardFails ==
  /\ mode = "forward"
  /\ IF list[at] THEN mode' = "reverse" /\ at' = 0 /\ UNCHANGED outcome
                 ELSE Returns("error")
  /\ UNCHANGED list

Reversed ==
  /\ mode = "reverse"
  /\ \E o \in {"rewound", "rewindFailed"} : Returns(o)
  /\ UNCHANGED list

(* The caller takes the error, or the process dies under way. *)
Leave ==
  /\ mode # "idle"
  /\ list' = <<>> /\ at' = 0 /\ mode' = "idle" /\ outcome' = "none"

Next == Execute \/ ForwardDone \/ ForwardFails \/ Reversed \/ Leave

Spec == Init /\ [][Next]_vars

=============================================================================
