---------------------------- MODULE Entitlements ----------------------------
(***************************************************************************)
(* The isolation_segment_entitlement resources of one organization          *)
(* (resources/isolation_segment_entitlement.go), one for each segment. They *)
(* share the default segment of the organization, which each of them sets   *)
(* and takes away, and Terraform runs their operations side by side.        *)
(***************************************************************************)
EXTENDS Naturals, FiniteSets

CONSTANTS
  Segments, None,
  Configs,              \* configurations: the segments wanted, and the default
  Failing, MaxMishaps,  \* which calls may fail, how often
  MaxEdits              \* bound on what the operator and others do

Config == [wanted : SUBSET Segments, default : Segments \cup {None}]

(* At most one segment is the default: two would fight for it forever.      *)
ASSUME EntitlementsAssumption ==
  /\ None \notin Segments /\ Configs \subseteq Config
  /\ \A c \in Configs : c.default = None \/ c.default \in c.wanted
  /\ MaxMishaps \in Nat /\ MaxEdits \in Nat

VARIABLES
  cfg,        \* the configuration
  entitled,   \* the segments that the organization is entitled to
  default,    \* its default segment
  tf,         \* of each segment what the state says: "absent", "plain", "default"
  tainted,    \* the resources whose Create failed
  pc,         \* of the run of each resource: "idle", "plan", and its next call
  op,         \* the operation that it is at
  edits, mishaps

vars == <<cfg, entitled, default, tf, tainted, pc, op, edits, mishaps>>

platform == <<entitled, default>>

Mishap(where) == where \in Failing /\ mishaps < MaxMishaps /\ mishaps' = mishaps + 1
NoMishap == UNCHANGED mishaps

Planned(s) == IF s \notin cfg.wanted THEN "absent"
              ELSE IF cfg.default = s THEN "default" ELSE "plain"

-----------------------------------------------------------------------------
(* Exists and Read: the organization is among those of the segment, and its *)
(* default is this one.                                                     *)
Seen(s) == IF s \notin entitled THEN "absent"
           ELSE IF default = s THEN "default" ELSE "plain"

(* Mutant: the default is not read. *)
ReadEntitled(s) == IF tf[s] # "absent" /\ s \in entitled THEN tf[s] ELSE "absent"

Read(s) == IF tf[s] # "absent" THEN Seen(s) ELSE "absent"

(* A run begins when all resources have ended the last one: it refreshes    *)
(* them all, and plans from that.                                           *)
Refresh ==
  /\ \A s \in Segments : pc[s] = "idle"
  /\ tf' = [s \in Segments |-> Read(s)] /\ pc' = [s \in Segments |-> "plan"]
  /\ tainted' = {s \in tainted : Read(s) # "absent"}
  /\ UNCHANGED <<cfg, platform, op, edits, mishaps>>

(* Mutant: an operation does not end. *)
GoesOn(s, what, where) ==
  pc' = [pc EXCEPT ![s] = where] /\ op' = [op EXCEPT ![s] = IF what = "none" THEN @ ELSE what]

Goes(s, what, where) == op' = [op EXCEPT ![s] = what] /\ pc' = [pc EXCEPT ![s] = where]

NothingToDo(s) ==
  /\ pc[s] = "plan" /\ tf[s] = Planned(s) /\ s \notin tainted /\ Goes(s, "none", "idle")
  /\ UNCHANGED <<cfg, platform, tf, tainted, edits, mishaps>>

(* Create has its id before its first call, Update looks at the default     *)
(* only; what is tainted or no longer wanted is deleted.                    *)
Create(s) ==
  /\ pc[s] = "plan" /\ tf[s] = "absent" /\ Planned(s) # "absent" /\ Goes(s, "create", "entitle")
  /\ UNCHANGED <<cfg, platform, tf, tainted, edits, mishaps>>

Update(s) ==
  /\ pc[s] = "plan" /\ s \notin tainted
  /\ tf[s] # Planned(s) /\ "absent" \notin {tf[s], Planned(s)} /\ Goes(s, "update", "default")
  /\ UNCHANGED <<cfg, platform, tf, tainted, edits, mishaps>>

Delete(s) ==
  /\ pc[s] = "plan" /\ tf[s] # "absent" /\ (Planned(s) = "absent" \/ s \in tainted)
  /\ Goes(s, "delete", "clear")
  /\ UNCHANGED <<cfg, platform, tf, tainted, edits, mishaps>>

-----------------------------------------------------------------------------
(* A call is made and answered, or it fails before or behind its effect.    *)
Answered(where, allowed, a) ==
  \/ allowed  /\ a = "ok" /\ NoMishap
  \/ allowed  /\ a \in {"fail", "lost"} /\ Mishap(where)
  \/ ~allowed /\ a = "rejected" /\ NoMishap

Answers == {"ok", "fail", "lost", "rejected"}

(* What the state says after an operation: what was planned also when it    *)
(* failed, but for a delete; a Create that failed is tainted.               *)
Ends(s, ok) ==
  /\ Goes(s, "none", "idle")
  /\ tf' = [tf EXCEPT ![s] = IF op[s] # "delete" THEN Planned(s)
                             ELSE IF ok THEN "absent" ELSE @]
  /\ tainted' = IF op[s] = "create" /\ ~ok THEN tainted \cup {s}
                ELSE IF op[s] = "delete" /\ ok THEN tainted \ {s} ELSE tainted

Entitle(s) ==
  /\ pc[s] = "entitle"
  /\ \E a \in Answers :
       /\ Answered("entitle", TRUE, a)
       /\ entitled' = IF a \in {"ok", "lost"} THEN entitled \cup {s} ELSE entitled
       /\ IF a = "ok" THEN Goes(s, "create", "default") /\ UNCHANGED <<tf, tainted>>
          ELSE Ends(s, FALSE)
  /\ UNCHANGED <<cfg, default, edits>>

(* Mutant: a default is set and never taken away. *)
ToDefaultSet(s) == IF cfg.default = s THEN s ELSE default

(* updateDefaultIsolationSegment: the segment, or none - whichever it was.  *)
ToDefault(s) == IF cfg.default = s THEN s ELSE None

SetDefault(s) ==
  /\ pc[s] = "default"
  /\ \E a \in Answers :
       /\ Answered("default", ToDefault(s) \in entitled \cup {None}, a)
       /\ default' = IF a \in {"ok", "lost"} THEN ToDefault(s) ELSE default
       /\ Ends(s, a = "ok")
  /\ UNCHANGED <<cfg, entitled, edits>>

(* Delete takes the default away first, and drops the error of that.        *)
Clear(s) ==
  /\ pc[s] = "clear" /\ Goes(s, "delete", "revoke")
  /\ \E a \in Answers : /\ Answered("clear", TRUE, a)
                        /\ default' = IF a \in {"ok", "lost"} THEN None ELSE default
  /\ UNCHANGED <<cfg, entitled, tf, tainted, edits>>

(* The default segment is not taken away. *)
Revoke(s) ==
  /\ pc[s] = "revoke"
  /\ \E a \in Answers :
       /\ Answered("revoke", default # s, a)
       /\ entitled' = IF a \in {"ok", "lost"} THEN entitled \ {s} ELSE entitled
       /\ Ends(s, a = "ok")
  /\ UNCHANGED <<cfg, default, edits>>

-----------------------------------------------------------------------------
(* The operator edits between runs; others act whenever they like.          *)
EditConfig ==
  /\ \A s \in Segments : pc[s] = "idle"
  /\ edits < MaxEdits /\ edits' = edits + 1 /\ cfg' \in Configs \ {cfg}
  /\ UNCHANGED <<platform, tf, tainted, pc, op, mishaps>>

Others ==
  /\ edits < MaxEdits /\ edits' = edits + 1
  /\ \/ \E s \in Segments : /\ s # default /\ UNCHANGED default
                           /\ entitled' = IF s \in entitled THEN entitled \ {s}
                                          ELSE entitled \cup {s}
     \/ default' \in (entitled \cup {None}) \ {default} /\ UNCHANGED entitled
  /\ UNCHANGED <<cfg, tf, tainted, pc, op, mishaps>>

(* Terraform is killed: what had not ended is as it was. *)
Crash ==
  /\ \E s \in Segments : pc[s] # "idle"
  /\ Mishap("crash")
  /\ pc' = [s \in Segments |-> "idle"] /\ op' = [s \in Segments |-> "none"]
  /\ UNCHANGED <<cfg, platform, tf, tainted, edits>>

Init ==
  /\ cfg \in Configs /\ entitled \in SUBSET Segments /\ default \in entitled \cup {None}
  /\ tf = [s \in Segments |-> "absent"] /\ tainted = {}
  /\ pc = [s \in Segments |-> "idle"] /\ op = [s \in Segments |-> "none"]
  /\ edits = 0 /\ mishaps = 0

Operate(s) ==
  NothingToDo(s) \/ Create(s) \/ Update(s) \/ Delete(s)
  \/ Entitle(s) \/ SetDefault(s) \/ Clear(s) \/ Revoke(s)

Disturb == EditConfig \/ Others \/ Crash

Next == Refresh \/ (\E s \in Segments : Operate(s)) \/ Disturb

Spec == Init /\ [][Next]_vars

(* Terraform runs again and again, and every operation goes on. *)
FairSpec == Spec /\ WF_vars(Refresh) /\ \A s \in Segments : WF_vars(Operate(s))

-----------------------------------------------------------------------------
TypeOK ==
  /\ cfg \in Configs /\ entitled \subseteq Segments /\ default \in Segments \cup {None}
  /\ tf \in [Segments -> {"absent", "plain", "default"}] /\ tainted \subseteq Segments
  /\ pc \in [Segments -> {"idle", "plan", "entitle", "default", "clear", "revoke"}]
  /\ op \in [Segments -> {"none", "create", "update", "delete"}]
  /\ \A s \in Segments : op[s] = "none" <=> pc[s] \in {"idle", "plan"}
  /\ edits \in 0 .. MaxEdits /\ mishaps \in 0 .. MaxMishaps

InSync    == \A s \in Segments : tf[s] = Planned(s) /\ s \notin tainted
Idle      == \A s \in Segments : pc[s] = "idle"
Refreshed == \A s \in Segments : pc[s] = "plan"

(* An empty plan is true, whatever the resources did to each other and      *)
(* whatever failed: the organization is entitled to each segment wanted,    *)
(* and has the default, or, when none is wanted, none of those.             *)
PlansAreTrue ==
  [][Idle /\ ~Idle' /\ InSync'
       => /\ cfg.wanted \subseteq entitled'
          /\ IF cfg.default # None THEN default' = cfg.default
             ELSE default' \notin cfg.wanted]_vars

(* The resources undo each other's default, but not forever: once nobody    *)
(* edits and nothing fails any more, runs come to an empty plan.            *)
Converges == []<>Refreshed /\ <>[](Refreshed => InSync)
=============================================================================
