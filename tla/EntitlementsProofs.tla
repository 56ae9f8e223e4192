------------------------- MODULE EntitlementsProofs -------------------------
(***************************************************************************)
(* Proofs about Entitlements, for any number of segments of an              *)
(* organization, whatever others do to it while the operations run.         *)
(***************************************************************************)
EXTENDS Entitlements, TLAPS

(* Mishaps stay in their bound,                                             *)
LEMMA MishapType ==
  ASSUME mishaps \in 0 .. MaxMishaps
  PROVE  /\ NoMishap => mishaps' \in 0 .. MaxMishaps
         /\ \A where : Mishap(where) => mishaps' \in 0 .. MaxMishaps
         /\ \A where, allowed, a : Answered(where, allowed, a) => mishaps' \in 0 .. MaxMishaps
  BY EntitlementsAssumption DEF EntitlementsAssumption, NoMishap, Mishap, Answered

(* and so do edits.                                                         *)
LEMMA EditType ==
  ASSUME edits \in 0 .. MaxEdits, edits < MaxEdits, edits' = edits + 1
  PROVE  edits' \in 0 .. MaxEdits
  BY EntitlementsAssumption DEF EntitlementsAssumption

(* What a resource may be at, and where. *)
Places == {"idle", "plan", "entitle", "default", "clear", "revoke"}
Steps  == {"none", "create", "update", "delete"}

(* An operation that goes on keeps the types,                               *)
LEMMA GoesType ==
  ASSUME TypeOK, NEW s \in Segments, NEW what \in Steps, NEW where \in Places,
         what = "none" <=> where \in {"idle", "plan"}, Goes(s, what, where)
  PROVE  /\ pc' \in [Segments -> Places] /\ op' \in [Segments -> Steps]
         /\ \A r \in Segments : op'[r] = "none" <=> pc'[r] \in {"idle", "plan"}
  BY DEF TypeOK, Goes, Places, Steps

(* and so does one that ends.                                               *)
LEMMA EndsType ==
  ASSUME TypeOK, NEW s \in Segments, NEW ok \in BOOLEAN, Ends(s, ok)
  PROVE  /\ pc' \in [Segments -> Places] /\ op' \in [Segments -> Steps]
         /\ \A r \in Segments : op'[r] = "none" <=> pc'[r] \in {"idle", "plan"}
         /\ tf' \in [Segments -> {"absent", "plain", "default"}] /\ tainted' \subseteq Segments
<1>1. /\ pc' \in [Segments -> Places] /\ op' \in [Segments -> Steps]
      /\ \A r \in Segments : op'[r] = "none" <=> pc'[r] \in {"idle", "plan"}
  BY GoesType DEF Ends, Places, Steps
<1>2. \A t \in {"absent", "plain", "default"} :
        [tf EXCEPT ![s] = t] \in [Segments -> {"absent", "plain", "default"}]
  BY DEF TypeOK
<1>3. tf[s] \in {"absent", "plain", "default"} /\ Planned(s) \in {"absent", "plain", "default"}
  BY DEF TypeOK, Planned
<1>4. tf' \in [Segments -> {"absent", "plain", "default"}]
  BY <1>2, <1>3 DEF Ends
<1>5. tainted' \subseteq Segments
  BY DEF Ends, TypeOK
<1> QED
  BY <1>1, <1>4, <1>5

(* A step of an operation keeps the types,                                  *)
LEMMA OperateTyped ==
  ASSUME TypeOK, NEW s \in Segments, Operate(s)
  PROVE  TypeOK'
<1> USE DEF Places, Steps, platform
<1>1. CASE NothingToDo(s) \/ Create(s) \/ Update(s) \/ Delete(s)
  <2>1. PICK what \in Steps, where \in Places :
          Goes(s, what, where) /\ (what = "none" <=> where \in {"idle", "plan"})
    BY <1>1 DEF NothingToDo, Create, Update, Delete
  <2>2. UNCHANGED <<cfg, entitled, default, tf, tainted, edits, mishaps>>
    BY <1>1 DEF NothingToDo, Create, Update, Delete
  <2> QED
    BY <2>1, <2>2, GoesType DEF TypeOK
<1>2. CASE Entitle(s)
  <2>1. PICK a \in Answers :
          /\ Answered("entitle", TRUE, a)
          /\ entitled' = IF a \in {"ok", "lost"} THEN entitled \cup {s} ELSE entitled
          /\ IF a = "ok" THEN Goes(s, "create", "default") /\ UNCHANGED <<tf, tainted>>
             ELSE Ends(s, FALSE)
    BY <1>2 DEF Entitle
  <2>2. UNCHANGED <<cfg, default, edits>>
    BY <1>2 DEF Entitle
  <2>3. mishaps' \in 0 .. MaxMishaps /\ entitled' \subseteq Segments
    BY <2>1, MishapType DEF TypeOK
  <2>4. CASE a = "ok"
    BY <2>1, <2>2, <2>3, <2>4, GoesType DEF TypeOK
  <2>5. CASE a # "ok"
    BY <2>1, <2>2, <2>3, <2>5, EndsType DEF TypeOK
  <2> QED
    BY <2>4, <2>5
<1>3. CASE SetDefault(s)
  <2>1. PICK a \in Answers :
          /\ Answered("default", ToDefault(s) \in entitled \cup {None}, a)
          /\ default' = IF a \in {"ok", "lost"} THEN ToDefault(s) ELSE default
          /\ Ends(s, a = "ok")
    BY <1>3 DEF SetDefault
  <2>2. UNCHANGED <<cfg, entitled, edits>>
    BY <1>3 DEF SetDefault
  <2>3. mishaps' \in 0 .. MaxMishaps /\ default' \in Segments \cup {None}
    BY <2>1, MishapType DEF TypeOK, ToDefault
  <2> QED
    BY <2>1, <2>2, <2>3, EndsType DEF TypeOK
<1>4. CASE Clear(s)
  <2>1. Goes(s, "delete", "revoke") /\ UNCHANGED <<cfg, entitled, tf, tainted, edits>>
    BY <1>4 DEF Clear
  <2>2. mishaps' \in 0 .. MaxMishaps /\ default' \in Segments \cup {None}
    BY <1>4, MishapType DEF Clear, TypeOK
  <2> QED
    BY <2>1, <2>2, GoesType DEF TypeOK
<1>5. CASE Revoke(s)
  <2>1. PICK a \in Answers :
          /\ Answered("revoke", default # s, a)
          /\ entitled' = IF a \in {"ok", "lost"} THEN entitled \ {s} ELSE entitled
          /\ Ends(s, a = "ok")
    BY <1>5 DEF Revoke
  <2>2. UNCHANGED <<cfg, default, edits>>
    BY <1>5 DEF Revoke
  <2>3. mishaps' \in 0 .. MaxMishaps /\ entitled' \subseteq Segments
    BY <2>1, MishapType DEF TypeOK
  <2> QED
    BY <2>1, <2>2, <2>3, EndsType DEF TypeOK
<1> QED
  BY <1>1, <1>2, <1>3, <1>4, <1>5 DEF Operate

(* and so does every step.                                                  *)
LEMMA Typed == TypeOK /\ [Next]_vars => TypeOK'
<1> SUFFICES ASSUME TypeOK, [Next]_vars PROVE TypeOK'
  OBVIOUS
<1>1. CASE UNCHANGED vars
  BY <1>1 DEF vars, TypeOK
<1>2. CASE Refresh
  <2>1. tf' \in [Segments -> {"absent", "plain", "default"}]
    BY <1>2 DEF Refresh, Read, Seen
  <2>2. pc' = [s \in Segments |-> "plan"] /\ tainted' \subseteq Segments
    BY <1>2 DEF Refresh, TypeOK
  <2>3. \A s \in Segments : op[s] = "none"
    BY <1>2 DEF Refresh, TypeOK
  <2> QED
    BY <1>2, <2>1, <2>2, <2>3 DEF Refresh, platform, TypeOK
<1>3. CASE \E s \in Segments : Operate(s)
  BY <1>3, OperateTyped
<1>4. CASE EditConfig
  BY <1>4, EditType DEF EditConfig, platform, TypeOK
<1>5. CASE Others
  <2>1. entitled' \subseteq Segments /\ default' \in Segments \cup {None}
    BY <1>5 DEF Others, TypeOK
  <2> QED
    BY <1>5, <2>1, EditType DEF Others, TypeOK
<1>6. CASE Crash
  BY <1>6, MishapType DEF Crash, platform, TypeOK
<1> QED
  BY <1>1, <1>2, <1>3, <1>4, <1>5, <1>6 DEF Next, Disturb

(* Every variable keeps its type; an operation is under way in exactly the  *)
(* resources that have a call to make.                                      *)
THEOREM TypeCorrect == Spec => []TypeOK
<1>1. Init => TypeOK
  BY EntitlementsAssumption DEF EntitlementsAssumption, Init, TypeOK
<1> QED
  BY <1>1, Typed, PTL DEF Spec

-----------------------------------------------------------------------------
(* A refresh that leaves nothing to do found what is configured.            *)
LEMMA RefreshIsTrue ==
  ASSUME TypeOK, [Next]_vars, Idle, ~Idle', InSync'
  PROVE  /\ cfg.wanted \subseteq entitled'
         /\ IF cfg.default # None THEN default' = cfg.default ELSE default' \notin cfg.wanted
<1>1. Refresh
  <2>1. UNCHANGED vars => Idle'
    BY DEF vars, Idle
  <2>2. EditConfig \/ Others => Idle'
    BY DEF EditConfig, Others, Idle
  <2>3. ~Crash
    BY DEF Crash, Idle
  <2>4. \A s \in Segments : ~Operate(s)
    BY DEF Operate, NothingToDo, Create, Update, Delete, Entitle, SetDefault, Clear, Revoke, Idle
  <2> QED
    BY <2>1, <2>2, <2>3, <2>4 DEF Next, Disturb
<1>2. cfg' = cfg /\ entitled' = entitled /\ default' = default
  BY <1>1 DEF Refresh, platform
<1>3. \A s \in Segments : Read(s) = Planned(s)
  <2>1. \A s \in Segments : tf'[s] = Read(s)
    BY <1>1 DEF Refresh
  <2> QED
    BY <1>2, <2>1 DEF InSync, Planned
<1>4. cfg.wanted \subseteq Segments /\ (cfg.default = None \/ cfg.default \in cfg.wanted)
  BY EntitlementsAssumption DEF EntitlementsAssumption, TypeOK, Config
<1>5. \A s \in cfg.wanted : Seen(s) = IF cfg.default = s THEN "default" ELSE "plain"
  BY <1>3, <1>4 DEF Read, Planned
<1>6. cfg.wanted \subseteq entitled
  BY <1>5 DEF Seen
<1>7. CASE cfg.default # None
  BY <1>2, <1>4, <1>5, <1>6, <1>7 DEF Seen
<1>8. CASE cfg.default = None
  <2>1. \A s \in cfg.wanted : default # s
    BY <1>4, <1>5, <1>6, <1>8, EntitlementsAssumption DEF EntitlementsAssumption, Seen
  <2> QED
    BY <1>2, <1>6, <1>8, <2>1
<1> QED
  BY <1>2, <1>6, <1>7, <1>8

(* An empty plan is true of the entitlements and of the default segment,    *)
(* however the operations of the resources and of others interleaved        *)
(* (isolation_segment_entitlement.go Exists and Read).                      *)
THEOREM EmptyPlanIsTrue == Spec => PlansAreTrue
<1> DEFINE IsTrue ==
      Idle /\ ~Idle' /\ InSync'
        => /\ cfg.wanted \subseteq entitled'
           /\ IF cfg.default # None THEN default' = cfg.default
              ELSE default' \notin cfg.wanted
<1>1. TypeOK /\ [Next]_vars => [IsTrue]_vars
  <2> SUFFICES ASSUME TypeOK, [Next]_vars PROVE IsTrue
    OBVIOUS
  <2> QED
    BY RefreshIsTrue
<1> HIDE DEF IsTrue
<1>2. Spec => [][IsTrue]_vars
  BY <1>1, TypeCorrect, PTL DEF Spec
<1> QED
  BY <1>2 DEF PlansAreTrue, IsTrue
=============================================================================
