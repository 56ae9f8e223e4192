-------------------------- MODULE ResourcesProofs ---------------------------
(***************************************************************************)
(* Proofs about the resources of one object, for any constants: types, what *)
(* an empty plan says, what an operation that succeeded left behind, and    *)
(* what operations never take away. One section for each resource, with its *)
(* invariant, and the resources side by side at the end.                    *)
(***************************************************************************)
EXTENDS Resources, TerraformProofs


-----------------------------------------------------------------------------
(* Organizations.                                                           *)
LEMMA OrCore ==
  /\ \A what, arg : Or!Call(what, arg) = Call(what, arg)
  /\ (Or!NoMishap <=> NoMishap) /\ (\A where : Or!Mishap(where) <=> Mishap(where))
  /\ \A new : (Or!Refreshed(new) <=> Refreshed(new)) /\ (Or!Others(new) <=> Others(new))
  /\ \A s : Or!Settled(s) <=> Settled(s)
  /\ \A what, x, calls : Or!Begin(what, x, calls) <=> Begin(what, x, calls)
  /\ \A what, x : Or!GivesUp(what, x) <=> GivesUp(what, x)
  /\ \A calls : Or!Removed(calls) <=> Removed(calls)
  /\ \A new, x, possible, dropped :
       Or!Calling(new, x, possible, dropped) <=> Calling(new, x, possible, dropped)
  /\ \A x : (Or!EndOperation(x) <=> EndOperation(x)) /\ (Or!Crash(x) <=> Crash(x))
  /\ (Or!Finish <=> Finish) /\ (Or!EditConfig <=> EditOf(Configs["organization"]))
  /\ Or!Told <=> Told
  /\ Or!CoreOK <=> Core(Configs["organization"])
BY DEF Or!Call, Or!NoMishap, Or!Mishap, Or!Answers, Or!Answer, Or!Done,
       Or!Refreshed, Or!Settled, Or!Begin, Or!GivesUp, Or!Calling, Or!Finish,
       Or!EndOperation, Or!Crash, Or!EditConfig, Or!Others, Or!Removed, Or!Idle,
       Or!Told, Or!CoreOK, Call, NoMishap, Mishap, Answers, Answer, Done,
       Refreshed, Settled, Begin, GivesUp, Calling, Finish, EndOperation, Crash,
       Others, Removed, Idle, Told, EditOf, Core

OrCalls ==
  {c \in [do : {"post", "find", "get", "quota", "rename", "delete"},
          arg : Names \cup OrgQuotas \cup {None}] :
     (c.do = "quota" => c.arg \in OrgQuotas) /\ (c.do = "rename" => c.arg \in Names)}

(* The calls that give an organization what the resource data x say.        *)
OrMaking(x) == {c \in OrCalls : /\ c.do # "delete" /\ (c.do = "quota" => c.arg = x.quota)
                                /\ c.do = "rename" => c.arg = x.name}

(* The calls q make of the organization y what the resource data x say.     *)
OrLeads(x, y, q) ==
  /\ q \in Seq(OrMaking(x)) /\ "post" \notin Later(q)
  /\ \/ "post" \in Does(q)
     \/ /\ y.there /\ (y.name = x.name \/ "rename" \in Does(q))
        /\ x.quota \in {None, y.quota} \/ "quota" \in Does(q)

OrTyped == Typed(Configs["organization"], Or!Data, Or!Org, OrCalls)
OrPromise ==
  pc = "call" /\ op \in {"create", "update"} /\ (d.there \/ "find" \in Does(todo))
    => OrLeads(d, cf, todo)

OrInv == OrTyped /\ OrPromise /\ Or!Truthful

(* What a plan asks for, and what Terraform keeps of what is gone, for an   *)
(* organization, are resource data.                                         *)
LEMMA OrPlanned ==
  ASSUME cfg \in Configs["organization"]
  PROVE  /\ Or!Planned(TRUE) \in Or!Data /\ Or!Absent \in Or!Data
         /\ cfg.name \in Names /\ cfg.quota \in OrgQuotas \cup {None}
         /\ Or!Planned(TRUE).name = cfg.name /\ Or!Planned(TRUE).quota = cfg.quota
         /\ Or!Absent.name = cfg.name /\ Or!Absent.quota = cfg.quota
         /\ ~Or!Absent.there
<1>1. cfg \in Or!Config
  BY ResourcesAssumption DEF Or!OrganizationsAssumption, ResourcesAssumption
<1> QED
  BY <1>1 DEF Or!Config, Or!Data, Or!Planned, Or!Absent

(* An operation on an organization whose calls lead to what it was asked    *)
(* begins with the invariant.                                               *)
LEMMA OrBegins ==
  ASSUME OrTyped, NEW what \in {"create", "update"}, NEW x \in Or!Data,
         NEW calls \in Seq(OrCalls), AnyMishap, Begin(what, x, calls),
         x.there \/ "find" \in Does(calls) => OrLeads(x, cf, calls)
  PROVE  OrInv'
<1>1. /\ OrTyped' /\ UNCHANGED <<cf>> /\ pc' = "call" /\ op' = what /\ d' = x
      /\ todo' = calls
  BY BeginTyped DEF OrTyped
<1> QED
  BY <1>1 DEF OrInv, OrPromise, Or!Truthful, Or!Told

(* So does one that fails before its first call. *)
LEMMA OrGivesUp ==
  ASSUME OrTyped, NEW what \in {"create", "update"}, NEW x \in Or!Data,
         AnyMishap, GivesUp(what, x)
  PROVE  OrInv'
<1>1. OrTyped' /\ pc' = "return" /\ result' = "failed"
  BY GivesUpTyped DEF OrTyped
<1> QED
  BY <1>1 DEF OrInv, OrPromise, Or!Truthful, Or!Told

(* Every call of an organization that carries its work out is one of its    *)
(* calls.                                                                   *)
LEMMA OrMakes ==
  ASSUME NEW x
  PROVE  /\ \A what \in {"post", "find", "get"} : <<Call(what, None)>> \in Seq(OrMaking(x))
         /\ x.quota \in OrgQuotas => <<Call("quota", x.quota)>> \in Seq(OrMaking(x))
         /\ x.name \in Names => <<Call("rename", x.name)>> \in Seq(OrMaking(x))
         /\ \A q \in Seq(OrMaking(x)) : q \in Seq(OrCalls)
<1>1. /\ \A what \in {"post", "find", "get"} : Call(what, None) \in OrMaking(x)
      /\ x.quota \in OrgQuotas => Call("quota", x.quota) \in OrMaking(x)
      /\ x.name \in Names => Call("rename", x.name) \in OrMaking(x)
      /\ OrMaking(x) \subseteq OrCalls
  BY DEF OrMaking, OrCalls, Call
<1> HIDE DEF OrMaking, OrCalls
<1> QED
  BY <1>1, SeqOfMore

(* Giving an organization its quota is one call, or none. *)
LEMMA OrBindQuota ==
  ASSUME NEW x, x.quota \in OrgQuotas \cup {None}
  PROVE  /\ Or!BindQuota(x.quota) \in Seq(OrMaking(x))
         /\ Does(Or!BindQuota(x.quota)) = IF x.quota = None THEN {} ELSE {"quota"}
         /\ Later(Or!BindQuota(x.quota)) = {}
<1>1. CASE x.quota = None
  BY <1>1, Few DEF Or!BindQuota
<1>2. CASE x.quota # None
  <2>1. Or!BindQuota(x.quota) = <<Call("quota", x.quota)>>
    BY <1>2, OrCore DEF Or!BindQuota
  <2> QED
    BY <1>2, <2>1, OrMakes, Few, CallFields
<1> QED
  BY <1>1, <1>2

(* The invariant of an organization is kept by Create, *)
LEMMA OrCreateStep == OrInv /\ Or!Create => OrInv'
<1> SUFFICES ASSUME OrInv, Or!Create PROVE OrInv'
  OBVIOUS
<1>1. OrTyped /\ cfg \in Configs["organization"]
  BY DEF OrInv, OrTyped, Typed, Core
<1> DEFINE b == Or!BindQuota(cfg.quota)
           P == Or!Planned(TRUE)
           A == Or!Absent
           g == <<Call("get", None)>>
           p == <<Call("post", None), Call("find", None), Call("get", None)>>
<1>2. /\ P \in Or!Data /\ A \in Or!Data /\ cfg.quota \in OrgQuotas \cup {None}
      /\ P.name = cfg.name /\ P.quota = cfg.quota
      /\ A.name = cfg.name /\ A.quota = cfg.quota
  BY <1>1, OrPlanned
<1>3. /\ \/ /\ cf.there /\ cf.name = cfg.name /\ NoMishap
            /\ Begin("create", P, g \o b)
         \/ /\ NoMishap \/ Mishap("find")
            /\ Begin("create", A, p \o b)
  BY OrCore DEF Or!Create
<1> HIDE DEF P, A
<1>4. CASE /\ cf.there /\ cf.name = cfg.name /\ NoMishap
           /\ Begin("create", P, g \o b)
  <2>1. /\ b \in Seq(OrMaking(P)) /\ g \in Seq(OrMaking(P)) /\ Later(g) = {}
        /\ Does(b) = IF P.quota = None THEN {} ELSE {"quota"}
    BY <1>2, OrBindQuota, OrMakes, Few
  <2> HIDE DEF b, g
  <2> DEFINE q == g \o b
  <2>2. /\ q \in Seq(OrMaking(P)) /\ Does(b) \subseteq Does(q)
        /\ Later(q) \subseteq Later(g) \cup Does(b)
    BY <2>1, Cat
  <2> HIDE DEF q
  <2>3. OrLeads(P, cf, q)
    BY <1>2, <1>4, <2>1, <2>2 DEF OrLeads
  <2>4. q \in Seq(OrCalls) /\ AnyMishap /\ Begin("create", P, q)
    BY <1>4, <2>2, OrMakes DEF q, AnyMishap
  <2> QED
    BY <1>1, <1>2, <2>3, <2>4, OrBegins
<1>5. CASE /\ NoMishap \/ Mishap("find")
           /\ Begin("create", A, p \o b)
  <2>1. /\ b \in Seq(OrMaking(A))
        /\ Does(b) = IF A.quota = None THEN {} ELSE {"quota"}
    BY <1>2, OrBindQuota
  <2>2. /\ p \in Seq(OrMaking(A)) /\ Later(p) = {"find", "get"} /\ "post" \in Does(p)
    <3>1. p = <<Call("post", None)>> \o <<Call("find", None)>> \o <<Call("get", None)>>
      OBVIOUS
    <3>2. p \in Seq(OrMaking(A))
      BY <3>1, OrMakes
    <3> QED
      BY <3>2, Few, CallFields
  <2> HIDE DEF b, p
  <2> DEFINE q == p \o b
  <2>3. /\ q \in Seq(OrMaking(A)) /\ Does(p) \subseteq Does(q)
        /\ Later(q) \subseteq Later(p) \cup Does(b)
    BY <2>1, <2>2, Cat
  <2> HIDE DEF q
  <2>4. OrLeads(A, cf, q)
    BY <2>1, <2>2, <2>3 DEF OrLeads
  <2>5. q \in Seq(OrCalls) /\ AnyMishap /\ Begin("create", A, q)
    BY <1>5, <2>3, OrMakes DEF q, AnyMishap
  <2> QED
    BY <1>1, <1>2, <2>4, <2>5, OrBegins
<1> QED
  BY <1>3, <1>4, <1>5

(* by Update, *)
LEMMA OrUpdateStep == OrInv /\ Or!Update => OrInv'
<1> SUFFICES ASSUME OrInv, Or!Update PROVE OrInv'
  OBVIOUS
<1>1. OrTyped /\ cfg \in Configs["organization"] /\ cf \in Or!Org
  BY DEF OrInv, OrTyped, Typed, Core
<1> DEFINE P == Or!Planned(TRUE)
           A == Or!Absent
           b == IF cf.quota # cfg.quota THEN Or!BindQuota(cfg.quota) ELSE <<>>
           r == IF cf.name # cfg.name THEN <<Call("rename", cfg.name)>> ELSE <<>>
<1>2. /\ P \in Or!Data /\ A \in Or!Data /\ cfg.quota \in OrgQuotas \cup {None}
      /\ cfg.name \in Names /\ P.name = cfg.name /\ P.quota = cfg.quota /\ ~A.there
  BY <1>1, OrPlanned
<1>3. /\ \/ cf.there /\ NoMishap /\ Begin("update", P, b \o r)
         \/ NoMishap /\ Begin("update", A, <<>>)
         \/ Mishap("get") /\ GivesUp("update", P)
  BY OrCore DEF Or!Update
<1> HIDE DEF P, A
<1>4. CASE cf.there /\ NoMishap /\ Begin("update", P, b \o r)
  <2>1. /\ b = Or!BindQuota(P.quota) \/ (b = <<>> /\ cf.quota = cfg.quota)
        /\ r = <<Call("rename", P.name)>> \/ (r = <<>> /\ cf.name = cfg.name)
    BY <1>2
  <2> HIDE DEF b, r
  <2>2. /\ b \in Seq(OrMaking(P)) /\ Later(b) = {} /\ Does(b) \subseteq {"quota"}
        /\ Does(b) = {"quota"} \/ P.quota = None \/ P.quota = cf.quota
    <3>1. CASE b = Or!BindQuota(P.quota)
      BY <1>2, <3>1, OrBindQuota
    <3>2. CASE b = <<>> /\ cf.quota = cfg.quota
      BY <1>2, <3>2, Few
    <3> QED
      BY <2>1, <3>1, <3>2
  <2>3. /\ r \in Seq(OrMaking(P)) /\ Does(r) \subseteq {"rename"}
        /\ Does(r) = {"rename"} \/ P.name = cf.name
    <3>1. CASE r = <<Call("rename", P.name)>>
      BY <1>2, <3>1, OrMakes, Few, CallFields
    <3>2. CASE r = <<>> /\ cf.name = cfg.name
      BY <1>2, <3>2, Few
    <3> QED
      BY <2>1, <3>1, <3>2
  <2> DEFINE q == b \o r
  <2>4. /\ q \in Seq(OrMaking(P)) /\ Does(q) = Does(b) \cup Does(r)
        /\ Later(q) \subseteq Later(b) \cup Does(r)
    BY <2>2, <2>3, Cat
  <2>5. q \in Seq(OrCalls) /\ AnyMishap /\ Begin("update", P, q)
    BY <1>4, <2>4, OrMakes DEF AnyMishap
  <2> HIDE DEF q
  <2>6. OrLeads(P, cf, q)
    BY <1>2, <1>4, <2>2, <2>3, <2>4 DEF OrLeads
  <2> QED
    BY <1>1, <1>2, <2>5, <2>6, OrBegins
<1>5. CASE NoMishap /\ Begin("update", A, <<>>)
  <2>1. <<>> \in Seq(OrCalls) /\ "find" \notin Does(<<>>) /\ AnyMishap
    BY <1>5, Few DEF AnyMishap
  <2> QED
    BY <1>1, <1>2, <1>5, <2>1, OrBegins
<1>6. CASE Mishap("get") /\ GivesUp("update", P)
  BY <1>1, <1>2, <1>6, OrGivesUp DEF AnyMishap
<1> QED
  BY <1>3, <1>4, <1>5, <1>6

(* by a deletion, in a destroy or a replacement, *)
LEMMA OrDeletionStep == OrInv /\ (Or!Replace \/ Or!Destroy) => OrInv'
<1> SUFFICES ASSUME OrInv, Or!Replace \/ Or!Destroy PROVE OrInv'
  OBVIOUS
<1> DEFINE q == Or!DeleteCalls
<1>1. OrTyped /\ tf \in Or!Data
  BY DEF OrInv, OrTyped, Typed
<1>2. q \in Seq(OrCalls)
  <2>1. Call("delete", None) \in OrCalls
    BY DEF OrCalls, Call
  <2> QED
    BY <2>1, OrCore DEF Or!DeleteCalls
<1>3. (AnyMishap /\ Begin("delete", tf, q)) \/ Removed(q)
  BY OrCore DEF Or!Replace, Or!Destroy, AnyMishap
<1> HIDE DEF q
<1>4. OrTyped' /\ pc' = "call" /\ op' = "delete"
  BY <1>1, <1>2, <1>3, BeginTyped DEF OrTyped
<1> QED
  BY <1>4 DEF OrInv, OrPromise, Or!Truthful, Or!Told

(* by each call and each of its answers, *)
LEMMA OrPerformStep == OrInv /\ Or!Perform => OrInv'
<1> SUFFICES ASSUME OrInv, Or!Perform PROVE OrInv'
  OBVIOUS
<1> DEFINE y == Or!Effect(First)
           x == IF First.do = "find" THEN [d EXCEPT !.there = TRUE] ELSE d
           can == IF First.do = "post" THEN ~(cf.there /\ cf.name = d.name) ELSE cf.there
           D == Or!Data
           O == Or!Org
<1>1. Calling(y, x, can, FALSE) /\ todo # <<>>
  BY OrCore DEF Or!Perform, First
<1>2. OrTyped /\ cf \in Or!Org /\ d \in Or!Data /\ todo \in Seq(OrCalls)
  BY DEF OrInv, OrTyped, Typed
<1>3. /\ First \in OrCalls /\ Does(todo) = {First.do} \cup Does(Rest)
      /\ Does(Rest) = Later(todo) /\ Later(Rest) \subseteq Later(todo)
  BY <1>1, <1>2, FirstAndRest
<1>4. can \in BOOLEAN
  BY <1>2 DEF Or!Org
<1>5. /\ x \in Or!Data /\ x.name = d.name /\ x.quota = d.quota
      /\ (x.there <=> d.there \/ First.do = "find")
  BY <1>2 DEF Or!Data
<1>6. y \in Or!Org
  BY <1>2, <1>3, ResourcesAssumption
  DEF Or!Effect, Or!Org, Or!Data, OrCalls, Or!OrganizationsAssumption, ResourcesAssumption
<1>7. Typed(Configs["organization"], D, O, OrCalls) /\ x \in D /\ y \in O
  BY <1>2, <1>5, <1>6 DEF OrTyped
<1> HIDE DEF y, x, can, D, O
<1>8. /\ Typed(Configs["organization"], D, O, OrCalls)' /\ pc = "call"
      /\ (can /\ Answered(y, x)) \/ (pc' = "return" /\ result' = "failed")
  BY <1>1, <1>4, <1>7, StrictCallTyped
<1>9. OrTyped'
  BY <1>8 DEF OrTyped, D, O
<1>10. CASE pc' = "return" /\ result' = "failed"
  BY <1>8, <1>9, <1>10 DEF OrInv, OrPromise, Or!Truthful, Or!Told
<1>11. CASE can /\ Answered(y, x)
  <2>1. ASSUME OrLeads(d, cf, todo) PROVE OrLeads(x, y, Rest)
    <3>1. todo \in Seq(OrMaking(d))
      BY <2>1 DEF OrLeads
    <3>2. First \in OrMaking(d) /\ Rest \in Seq(OrMaking(d))
      <4> HIDE DEF OrMaking
      <4> QED
        BY <1>1, <3>1, FirstAndRest
    <3>3. OrMaking(x) = OrMaking(d)
      BY <1>5 DEF OrMaking
    <3>4. /\ y.there /\ (y.name = x.name \/ "rename" \in Does(Rest))
          /\ x.quota \in {None, y.quota} \/ "quota" \in Does(Rest)
      BY <1>2, <1>3, <1>5, <2>1, <3>2 DEF OrLeads, OrMaking, OrCalls, Or!Effect, y, Or!Org
    <3> QED
      BY <1>3, <2>1, <3>2, <3>3, <3>4 DEF OrLeads
  <2>2. OrPromise'
    BY <1>3, <1>5, <1>8, <1>11, <2>1 DEF OrInv, OrPromise, Answered
  <2> QED
    BY <1>8, <1>9, <1>11, <2>2 DEF OrInv, Or!Truthful, Or!Told, Answered
<1> QED
  BY <1>8, <1>9, <1>10, <1>11

(* Of an organization that is told of, an empty plan hides no more than the *)
(* default quota.                                                           *)
LEMMA OrRefreshStep == OrInv /\ Or!Refresh => OrInv' /\ Or!OnlyDefaultHides'
<1> SUFFICES ASSUME OrInv, Or!Refresh PROVE OrInv' /\ Or!OnlyDefaultHides'
  OBVIOUS
<1>1. OrTyped /\ cfg \in Configs["organization"] /\ tf \in Or!Data /\ cf \in Or!Org
  BY DEF OrInv, OrTyped, Typed, Core
<1>2. Or!Absent \in Or!Data /\ ~Or!Absent.there
  BY <1>1, OrPlanned
<1>3. PICK new \in Or!Data :
        /\ AnyMishap /\ Refreshed(new)
        /\ new.there => /\ new.name = cf.name
                        /\ new.quota = cf.quota \/ cf.quota = Default
  <2> DEFINE told == [tf EXCEPT !.name = cf.name, !.quota = cf.quota]
             read == Or!Read
             A    == Or!Absent
  <2>1. /\ read \in Or!Data /\ told \in Or!Data
        /\ read.name = cf.name /\ (read.quota = cf.quota \/ cf.quota = Default)
        /\ told.name = cf.name /\ told.quota = cf.quota
    BY <1>1 DEF Or!Read, Or!Data, Or!Org
  <2>2. /\ NoMishap \/ Mishap("default")
        /\ Refreshed(read) \/ Refreshed(told) \/ Refreshed(A)
    BY OrCore DEF Or!Refresh
  <2> HIDE DEF read, told, A
  <2> QED
    BY <1>2, <2>1, <2>2 DEF AnyMishap, A
<1>4. OrTyped' /\ pc' = "plan" /\ tf' = new /\ UNCHANGED <<cfg, cf>>
  BY <1>1, <1>3, RefreshTyped DEF OrTyped, Refreshed
<1>5. OrInv'
  BY <1>4 DEF OrInv, OrPromise, Or!Truthful, Or!Told
<1>6. Or!OnlyDefaultHides'
  BY <1>3, <1>4 DEF Or!OnlyDefaultHides, Or!InSync, Or!Planned
<1> QED
  BY <1>5, <1>6

(* and by the steps that leave an operation that is under way alone. *)
LEMMA OrQuietStep ==
  OrInv /\ (\/ Or!NothingToDo \/ Or!Finish \/ Or!EndOperation(Or!Absent)
            \/ Or!EditConfig \/ Or!OthersChange \/ Or!Crash(Or!Absent))
    => OrInv'
<1> SUFFICES ASSUME OrInv,
                    \/ Or!NothingToDo \/ Or!Finish \/ Or!EndOperation(Or!Absent)
                    \/ Or!EditConfig \/ Or!OthersChange \/ Or!Crash(Or!Absent)
             PROVE  OrInv'
  OBVIOUS
<1> DEFINE A == Or!Absent
           D == Or!Data
           O == Or!Org
<1>1. OrTyped /\ cfg \in Configs["organization"] /\ cf \in O
  BY DEF OrInv, OrTyped, Typed, Core
<1>2. A \in D
  BY <1>1, OrPlanned
<1>3. CanTaint(D)
  BY DEF CanTaint, Or!Data
<1>4. Or!OthersChange => \E new \in O : Others(new)
  BY <1>1, OrCore DEF Or!OthersChange, Or!Org
<1>5. \/ \E s \in BOOLEAN : Settled(s)
      \/ Finish \/ EndOperation(A) \/ Crash(A) \/ Panics \/ Again
      \/ EditOf(Configs["organization"]) \/ \E new \in O : Others(new)
  BY <1>4, OrCore DEF Or!NothingToDo, Or!InSync
<1> HIDE DEF A, D, O
<1>6. Typed(Configs["organization"], D, O, OrCalls)
  BY <1>1 DEF OrTyped, D, O
<1>7. /\ Typed(Configs["organization"], D, O, OrCalls)' /\ pc' # "call"
      /\ pc' = "return" => Finish
  BY <1>2, <1>3, <1>5, <1>6, QuietTyped
<1>8. OrTyped'
  BY <1>7 DEF OrTyped, D, O
<1>9. OrPromise'
  BY <1>7 DEF OrPromise
<1>10. Or!Truthful'
  <2> SUFFICES ASSUME Or!Told' PROVE Or!Truthful'
    BY DEF Or!Truthful
  <2>1. /\ pc = "call" /\ todo = <<>> /\ op \in {"create", "update"} /\ d.there
        /\ UNCHANGED <<cf, d, tf, op, mishaps>>
    BY <1>7 DEF Or!Told, Finish
  <2>2. OrLeads(d, cf, todo)
    BY <2>1 DEF OrInv, OrPromise
  <2>3. cf.there /\ cf.name = d.name /\ d.quota \in {None, cf.quota}
    BY <1>1, <2>1, <2>2, Few DEF OrLeads
  <2> QED
    BY <2>1, <2>3 DEF Or!Truthful
<1> QED
  BY <1>8, <1>9, <1>10 DEF OrInv

(* It holds at the start, *)
LEMMA OrInitInv == Or!Init => OrInv
<1> SUFFICES ASSUME Or!Init PROVE OrInv
  OBVIOUS
<1> DEFINE A == Or!Absent
           D == Or!Data
           O == Or!Org
<1>1. /\ cf \in O /\ cfg \in Configs["organization"] /\ tf = A /\ d = A /\ pc = "idle"
      /\ op = "none" /\ todo = <<>> /\ result = "none" /\ edits = 0 /\ mishaps = 0
  BY DEF Or!Init, Or!Idle
<1>2. A \in D
  BY <1>1, OrPlanned
<1> HIDE DEF A, D, O
<1>3. Typed(Configs["organization"], D, O, OrCalls)
  BY <1>1, <1>2, InitTyped
<1>4. OrTyped
  BY <1>3 DEF OrTyped, D, O
<1> QED
  BY <1>1, <1>4 DEF OrInv, OrPromise, Or!Truthful, Or!Told

(* it is kept by every step of an organization, *)
LEMMA OrStep ==
  OrInv /\ (Or!Run \/ Or!Operate \/ Or!Disturb) => OrInv' /\ (Refreshes => Or!OnlyDefaultHides')
<1> SUFFICES ASSUME OrInv, Or!Run \/ Or!Operate \/ Or!Disturb
             PROVE  OrInv' /\ (Refreshes => Or!OnlyDefaultHides')
  OBVIOUS
<1>1. OrInv'
  BY OrRefreshStep, OrCreateStep, OrUpdateStep, OrDeletionStep, OrPerformStep, OrQuietStep
  DEF Or!Run, Or!Operate, Or!Disturb
<1>2. ASSUME Refreshes PROVE Or!Refresh
  BY <1>2, OnlyRefreshes, OrCore
  DEF Refreshes, Or!Run, Or!Operate, Or!Disturb, Or!NothingToDo, Or!Create, Or!Update, Or!Replace,
      Or!Perform, Or!Destroy, Or!OthersChange
<1>3. Refreshes => Or!OnlyDefaultHides'
  BY <1>2, OrRefreshStep
<1> QED
  BY <1>1, <1>3

(* and by a step that changes nothing. *)
LEMMA OrStutter == OrInv /\ UNCHANGED vars => OrInv'
<1> SUFFICES ASSUME OrInv, UNCHANGED vars PROVE OrInv'
  OBVIOUS
<1>1. OrTyped'
  BY StutterTyped DEF OrInv, OrTyped
<1> QED
  BY <1>1 DEF vars, OrInv, OrPromise, Or!Truthful, Or!Told

-----------------------------------------------------------------------------
(* Spaces.                                                                  *)
LEMMA SpCore ==
  /\ \A what, arg : Sp!Call(what, arg) = Call(what, arg)
  /\ (Sp!NoMishap <=> NoMishap) /\ (\A where : Sp!Mishap(where) <=> Mishap(where))
  /\ \A new : (Sp!Refreshed(new) <=> Refreshed(new)) /\ (Sp!Others(new) <=> Others(new))
  /\ \A s : Sp!Settled(s) <=> Settled(s)
  /\ \A what, x, calls : Sp!Begin(what, x, calls) <=> Begin(what, x, calls)
  /\ \A what, x : Sp!GivesUp(what, x) <=> GivesUp(what, x)
  /\ \A calls : Sp!Removed(calls) <=> Removed(calls)
  /\ \A new, x, possible, dropped :
       Sp!Calling(new, x, possible, dropped) <=> Calling(new, x, possible, dropped)
  /\ \A x : (Sp!EndOperation(x) <=> EndOperation(x)) /\ (Sp!Crash(x) <=> Crash(x))
  /\ (Sp!Finish <=> Finish) /\ (Sp!EditConfig <=> EditOf(Configs["space"]))
  /\ Sp!Told <=> Told
  /\ Sp!CoreOK <=> Core(Configs["space"])
BY DEF Sp!Call, Sp!NoMishap, Sp!Mishap, Sp!Answers, Sp!Answer, Sp!Done,
       Sp!Refreshed, Sp!Settled, Sp!Begin, Sp!GivesUp, Sp!Calling, Sp!Finish,
       Sp!EndOperation, Sp!Crash, Sp!EditConfig, Sp!Others, Sp!Removed, Sp!Idle,
       Sp!Told, Sp!CoreOK, Call, NoMishap, Mishap, Answers, Answer, Done,
       Refreshed, Settled, Begin, GivesUp, Calling, Finish, EndOperation, Crash,
       Others, Removed, Idle, Told, EditOf, Core

(* What the modules for sequences and sets define is the same here. *)
LEMMA SpLists ==
  /\ \A S : Sp!IsFiniteSet(S) <=> IsFiniteSet(S)
  /\ \A S : Sp!Orders(S) = Orders(S)
  /\ \A what, S : Sp!Each(what, S) = Each(what, S)
  /\ \A A, B : Sp!InTurn(A, B) = InTurn(A, B)
<1>1. \A S : Sp!Cardinality(S) = Cardinality(S)
  BY DEF Sp!Cardinality, Cardinality
<1>2. \A S : Sp!IsFiniteSet(S) <=> IsFiniteSet(S)
  BY DEF Sp!IsFiniteSet, IsFiniteSet
<1>3. \A S : Sp!Orders(S) = Orders(S)
  BY <1>1 DEF Sp!Orders, Orders
<1>4. \A what, S : Sp!Each(what, S) = Each(what, S)
  BY <1>3 DEF Sp!Each, Each, Sp!Call, Call
<1>5. \A A, B : Sp!InTurn(A, B) = InTurn(A, B)
  BY DEF Sp!InTurn, InTurn
<1> QED
  BY <1>2, <1>3, <1>4, <1>5

SpCalls ==
  {c \in [do : {"post", "setId", "ssh", "trySsh", "bind", "unbind", "assign", "unassign",
                "delete"}, arg : Groups \cup SpaceQuotas \cup {None} \cup BOOLEAN] :
     /\ c.do \in {"bind", "unbind"} => c.arg \in Groups
     /\ c.do = "assign" => c.arg \in SpaceQuotas
     /\ c.do \in {"ssh", "trySsh"} => c.arg \in BOOLEAN}

(* What is done for the resource data x binds no group that they do not     *)
(* name and unbinds none that they name; when the groups change, only those *)
(* are unbound that were named before, b.                                   *)
SpMaking(x, b) ==
  {c \in SpCalls : /\ c.do # "delete"
                   /\ c.do = "unbind" => c.arg \notin x.groups /\ (x.groups # b => c.arg \in b)
                   /\ c.do = "assign" => c.arg = x.quota
                   /\ c.do \in {"ssh", "trySsh"} => c.arg = x.ssh}

(* An update of a space that is gone fails, when it has to bind or to       *)
(* assign anything.                                                         *)
SpLost(x, y, q, what) ==
  /\ what = "update" /\ ~y.there /\ "post" \notin Does(q)
  /\ (x.groups = {} /\ x.quota = None) \/ ~(Does(q) \subseteq {"trySsh"})

(* Else the calls q make of the space y what the resource data x say, but   *)
(* for the ssh access that m errors may have lost.                          *)
SpDelivers(x, y, q, what, m) ==
  /\ "post" \in Does(q) \/ (y.there /\ (what = "create" => y.place = x.place))
  /\ \A g \in x.groups : \/ Call("bind", g) \in ToSet(q)
                         \/ "post" \notin Does(q) /\ g \in y.bound \cup Everywhere
  /\ \/ "ssh" \in Does(q) \/ "trySsh" \in Does(q)
     \/ "post" \notin Does(q) /\ y.ssh = x.ssh
     \/ what = "update" /\ m > 0
  /\ \/ "assign" \in Does(q)
     \/ "unassign" \in Does(q) /\ x.quota = None
     \/ "unassign" \notin Does(q) /\ ("post" \in Does(q) \/ y.quota = x.quota)

SpLeads(x, y, q, what, m, b) ==
  /\ q \in Seq(SpMaking(x, b)) /\ "post" \notin Later(q) /\ "unassign" \notin Behind(q, "assign")
  /\ "post" \in Does(q) => what = "create"
  /\ "trySsh" \in Does(q) => what = "update"
  /\ SpLost(x, y, q, what) \/ SpDelivers(x, y, q, what, m)

SpTyped   == Typed(Configs["space"], Sp!Data, Sp!Space, SpCalls)
SpPromise ==
  pc = "call" /\ op \in {"create", "update"} => SpLeads(d, cf, todo, op, mishaps, tf.groups)
SpInv     == SpTyped /\ SpPromise /\ Sp!Truthful

(* As long as nobody edits anything, the state, the operation and the space *)
(* are about the place that is asked for.                                   *)
SpSteady ==
  edits = 0 => /\ tf.place = cfg.place /\ d.place = cfg.place
               /\ tf.there \/ d.there => cf.place = cfg.place
               /\ pc = "call" => op = "create" \/ tf.there

(* What a plan asks for, and what Terraform keeps of what is gone, for a    *)
(* space, are resource data.                                                *)
LEMMA SpPlanned ==
  ASSUME cfg \in Configs["space"]
  PROVE  /\ Sp!Planned(TRUE) \in Sp!Data /\ Sp!Absent \in Sp!Data
         /\ cfg \in Sp!Config
         /\ Sp!Planned(TRUE).groups = cfg.groups /\ Sp!Planned(TRUE).ssh = cfg.ssh
         /\ Sp!Planned(TRUE).quota = cfg.quota /\ Sp!Planned(TRUE).place = cfg.place
         /\ Sp!Absent.groups = cfg.groups /\ Sp!Absent.ssh = cfg.ssh
         /\ Sp!Absent.quota = cfg.quota /\ Sp!Absent.place = cfg.place /\ ~Sp!Absent.there
<1>1. cfg \in Sp!Config
  BY ResourcesAssumption DEF Sp!SpacesAssumption, ResourcesAssumption
<1> QED
  BY <1>1 DEF Sp!Config, Sp!Data, Sp!Planned, Sp!Absent

(* Every call of a space that carries its work out is one of its calls. *)
LEMMA SpMakes ==
  ASSUME NEW x, NEW b
  PROVE  \A q \in Seq(SpMaking(x, b)) : q \in Seq(SpCalls)
<1>1. SpMaking(x, b) \subseteq SpCalls
  BY DEF SpMaking
<1> HIDE DEF SpMaking, SpCalls
<1> QED
  BY <1>1, SeqOfMore

(* A set of groups is finite, and so is a loop over it. *)
LEMMA SpFinite == \A S \in SUBSET Groups : IsFiniteSet(S)
<1>1. IsFiniteSet(Groups)
  BY SpLists, ResourcesAssumption DEF Sp!SpacesAssumption, ResourcesAssumption
<1> QED
  BY <1>1, FS_Subset

(* The loop over the groups of a configuration binds each of them. *)
LEMMA SpBinds ==
  ASSUME NEW G \in SUBSET Groups, NEW x, NEW b, NEW q \in Sp!Each("bind", G)
  PROVE  /\ q \in Seq(SpMaking(x, b)) /\ Does(q) \subseteq {"bind"}
         /\ \A g \in G : Call("bind", g) \in ToSet(q)
<1> DEFINE T == SpMaking(x, b)
           what == "bind"
<1>1. IsFiniteSet(G) /\ q \in Each(what, G)
  BY SpFinite, SpLists
<1>2. \A g \in G : Call(what, g) \in T
  BY DEF SpMaking, SpCalls, Call
<1> HIDE DEF T, what
<1>3. /\ q \in Seq(T) /\ ToSet(q) = {Call(what, g) : g \in G}
      /\ Does(q) \subseteq {what}
  BY ONLY <1>1, <1>2, EachOf
<1> QED
  BY <1>3 DEF what, T

(* First what is missing, then what is too much (spaces.go:82, 171).        *)
LEMMA SpSecGroups ==
  ASSUME NEW from \in SUBSET Groups, NEW to \in SUBSET Groups, NEW x, x.groups = to,
         NEW b, x.groups # b => from \subseteq b, NEW q \in Sp!SecGroupCalls(from, to)
  PROVE  /\ q \in Seq(SpMaking(x, b)) /\ Does(q) \subseteq {"bind", "unbind"}
         /\ \A g \in to \ from : Call("bind", g) \in ToSet(q)
<1> DEFINE T == SpMaking(x, b)
           more == to \ from
           less == from \ to
           u == "unbind"
<1>1. q \in InTurn(Sp!Each("bind", more), Each(u, less))
  BY SpLists DEF Sp!SecGroupCalls
<1>2. more \in SUBSET Groups /\ IsFiniteSet(less)
  BY SpFinite
<1>3. \A g \in less : Call(u, g) \in T
  BY DEF SpMaking, SpCalls, Call
<1> HIDE DEF T, more, less, u
<1>4. PICK a \in Sp!Each("bind", more), e \in Each(u, less) : q = a \o e
  BY <1>1 DEF InTurn
<1>5. /\ a \in Seq(T) /\ Does(a) \subseteq {"bind"}
      /\ \A g \in more : Call("bind", g) \in ToSet(a)
  BY <1>2, <1>4, SpBinds DEF T
<1>6. e \in Seq(T) /\ Does(e) \subseteq {u}
  BY <1>2, <1>3, EachOf
<1> DEFINE c == a \o e
<1>7. c \in Seq(T) /\ Does(c) = Does(a) \cup Does(e) /\ ToSet(c) = ToSet(a) \cup ToSet(e)
  BY <1>5, <1>6, Cat
<1>8. c = q
  BY <1>4
<1> HIDE DEF c
<1> QED
  BY <1>5, <1>6, <1>7, <1>8 DEF T, more, u

(* One quota after the other, with none in between (spaces.go:185).         *)
LEMMA SpQuota ==
  ASSUME NEW from \in SpaceQuotas \cup {None}, NEW to \in SpaceQuotas \cup {None},
         NEW x, x.quota = to, NEW b
  PROVE  /\ Sp!QuotaCalls(from, to) \in Seq(SpMaking(x, b))
         /\ Does(Sp!QuotaCalls(from, to)) \subseteq {"unassign", "assign"}
         /\ "unassign" \notin Behind(Sp!QuotaCalls(from, to), "assign")
         /\ \/ "assign" \in Does(Sp!QuotaCalls(from, to))
            \/ "unassign" \in Does(Sp!QuotaCalls(from, to)) /\ to = None
            \/ "unassign" \notin Does(Sp!QuotaCalls(from, to)) /\ from = to
<1> DEFINE T == SpMaking(x, b)
           m == Call("unassign", None)
           n == Call("assign", to)
           u == IF from \notin {to, None} THEN <<m>> ELSE <<>>
           a == IF to \notin {from, None} THEN <<n>> ELSE <<>>
           w == "assign"
<1>1. Sp!QuotaCalls(from, to) = u \o a
  BY SpCore DEF Sp!QuotaCalls
<1>2. /\ m \in T /\ m.do = "unassign" /\ n.do = "assign"
      /\ to # None => n \in T
  BY DEF SpMaking, SpCalls, Call
<1> HIDE DEF T, m, n
<1>3. /\ (u = <<m>> /\ m \in T) \/ u = <<>>
      /\ (a = <<n>> /\ n \in T) \/ a = <<>>
      /\ (u # <<>>) <=> (from \notin {to, None})
      /\ (a # <<>>) <=> (to \notin {from, None})
  BY <1>2
<1> HIDE DEF u, a
<1>4. /\ u \in Seq(T) /\ Does(u) \subseteq {"unassign"}
      /\ u # <<>> => Does(u) = {"unassign"}
      /\ u = <<>> => Does(u) = {}
  BY <1>2, <1>3, Perhaps, Few
<1>5. /\ a \in Seq(T) /\ Does(a) \subseteq {"assign"}
      /\ a # <<>> => Does(a) = {"assign"}
  BY <1>2, <1>3, Perhaps
<1> DEFINE q == u \o a
<1>6. q \in Seq(T) /\ Does(q) = Does(u) \cup Does(a)
  BY <1>4, <1>5, Cat
<1>7. w \notin Does(u)
  BY <1>4
<1> HIDE DEF w
<1>8. Behind(q, w) \subseteq Behind(a, w) /\ Behind(a, w) \subseteq Does(a)
  BY <1>4, <1>5, <1>7, BehindCat, BehindDoes
<1> HIDE DEF q
<1>9. "unassign" \notin Behind(q, w)
  BY <1>5, <1>8
<1>10. Sp!QuotaCalls(from, to) = q
  BY <1>1 DEF q
<1> QED
  BY <1>3, <1>4, <1>5, <1>6, <1>9, <1>10 DEF T, w

(* Before a run the groups that are listed apply to the space.              *)
LEMMA SpListing ==
  ASSUME cf \in Sp!Space
  PROVE  /\ \A N \in SUBSET Groups : Sp!Seen(N) \subseteq Sp!Applied \cap N
         /\ Sp!Listed \in SUBSET Groups
         /\ cf.there => Sp!Listed = Sp!Applied
         /\ ~cf.there => Sp!Listed = {}
BY ResourcesAssumption
DEF Sp!Seen, Sp!Applied, Sp!Listed, Sp!Space, Sp!SpacesAssumption, ResourcesAssumption

(* An operation on a space whose calls lead to what it was asked begins     *)
(* with the invariant.                                                      *)
LEMMA SpBegins ==
  ASSUME SpTyped, NEW what \in {"create", "update"}, NEW x \in Sp!Data,
         NEW calls \in Seq(SpCalls), AnyMishap, Begin(what, x, calls),
         TRUE => SpLeads(x, cf, calls, what, 0, tf.groups)
  PROVE  SpInv'
<1>1. /\ SpTyped' /\ UNCHANGED <<cf, tf>> /\ pc' = "call" /\ op' = what /\ d' = x
      /\ todo' = calls
  BY BeginTyped DEF SpTyped
<1> QED
  BY <1>1 DEF SpInv, SpPromise, SpLeads, SpDelivers, Sp!Truthful, Sp!Told

(* So does one that fails before its first call. *)
LEMMA SpGivesUp ==
  ASSUME SpTyped, NEW what \in {"create", "update"}, NEW x \in Sp!Data,
         AnyMishap, GivesUp(what, x)
  PROVE  SpInv'
<1>1. SpTyped' /\ pc' = "return" /\ result' = "failed"
  BY GivesUpTyped DEF SpTyped
<1> QED
  BY <1>1 DEF SpInv, SpPromise, Sp!Truthful, Sp!Told

(* The invariant of a space is kept by Create, *)
LEMMA SpCreateStep == SpInv /\ Sp!Create => SpInv'
<1> SUFFICES ASSUME SpInv, Sp!Create PROVE SpInv'
  OBVIOUS
<1>1. SpTyped /\ cfg \in Configs["space"] /\ cf \in Sp!Space
  BY DEF SpInv, SpTyped, Typed, Core
<1> DEFINE P == [Sp!Absent EXCEPT !.there = TRUE, !.quota = cf.quota]
           A == Sp!Absent
           f == Call("post", None)
           i == Call("setId", None)
           l == Call("ssh", cfg.ssh)
           p == <<f>>
           s == <<l>>
           e == <<i, l>>
           b == tf.groups
<1>2. \/ /\ Sp!Found /\ AnyMishap
         /\ \E seen \in SUBSET Sp!Seen(cfg.groups) : \E r \in Sp!Each("bind", cfg.groups \ seen) :
              Begin("create", P, r \o s)
      \/ AnyMishap /\ GivesUp("create", P)
      \/ AnyMishap /\ \E r \in Sp!Each("bind", cfg.groups) : Begin("create", A, p \o r \o e)
  BY SpCore DEF Sp!Create, Sp!Filter, AnyMishap
<1>3. /\ cfg \in Sp!Config /\ P \in Sp!Data /\ A \in Sp!Data
      /\ P.groups = cfg.groups /\ P.ssh = cfg.ssh /\ P.quota = cf.quota /\ P.place = cfg.place
      /\ A.groups = cfg.groups /\ A.ssh = cfg.ssh /\ A.quota = cfg.quota
      /\ cfg.groups \in SUBSET Groups
  BY <1>1, SpPlanned DEF Sp!Data, Sp!Space, Sp!Config
<1> HIDE DEF P, A
<1>4. /\ f.do = "post" /\ i.do = "setId" /\ l.do = "ssh"
      /\ l \in SpMaking(P, b) /\ f \in SpMaking(A, b) /\ i \in SpMaking(A, b) /\ l \in SpMaking(A, b)
  BY <1>3 DEF SpMaking, SpCalls, Call, Sp!Config
<1> HIDE DEF f, i, l
<1>5. /\ s \in Seq(SpMaking(P, b)) /\ Does(s) = {"ssh"}
      /\ p \in Seq(SpMaking(A, b)) /\ Does(p) = {"post"} /\ Later(p) = {}
      /\ e \in Seq(SpMaking(A, b)) /\ Does(e) = {"setId", "ssh"}
  BY <1>4, Few
<1> HIDE DEF s, p, e
<1>6. CASE AnyMishap /\ GivesUp("create", P)
  BY <1>1, <1>3, <1>6, SpGivesUp
<1>7. ASSUME Sp!Found, AnyMishap, NEW seen \in SUBSET Sp!Seen(cfg.groups),
             NEW r \in Sp!Each("bind", cfg.groups \ seen), Begin("create", P, r \o s)
      PROVE  SpInv'
  <2> DEFINE q == r \o s
             G == cfg.groups \ seen
  <2>1. G \in SUBSET Groups
    BY <1>3
  <2>2. r \in Sp!Each("bind", G)
    OBVIOUS
  <2> HIDE DEF G
  <2>3. /\ r \in Seq(SpMaking(P, b)) /\ Does(r) \subseteq {"bind"}
        /\ \A g \in G : Call("bind", g) \in ToSet(r)
    BY <2>1, <2>2, SpBinds
  <2>4. /\ q \in Seq(SpMaking(P, b)) /\ Does(q) = Does(r) \cup Does(s)
        /\ ToSet(q) = ToSet(r) \cup ToSet(s)
    BY <1>5, <2>3, Cat
  <2>5. Begin("create", P, q)
    BY <1>7
  <2> HIDE DEF q
  <2>6. q \in Seq(SpCalls)
    BY <2>4, SpMakes
  <2>7. "post" \notin Does(q) /\ "post" \notin Later(q) /\ "ssh" \in Does(q)
    BY <1>5, <2>3, <2>4, LaterToo
  <2>8. "unassign" \notin Behind(q, "assign") /\ "unassign" \notin Does(q) /\ "trySsh" \notin Does(q)
    <3>1. "unassign" \notin Does(q) /\ "trySsh" \notin Does(q)
      BY <1>5, <2>3, <2>4
    <3> QED
      BY <3>1, BehindDoes
  <2>9. \A g \in P.groups : Call("bind", g) \in ToSet(q) \/ g \in cf.bound \cup Everywhere
    <3>1. seen \subseteq Sp!Applied
      BY <1>1, <1>3, <1>7, SpListing
    <3> QED
      BY <1>3, <2>3, <2>4, <3>1 DEF G, Sp!Applied
  <2>10. SpDelivers(P, cf, q, "create", 0)
    BY <1>3, <1>7, <2>7, <2>8, <2>9 DEF SpDelivers, Sp!Found
  <2>11. SpLeads(P, cf, q, "create", 0, b)
    BY <2>4, <2>7, <2>8, <2>10 DEF SpLeads
  <2> QED
    BY <1>1, <1>3, <1>7, <2>5, <2>6, <2>11, SpBegins
<1>8. ASSUME AnyMishap, NEW r \in Sp!Each("bind", cfg.groups), Begin("create", A, p \o r \o e)
      PROVE  SpInv'
  <2> DEFINE h == p \o r
             q == h \o e
             G == cfg.groups
  <2>1. G \in SUBSET Groups /\ r \in Sp!Each("bind", G)
    BY <1>3
  <2> HIDE DEF G
  <2>2. /\ r \in Seq(SpMaking(A, b)) /\ Does(r) \subseteq {"bind"}
        /\ \A g \in G : Call("bind", g) \in ToSet(r)
    BY <2>1, SpBinds
  <2>3. /\ h \in Seq(SpMaking(A, b)) /\ Does(h) = Does(p) \cup Does(r)
        /\ Later(h) \subseteq Later(p) \cup Does(r) /\ ToSet(h) = ToSet(p) \cup ToSet(r)
    BY <1>5, <2>2, Cat
  <2>4. Begin("create", A, q)
    BY <1>8
  <2> HIDE DEF h
  <2>5. /\ q \in Seq(SpMaking(A, b)) /\ Does(q) = Does(h) \cup Does(e)
        /\ Later(q) \subseteq Later(h) \cup Does(e) /\ ToSet(q) = ToSet(h) \cup ToSet(e)
    BY <1>5, <2>3, Cat
  <2> HIDE DEF q
  <2>6. q \in Seq(SpCalls)
    BY <2>5, SpMakes
  <2>7. /\ "post" \notin Later(q) /\ "post" \in Does(q) /\ "ssh" \in Does(q)
        /\ "trySsh" \notin Does(q) /\ "unassign" \notin Does(q)
    BY <1>5, <2>2, <2>3, <2>5
  <2>8. "unassign" \notin Behind(q, "assign")
    BY <2>7, BehindDoes
  <2>9. \A g \in A.groups : Call("bind", g) \in ToSet(q)
    BY <1>3, <2>2, <2>3, <2>5 DEF G
  <2>10. SpDelivers(A, cf, q, "create", 0)
    BY <2>7, <2>9 DEF SpDelivers
  <2>11. SpLeads(A, cf, q, "create", 0, b)
    BY <2>5, <2>7, <2>8, <2>10 DEF SpLeads
  <2> QED
    BY <1>1, <1>3, <1>8, <2>4, <2>6, <2>11, SpBegins
<1> QED
  BY <1>2, <1>6, <1>7, <1>8

(* by Update, *)
LEMMA SpUpdateStep == SpInv /\ Sp!Update => SpInv'
<1> SUFFICES ASSUME SpInv, Sp!Update PROVE SpInv'
  OBVIOUS
<1>1. SpTyped /\ cfg \in Configs["space"] /\ cf \in Sp!Space
  BY DEF SpInv, SpTyped, Typed, Core
<1> DEFINE P == Sp!Planned(TRUE)
           F == Sp!From
           v == Call("trySsh", cfg.ssh)
           t == IF (cf.there /\ cf.ssh) # cfg.ssh THEN <<v>> ELSE <<>>
           n == IF cf.there THEN cf.quota ELSE None
           k == Sp!QuotaCalls(n, cfg.quota)
           b == tf.groups
<1>2. \/ AnyMishap /\ \E r \in Sp!SecGroupCalls(F, cfg.groups) : Begin("update", P, t \o r \o k)
      \/ AnyMishap /\ GivesUp("update", P)
  BY SpCore DEF Sp!Update, AnyMishap
<1>3. /\ cfg \in Sp!Config /\ P \in Sp!Data
      /\ P.groups = cfg.groups /\ P.ssh = cfg.ssh /\ P.quota = cfg.quota
      /\ cfg.groups \in SUBSET Groups
  BY <1>1, SpPlanned DEF Sp!Config
<1>4. /\ F \in SUBSET Groups /\ (P.groups # b => F \subseteq b)
      /\ cf.there => F \subseteq Sp!Applied
      /\ ~cf.there => F = {}
  <2>1. Sp!Listed \in SUBSET Groups /\ (cf.there => Sp!Listed = Sp!Applied) /\ (~cf.there => Sp!Listed = {})
    BY <1>1, SpListing
  <2> QED
    BY <1>3, <2>1 DEF Sp!From
<1> HIDE DEF P, F
<1>5. v.do = "trySsh" /\ v \in SpMaking(P, b) /\ cf.ssh \in BOOLEAN /\ cfg.ssh \in BOOLEAN
  BY <1>1, <1>3 DEF SpMaking, SpCalls, Call, Sp!Config, Sp!Space
<1> HIDE DEF v
<1>6. /\ (t = <<v>> /\ v \in SpMaking(P, b)) \/ t = <<>>
      /\ t = <<>> /\ cf.there => cf.ssh = P.ssh
  BY <1>3, <1>5
<1> HIDE DEF t
<1>7. /\ t \in Seq(SpMaking(P, b)) /\ Does(t) \subseteq {"trySsh"}
      /\ cf.there => "trySsh" \in Does(t) \/ cf.ssh = P.ssh
  BY <1>5, <1>6, Perhaps
<1>8. /\ k \in Seq(SpMaking(P, b)) /\ Does(k) \subseteq {"unassign", "assign"}
      /\ "unassign" \notin Behind(k, "assign")
      /\ \/ "assign" \in Does(k)
         \/ "unassign" \in Does(k) /\ P.quota = None
         \/ "unassign" \notin Does(k) /\ n = P.quota
  <2>1. n \in SpaceQuotas \cup {None} /\ cfg.quota \in SpaceQuotas \cup {None}
    BY <1>1, <1>3 DEF Sp!Space, Sp!Config
  <2> HIDE DEF n
  <2> QED
    BY <1>3, <2>1, SpQuota
<1> HIDE DEF k
<1>9. ASSUME AnyMishap, NEW r \in Sp!SecGroupCalls(F, cfg.groups), Begin("update", P, t \o r \o k)
      PROVE  SpInv'
  <2>1. /\ r \in Seq(SpMaking(P, b)) /\ Does(r) \subseteq {"bind", "unbind"}
        /\ \A g \in cfg.groups \ F : Call("bind", g) \in ToSet(r)
    BY <1>3, <1>4, SpSecGroups
  <2> DEFINE h == t \o r
             q == h \o k
             w == "assign"
             T == SpMaking(P, b)
  <2>2. /\ h \in Seq(T) /\ Does(h) = Does(t) \cup Does(r) /\ ToSet(h) = ToSet(t) \cup ToSet(r)
    BY <1>7, <2>1, Cat
  <2>3. Begin("update", P, q)
    BY <1>9
  <2>4. w \notin Does(h) /\ k \in Seq(T)
    BY <1>7, <1>8, <2>1, <2>2
  <2> HIDE DEF h, w, T
  <2>5. /\ q \in Seq(T) /\ Does(q) = Does(h) \cup Does(k) /\ ToSet(q) = ToSet(h) \cup ToSet(k)
    BY <2>2, <2>4, Cat
  <2>6. Behind(q, w) \subseteq Behind(k, w)
    BY <2>2, <2>4, BehindCat
  <2> HIDE DEF q
  <2>7. q \in Seq(SpCalls)
    BY <2>5, SpMakes DEF T
  <2>8. "post" \notin Does(q) /\ "post" \notin Later(q)
    BY <1>7, <1>8, <2>1, <2>2, <2>5, LaterToo
  <2>9. \A g \in P.groups \ F : Call("bind", g) \in ToSet(q) /\ "bind" \in Does(q)
    <3>1. \A g \in P.groups \ F : Call("bind", g) \in ToSet(q)
      BY <1>3, <2>1, <2>2, <2>5
    <3> QED
      BY <3>1, Called, CallFields
  <2>10. \/ "assign" \in Does(q)
         \/ "unassign" \in Does(q) /\ P.quota = None
         \/ "unassign" \notin Does(q) /\ n = P.quota
    BY <1>7, <1>8, <2>1, <2>2, <2>5
  <2>11. ASSUME cf.there PROVE SpDelivers(P, cf, q, "update", 0)
    <3>1. cf.ssh = P.ssh \/ "trySsh" \in Does(q)
      BY <1>7, <2>2, <2>5, <2>11
    <3>2. \A g \in P.groups : Call("bind", g) \in ToSet(q) \/ g \in cf.bound \cup Everywhere
      BY <1>4, <2>9, <2>11 DEF Sp!Applied
    <3> QED
      BY <2>8, <2>10, <2>11, <3>1, <3>2 DEF SpDelivers
  <2>12. ASSUME ~cf.there PROVE SpLost(P, cf, q, "update")
    <3>1. P.groups = {} \/ "bind" \in Does(q)
      BY <1>4, <2>9, <2>12
    <3> QED
      BY <2>8, <2>10, <2>12, <3>1 DEF SpLost
  <2>13. SpLeads(P, cf, q, "update", 0, b)
    BY <1>8, <2>5, <2>6, <2>8, <2>11, <2>12 DEF SpLeads, T, w
  <2> QED
    BY <1>1, <1>3, <1>9, <2>3, <2>7, <2>13, SpBegins
<1>10. CASE AnyMishap /\ GivesUp("update", P)
  BY <1>1, <1>3, <1>10, SpGivesUp
<1> QED
  BY <1>2, <1>9, <1>10

(* by a deletion, in a destroy or a replacement, *)
LEMMA SpDeletionStep == SpInv /\ (Sp!Replace \/ Sp!Destroy) => SpInv'
<1> SUFFICES ASSUME SpInv, Sp!Replace \/ Sp!Destroy PROVE SpInv'
  OBVIOUS
<1> DEFINE q == Sp!DeleteCalls
<1>1. SpTyped /\ tf \in Sp!Data
  BY DEF SpInv, SpTyped, Typed
<1>2. q \in Seq(SpCalls)
  <2> DEFINE c == Call("delete", None)
  <2>1. c \in SpCalls /\ q = <<c>>
    BY DEF SpCalls, Call, Sp!DeleteCalls, Sp!Call
  <2> HIDE DEF c, q
  <2> QED
    BY <2>1
<1>3. (AnyMishap /\ Begin("delete", tf, q)) \/ Removed(q)
  BY SpCore DEF Sp!Replace, Sp!Destroy, AnyMishap
<1> HIDE DEF q
<1>4. SpTyped' /\ pc' = "call" /\ op' = "delete"
  BY <1>1, <1>2, <1>3, BeginTyped DEF SpTyped
<1> QED
  BY <1>4 DEF SpInv, SpPromise, Sp!Truthful, Sp!Told

(* by each call and each of its answers, *)
LEMMA SpPerformStep == SpInv /\ Sp!Perform => SpInv' /\ Sp!KeepsGroups
<1> SUFFICES ASSUME SpInv, Sp!Perform PROVE SpInv' /\ Sp!KeepsGroups
  OBVIOUS
<1> DEFINE y == Sp!Effect(First)
           x == IF First.do = "setId" THEN [d EXCEPT !.there = TRUE] ELSE d
           can == Sp!Possible(First)
           dropped == First.do = "trySsh"
           D == Sp!Data
           O == Sp!Space
<1>1. Calling(y, x, can, dropped) /\ todo # <<>>
  BY SpCore DEF Sp!Perform, First
<1>2. SpTyped /\ cf \in Sp!Space /\ d \in Sp!Data /\ todo \in Seq(SpCalls)
  BY DEF SpInv, SpTyped, Typed
<1>3. /\ First \in SpCalls /\ Does(todo) = {First.do} \cup Does(Rest)
      /\ Does(Rest) = Later(todo) /\ Later(Rest) \subseteq Later(todo)
  BY <1>1, <1>2, FirstAndRest
<1>4. /\ can \in BOOLEAN /\ dropped \in BOOLEAN /\ (dropped <=> First.do = "trySsh")
      /\ First.do # "post" => (can <=> cf.there)
  BY <1>2 DEF Sp!Space, Sp!Possible
<1>5. /\ x \in Sp!Data /\ x.groups = d.groups /\ x.ssh = d.ssh /\ x.quota = d.quota
      /\ x.place = d.place
  BY <1>2 DEF Sp!Data
<1>6. y \in Sp!Space
  <2>1. /\ First.do \in {"bind", "unbind"} => First.arg \in Groups
        /\ First.do = "assign" => First.arg \in SpaceQuotas
        /\ First.do \in {"ssh", "trySsh"} => First.arg \in BOOLEAN
    BY <1>3 DEF SpCalls
  <2>2. First.do = "post" => y \in Sp!Space
    BY <1>2 DEF Sp!Effect, Sp!Space, Sp!Data
  <2>3. First.do \in {"bind", "unbind"} => y \in Sp!Space
    BY <1>2, <2>1 DEF Sp!Effect, Sp!Space
  <2>4. First.do \notin {"post", "bind", "unbind"} => y \in Sp!Space
    BY <1>2, <2>1 DEF Sp!Effect, Sp!Space
  <2> QED
    BY <2>2, <2>3, <2>4
<1>7. Typed(Configs["space"], D, O, SpCalls) /\ x \in D /\ y \in O
  BY <1>2, <1>5, <1>6 DEF SpTyped
<1> HIDE DEF y, x, can, dropped, D, O
<1>8. /\ Typed(Configs["space"], D, O, SpCalls)' /\ pc = "call"
      /\ \/ can /\ Answered(y, x)
         \/ dropped /\ Ignored(y, can)
         \/ pc' = "return" /\ result' = "failed"
      /\ cf' = cf \/ (can /\ cf' = y)
  BY <1>1, <1>4, <1>7, DroppedCallTyped
<1>9. SpTyped'
  BY <1>8 DEF SpTyped, D, O
<1>10. ASSUME pc' = "return", result' = "failed" PROVE SpInv'
  BY <1>8, <1>9, <1>10 DEF SpInv, SpPromise, Sp!Truthful, Sp!Told
<1>11. ASSUME can, Answered(y, x) PROVE SpInv'
  <2>1. ASSUME SpLeads(d, cf, todo, op, mishaps, tf.groups)
        PROVE  SpLeads(x, y, Rest, op, mishaps, tf.groups)
    <3>1. todo \in Seq(SpMaking(d, tf.groups))
      BY <2>1 DEF SpLeads
    <3>2. First \in SpMaking(d, tf.groups) /\ Rest \in Seq(SpMaking(d, tf.groups))
      <4> HIDE DEF SpMaking
      <4> QED
        BY <1>1, <3>1, FirstAndRest
    <3>3. SpMaking(x, tf.groups) = SpMaking(d, tf.groups)
      BY <1>5 DEF SpMaking
    <3>4. /\ "post" \notin Does(Rest) /\ "post" \notin Later(Rest)
          /\ "unassign" \notin Behind(Rest, "assign")
          /\ First.do = "assign" => "unassign" \notin Does(Rest)
      <4> DEFINE w == "assign"
                 T == SpMaking(d, tf.groups)
      <4>1. todo \in Seq(T) /\ todo # <<>>
        BY <1>1, <3>1
      <4> HIDE DEF w, T
      <4>2. /\ Behind(Tail(todo), w) \subseteq Behind(todo, w)
            /\ Head(todo).do = w => Does(Tail(todo)) \subseteq Behind(todo, w)
        BY <4>1, BehindTail
      <4>3. "post" \notin Does(Rest) /\ "post" \notin Later(Rest)
        BY <1>3, <2>1 DEF SpLeads
      <4> QED
        BY <2>1, <4>2, <4>3 DEF SpLeads, First, Rest, w
    <3>5. \/ First.do = "post"
          \/ First.do # "post" /\ cf.there /\ "post" \notin Does(todo)
      BY <1>3, <1>4, <1>11, <3>4
    <3>6. SpDelivers(d, cf, todo, op, mishaps)
      BY <1>3, <2>1, <3>5 DEF SpLeads, SpLost
    <3>7. /\ y.there
          /\ First.do = "post" => y.quota = d.quota /\ y.place = d.place
          /\ First.do # "post" => y.place = cf.place
          /\ First.do \in {"ssh", "trySsh"} => y.ssh = d.ssh
          /\ First.do \notin {"post", "ssh", "trySsh"} => y.ssh = cf.ssh
          /\ First.do = "assign" => y.quota = d.quota
          /\ First.do = "unassign" => y.quota = None
          /\ First.do \notin {"post", "assign", "unassign"} => y.quota = cf.quota
      <4>1. First.do \in {"ssh", "trySsh"} => First.arg = d.ssh
        BY <3>2 DEF SpMaking
      <4>2. First.do = "assign" => First.arg = d.quota
        BY <3>2 DEF SpMaking
      <4>3. First.do # "delete"
        BY <3>2 DEF SpMaking
      <4> QED
        BY <1>2, <3>5, <4>1, <4>2, <4>3 DEF y, Sp!Effect, Sp!Space
    <3>8. /\ First.do = "bind" => y.bound = cf.bound \cup {First.arg}
          /\ First.do \notin {"post", "bind"} => cf.bound \cap d.groups \subseteq y.bound
      <4>1. First.do = "unbind" => First.arg \notin d.groups
        BY <3>2 DEF SpMaking
      <4>2. First.do # "delete"
        BY <3>2 DEF SpMaking
      <4> QED
        BY <1>2, <4>1, <4>2 DEF y, Sp!Effect, Sp!Space
    <3>9. ASSUME NEW g \in d.groups
          PROVE  Call("bind", g) \in ToSet(Rest) \/ g \in y.bound \cup Everywhere
      <4>1. ToSet(todo) = {First} \cup ToSet(Rest)
        BY <1>1, <1>2, FirstAndRest
      <4>2. \/ Call("bind", g) \in ToSet(todo)
            \/ "post" \notin Does(todo) /\ g \in cf.bound \cup Everywhere
        BY <3>6, <3>9 DEF SpDelivers
      <4>3. CASE First = Call("bind", g)
        BY <3>8, <4>3, CallFields
      <4>4. CASE First # Call("bind", g)
        <5>1. Call("bind", g) \in ToSet(Rest) \/ (First.do # "post" /\ g \in cf.bound \cup Everywhere)
          BY <1>3, <4>1, <4>2, <4>4
        <5> QED
          BY <3>8, <3>9, <5>1
      <4> QED
        BY <4>3, <4>4
    <3>10. \/ "ssh" \in Does(Rest) \/ "trySsh" \in Does(Rest)
           \/ y.ssh = x.ssh \/ (op = "update" /\ mishaps > 0)
      <4>1. First.do = "post" => op = "create"
        BY <1>3, <2>1 DEF SpLeads
      <4> QED
        BY <1>3, <1>5, <3>5, <3>6, <3>7, <4>1 DEF SpDelivers
    <3>11. \/ "assign" \in Does(Rest)
           \/ "unassign" \in Does(Rest) /\ x.quota = None
           \/ "unassign" \notin Does(Rest) /\ y.quota = x.quota
      BY <1>3, <1>5, <3>4, <3>5, <3>6, <3>7 DEF SpDelivers
    <3>12. SpDelivers(x, y, Rest, op, mishaps)
      <4>1. op = "create" => y.place = x.place
        BY <1>5, <3>5, <3>6, <3>7 DEF SpDelivers
      <4> QED
        BY <1>5, <3>4, <3>7, <3>9, <3>10, <3>11, <4>1 DEF SpDelivers
    <3>13. "trySsh" \in Does(Rest) => op = "update"
      BY <1>3, <2>1 DEF SpLeads
    <3> QED
      BY <3>2, <3>3, <3>4, <3>12, <3>13 DEF SpLeads
  <2>2. SpPromise'
    BY <1>3, <1>5, <1>8, <1>11, <2>1 DEF SpInv, SpPromise, Answered
  <2> QED
    BY <1>8, <1>9, <1>11, <2>2 DEF SpInv, Sp!Truthful, Sp!Told, Answered
<1>12. ASSUME dropped, Ignored(y, can) PROVE SpInv'
  <2>1. ASSUME SpLeads(d, cf, todo, op, mishaps, tf.groups)
        PROVE  SpLeads(d, cf', Rest, op, mishaps', tf.groups)
    <3>1. todo \in Seq(SpMaking(d, tf.groups))
      BY <2>1 DEF SpLeads
    <3>2. First \in SpMaking(d, tf.groups) /\ Rest \in Seq(SpMaking(d, tf.groups))
      <4> HIDE DEF SpMaking
      <4> QED
        BY <1>1, <3>1, FirstAndRest
    <3>4. /\ "post" \notin Does(Rest) /\ "post" \notin Later(Rest)
          /\ "unassign" \notin Behind(Rest, "assign")
          /\ First.do = "assign" => "unassign" \notin Does(Rest)
      <4> DEFINE w == "assign"
                 T == SpMaking(d, tf.groups)
      <4>1. todo \in Seq(T) /\ todo # <<>>
        BY <1>1, <3>1
      <4> HIDE DEF w, T
      <4>2. /\ Behind(Tail(todo), w) \subseteq Behind(todo, w)
            /\ Head(todo).do = w => Does(Tail(todo)) \subseteq Behind(todo, w)
        BY <4>1, BehindTail
      <4>3. "post" \notin Does(Rest) /\ "post" \notin Later(Rest)
        BY <1>3, <2>1 DEF SpLeads
      <4> QED
        BY <2>1, <4>2, <4>3 DEF SpLeads, First, Rest, w
    <3>5. First.do = "trySsh" /\ op = "update" /\ "post" \notin Does(todo)
      BY <1>3, <1>4, <1>12, <2>1, <3>4 DEF SpLeads
    <3>6. "trySsh" \in Does(Rest) => op = "update"
      BY <3>5
    <3>7. CASE SpLost(d, cf, todo, op)
      <4>1. ~cf.there
        BY <3>7 DEF SpLost
      <4>2. cf' = cf
        BY <1>4, <1>12, <3>5, <4>1 DEF Ignored
      <4>3. SpLost(d, cf', Rest, op)
        BY <1>3, <3>4, <3>5, <3>7, <4>1, <4>2 DEF SpLost
      <4> QED
        BY <3>2, <3>4, <3>6, <4>3 DEF SpLeads
    <3>8. CASE SpDelivers(d, cf, todo, op, mishaps)
      <4>1. cf.there
        BY <3>5, <3>8 DEF SpDelivers
      <4>2. mishaps' = mishaps + 1 /\ mishaps \in Nat
        <5>1. mishaps \in 0 .. MaxMishaps /\ MaxMishaps \in Nat
          BY <1>2, TerraformAssumption DEF SpTyped, Typed, Core, TerraformAssumption
        <5> QED
          BY <1>4, <1>12, <3>5, <4>1, <5>1 DEF Ignored
      <4>3. cf'.there /\ cf'.bound = cf.bound /\ cf'.quota = cf.quota
        BY <1>2, <1>12, <3>5, <4>1 DEF Ignored, y, Sp!Effect, Sp!Space
      <4>4. ToSet(todo) = {First} \cup ToSet(Rest)
        BY <1>1, <1>2, FirstAndRest
      <4>5. ASSUME NEW g \in d.groups
            PROVE  Call("bind", g) \in ToSet(Rest) \/ g \in cf'.bound \cup Everywhere
        BY <3>5, <3>8, <4>3, <4>4, <4>5, CallFields DEF SpDelivers
      <4>6. \/ "assign" \in Does(Rest)
            \/ "unassign" \in Does(Rest) /\ d.quota = None
            \/ "unassign" \notin Does(Rest) /\ cf'.quota = d.quota
        BY <1>3, <3>5, <3>8, <4>3 DEF SpDelivers
      <4>7. SpDelivers(d, cf', Rest, op, mishaps')
        BY <3>4, <3>5, <4>2, <4>3, <4>5, <4>6 DEF SpDelivers
      <4> QED
        BY <3>2, <3>4, <3>6, <4>7 DEF SpLeads
    <3> QED
      BY <2>1, <3>7, <3>8 DEF SpLeads
  <2>2. SpPromise'
    BY <1>3, <1>8, <1>12, <2>1 DEF SpInv, SpPromise, Ignored
  <2> QED
    BY <1>8, <1>9, <1>12, <2>2 DEF SpInv, Sp!Truthful, Sp!Told, Ignored
<1>13. Sp!KeepsGroups
  <2> SUFFICES ASSUME op = "update", d.groups # tf.groups, can, cf' = y
               PROVE  cf.bound \ (tf.groups \ d.groups) \subseteq y.bound
    BY <1>8 DEF Sp!KeepsGroups
  <2>1. todo \in Seq(SpMaking(d, tf.groups)) /\ "post" \notin Does(todo)
    BY <1>8 DEF SpInv, SpPromise, SpLeads
  <2>2. First \in SpMaking(d, tf.groups)
    <3> HIDE DEF SpMaking
    <3> QED
      BY <1>1, <2>1, FirstAndRest
  <2>3. First.do # "delete" /\ First.do # "post"
    BY <1>3, <2>1, <2>2 DEF SpMaking
  <2>4. First.do = "unbind" => First.arg \in tf.groups \ d.groups
    BY <2>2 DEF SpMaking
  <2> QED
    BY <1>2, <2>3, <2>4 DEF y, Sp!Effect, Sp!Space
<1> QED
  BY <1>8, <1>9, <1>10, <1>11, <1>12, <1>13

(* An empty plan has what was read of the space. *)
LEMMA SpRefreshStep == SpInv /\ SpSteady /\ Sp!Refresh => SpInv' /\ Sp!AsAsked'
<1> SUFFICES ASSUME SpInv, SpSteady, Sp!Refresh PROVE SpInv' /\ Sp!AsAsked'
  OBVIOUS
<1>1. SpTyped /\ cfg \in Configs["space"] /\ tf \in Sp!Data /\ cf \in Sp!Space
  BY DEF SpInv, SpTyped, Typed, Core
<1>2. Sp!Absent \in Sp!Data /\ ~Sp!Absent.there
  BY <1>1, SpPlanned
<1>3. PICK new \in Sp!Data :
        /\ AnyMishap /\ Refreshed(new)
        /\ new.there => /\ new.quota = cf.quota /\ new.ssh = cf.ssh /\ tf.there
                        /\ new.groups \subseteq cf.bound \cup Everywhere
  <2> DEFINE A == Sp!Absent
             r(seen) == Sp!Read(seen)
  <2>1. \/ AnyMishap /\ Refreshed(A)
        \/ tf.there /\ AnyMishap /\ \E seen \in SUBSET Sp!Seen(tf.groups) : Refreshed(r(seen))
    BY SpCore DEF Sp!Refresh, Sp!Filter, AnyMishap
  <2>2. CASE AnyMishap /\ Refreshed(A)
    BY <1>2, <2>2
  <2>3. ASSUME tf.there, AnyMishap, NEW seen \in SUBSET Sp!Seen(tf.groups), Refreshed(r(seen))
        PROVE  \E new \in Sp!Data :
                 /\ AnyMishap /\ Refreshed(new)
                 /\ new.there => /\ new.quota = cf.quota /\ new.ssh = cf.ssh /\ tf.there
                                 /\ new.groups \subseteq cf.bound \cup Everywhere
    <3>1. tf.groups \in SUBSET Groups
      BY <1>1 DEF Sp!Data
    <3>2. seen \in SUBSET Groups /\ seen \subseteq cf.bound \cup Everywhere
      BY <1>1, <3>1, SpListing DEF Sp!Applied
    <3> DEFINE n == r(seen)
    <3>3. n \in Sp!Data /\ n.quota = cf.quota /\ n.ssh = cf.ssh /\ n.groups = seen
      BY <1>1, <3>2 DEF Sp!Read, Sp!Data, Sp!Space
    <3> HIDE DEF n
    <3>4. Refreshed(n)
      BY <2>3 DEF n
    <3> QED
      BY <2>3, <3>2, <3>3, <3>4
  <2> QED
    BY <2>1, <2>2, <2>3
<1>4. SpTyped' /\ pc' = "plan" /\ tf' = new /\ UNCHANGED <<cfg, cf, edits>>
  BY <1>1, <1>3, RefreshTyped DEF SpTyped, Refreshed
<1>5. SpInv'
  BY <1>4 DEF SpInv, SpPromise, Sp!Truthful, Sp!Told
<1>6. Sp!AsAsked'
  BY <1>3, <1>4 DEF Sp!AsAsked, Sp!InSync, Sp!Planned, Sp!Applied, SpSteady
<1> QED
  BY <1>5, <1>6

(* and by the steps that leave an operation that is under way alone. *)
LEMMA SpQuietStep ==
  SpInv /\ (\/ Sp!NothingToDo \/ Sp!Finish \/ Sp!EndOperation(Sp!Absent)
            \/ Sp!EditConfig \/ Sp!OthersChange \/ Sp!Crash(Sp!Absent))
    => SpInv'
<1> SUFFICES ASSUME SpInv,
                    \/ Sp!NothingToDo \/ Sp!Finish \/ Sp!EndOperation(Sp!Absent)
                    \/ Sp!EditConfig \/ Sp!OthersChange \/ Sp!Crash(Sp!Absent)
             PROVE  SpInv'
  OBVIOUS
<1> DEFINE A == Sp!Absent
           D == Sp!Data
           O == Sp!Space
<1>1. SpTyped /\ cfg \in Configs["space"] /\ cf \in O
  BY DEF SpInv, SpTyped, Typed, Core
<1>2. A \in D
  BY <1>1, SpPlanned
<1>3. CanTaint(D)
  BY DEF CanTaint, Sp!Data
<1>4. Sp!OthersChange => \E new \in O : Others(new)
  BY <1>1, SpCore DEF Sp!OthersChange, Sp!Space
<1>5. \/ \E s \in BOOLEAN : Settled(s)
      \/ Finish \/ EndOperation(A) \/ Crash(A) \/ Panics \/ Again
      \/ EditOf(Configs["space"]) \/ \E new \in O : Others(new)
  BY <1>4, SpCore DEF Sp!NothingToDo, Sp!InSync
<1> HIDE DEF A, D, O
<1>6. Typed(Configs["space"], D, O, SpCalls)
  BY <1>1 DEF SpTyped, D, O
<1>7. /\ Typed(Configs["space"], D, O, SpCalls)' /\ pc' # "call"
      /\ pc' = "return" => Finish
  BY <1>2, <1>3, <1>5, <1>6, QuietTyped
<1>8. SpTyped'
  BY <1>7 DEF SpTyped, D, O
<1>9. SpPromise'
  BY <1>7 DEF SpPromise
<1>10. Sp!Truthful'
  <2> SUFFICES ASSUME Sp!Told' PROVE Sp!Truthful'
    BY DEF Sp!Truthful
  <2>1. /\ pc = "call" /\ todo = <<>> /\ op \in {"create", "update"} /\ d.there
        /\ UNCHANGED <<cf, d, tf, op, mishaps>>
    BY <1>7 DEF Sp!Told, Finish
  <2>2. SpLeads(d, cf, todo, op, mishaps, tf.groups)
    BY <2>1 DEF SpInv, SpPromise
  <2>3. \/ /\ cf.there /\ cf.quota = d.quota /\ d.groups \subseteq cf.bound \cup Everywhere
           /\ cf.ssh = d.ssh \/ (op = "update" /\ mishaps > 0)
           /\ op = "create" => cf.place = d.place
        \/ op = "update" /\ ~cf.there /\ d.groups = {} /\ d.quota = None
    BY <1>1, <2>1, <2>2, Few DEF SpLeads, SpLost, SpDelivers
  <2> QED
    BY <2>1, <2>3 DEF Sp!Truthful, Sp!Applied
<1> QED
  BY <1>8, <1>9, <1>10 DEF SpInv

(* Every step of a space keeps SpSteady.                                    *)
LEMMA SpSteadyStep ==
  SpInv /\ SpSteady /\ (Sp!Run \/ Sp!Operate \/ Sp!Disturb) => SpSteady'
<1> SUFFICES ASSUME SpInv, SpSteady, Sp!Run \/ Sp!Operate \/ Sp!Disturb, edits' = 0
             PROVE  SpSteady'
  BY DEF SpSteady
<1>1. /\ SpTyped /\ cfg \in Configs["space"] /\ tf \in Sp!Data /\ d \in Sp!Data
      /\ cf \in Sp!Space /\ edits \in Nat /\ todo \in Seq(SpCalls)
  BY TerraformAssumption DEF TerraformAssumption, SpInv, SpTyped, Typed, Core
<1> DEFINE A == Sp!Absent
           P == Sp!Planned(TRUE)
           G == [Sp!Absent EXCEPT !.there = TRUE, !.quota = cf.quota]
<1>2. A.place = cfg.place /\ ~A.there /\ P.place = cfg.place /\ G.place = cfg.place
  <2>1. A \in Sp!Data /\ A.place = cfg.place /\ ~A.there /\ P.place = cfg.place
    BY <1>1, SpPlanned
  <2> QED
    BY <2>1 DEF Sp!Data
<1> HIDE DEF A, P, G
<1>3. CASE Sp!Refresh
  <2>1. \/ tf.there /\ \E seen \in SUBSET tf.groups : Refreshed(Sp!Read(seen))
        \/ Refreshed(A)
    BY <1>3, SpCore DEF Sp!Refresh, A
  <2>2. \A seen : Sp!Read(seen).place = tf.place
    BY <1>1 DEF Sp!Read, Sp!Data
  <2>3. /\ pc' = "plan" /\ UNCHANGED <<cfg, cf, d, edits>>
        /\ tf' = A \/ (tf.there /\ tf'.place = tf.place)
    BY <2>1, <2>2 DEF Refreshed
  <2> QED
    BY <1>2, <2>3 DEF SpSteady
<1>4. CASE Sp!NothingToDo
  <2>1. pc' = "idle" /\ UNCHANGED <<cfg, cf, tf, d, edits>>
    BY <1>4, SpCore DEF Sp!NothingToDo, Settled
  <2> QED
    BY <2>1 DEF SpSteady
<1>5. CASE Sp!Create
  <2>1. PICK x \in {A, G} : /\ x.there => Sp!Found
                            /\ GivesUp("create", x) \/ \E q : Begin("create", x, q)
    BY <1>2, <1>5, SpCore DEF Sp!Create, A, G
  <2>2. op' = "create" /\ d' = x /\ UNCHANGED <<cfg, cf, tf, edits>>
    BY <2>1 DEF Begin, GivesUp
  <2> QED
    BY <1>2, <2>1, <2>2 DEF SpSteady, Sp!Found
<1>6. CASE Sp!Update
  <2>1. tf.there /\ (GivesUp("update", P) \/ \E q : Begin("update", P, q))
    BY <1>6, SpCore DEF Sp!Update, P
  <2>2. d' = P /\ UNCHANGED <<cfg, cf, tf, edits>>
    BY <2>1 DEF Begin, GivesUp
  <2> QED
    BY <1>2, <2>1, <2>2 DEF SpSteady
<1>7. CASE Sp!Replace
  <2>1. tf.there /\ \E q : Begin("delete", tf, q)
    BY <1>7, SpCore DEF Sp!Replace
  <2>2. d' = tf /\ UNCHANGED <<cfg, cf, tf, edits>>
    BY <2>1 DEF Begin
  <2> QED
    BY <2>1, <2>2 DEF SpSteady
<1>8. CASE Sp!Perform
  <2> DEFINE y == Sp!Effect(First)
             x == IF First.do = "setId" THEN [d EXCEPT !.there = TRUE] ELSE d
             can == Sp!Possible(First)
             dropped == First.do = "trySsh"
  <2>1. Calling(y, x, can, dropped)
    BY <1>8, SpCore DEF Sp!Perform, First
  <2>2. todo # <<>> /\ pc = "call"
    BY <2>1 DEF Calling
  <2>3. First \in SpCalls /\ Does(todo) = {First.do} \cup Later(todo)
    BY <1>1, <2>2, FirstAndRest
  <2>4. /\ y.place \in {cf.place, d.place} /\ x.place = d.place
        /\ First.do # "post" => y.place = cf.place
        /\ First.do # "setId" => x.there = d.there
        /\ First.do = "post" => y.place = d.place
    BY <1>1, <2>3 DEF Sp!Effect, Sp!Space, Sp!Data
  <2>5. ASSUME First.do = "setId", op = "create" PROVE cf.place = d.place
    <3>1. SpLeads(d, cf, todo, op, mishaps, tf.groups)
      BY <2>2, <2>5 DEF SpInv, SpPromise
    <3>2. "post" \notin Does(todo)
      BY <2>3, <2>5, <3>1 DEF SpLeads
    <3> QED
      BY <2>5, <3>1, <3>2 DEF SpLeads, SpLost, SpDelivers
  <2> HIDE DEF y, x, can, dropped
  <2>6. /\ UNCHANGED <<cfg, tf, op, edits>>
        /\ \/ cf' \in {cf, y} /\ d' = d
           \/ cf' = y /\ d' = x
    BY <2>1 DEF Calling, Done, Answers
  <2>7. edits = 0 /\ d.place = cfg.place /\ tf.place = cfg.place
    BY <2>6 DEF SpSteady
  <2>8. d'.place = cfg.place /\ (tf.there \/ d.there => cf'.place = cfg.place)
    BY <2>4, <2>6, <2>7 DEF SpSteady
  <2>9. d'.there => cf'.place = cfg.place
    BY <2>2, <2>4, <2>5, <2>6, <2>7, <2>8 DEF SpSteady
  <2> QED
    BY <2>2, <2>6, <2>7, <2>8, <2>9 DEF SpSteady
<1>9. CASE Sp!Finish
  <2>1. pc' = "return" /\ UNCHANGED <<cfg, cf, tf, d, edits>>
    BY <1>9, SpCore DEF Finish
  <2> QED
    BY <2>1 DEF SpSteady
<1>10. CASE Sp!EndOperation(A)
  <2> DEFINE k == [d EXCEPT !.tainted = op = "create" /\ result = "failed"]
  <2>1. k.place = d.place /\ k.there = d.there
    BY <1>1 DEF Sp!Data
  <2>2. EndOperation(A)
    BY <1>10, SpCore
  <2> HIDE DEF k
  <2>3. /\ pc' = "idle" /\ d' = A /\ tf' \in {A, tf, k} /\ UNCHANGED <<cfg, cf, edits>>
    BY <2>2 DEF EndOperation, k
  <2> QED
    BY <1>2, <2>1, <2>3 DEF SpSteady
<1>11. CASE Sp!EditConfig \/ Sp!OthersChange \/ Sp!Destroy
  <2>1. edits' = edits + 1
    BY <1>11, SpCore DEF Sp!OthersChange, Sp!Destroy, EditOf, Others, Removed
  <2> QED
    BY <1>1, <2>1
<1>12. CASE Sp!Crash(A)
  <2>1. pc' = "idle" /\ d' = A /\ UNCHANGED <<cfg, cf, tf, edits>>
    BY <1>12, SpCore DEF Crash
  <2> QED
    BY <1>2, <2>1 DEF SpSteady
<1> QED
  BY <1>3, <1>4, <1>5, <1>6, <1>7, <1>8, <1>9, <1>10, <1>11, <1>12
  DEF Sp!Run, Sp!Operate, Sp!Disturb, A

(* It holds at the start, *)
LEMMA SpInitInv == Sp!Init => SpInv /\ SpSteady
<1> SUFFICES ASSUME Sp!Init PROVE SpInv /\ SpSteady
  OBVIOUS
<1> DEFINE A == Sp!Absent
           D == Sp!Data
           O == Sp!Space
<1>1. /\ cf \in O /\ cfg \in Configs["space"] /\ tf = A /\ d = A /\ pc = "idle"
      /\ op = "none" /\ todo = <<>> /\ result = "none" /\ edits = 0 /\ mishaps = 0
  BY DEF Sp!Init, Sp!Idle
<1>2. A \in D
  BY <1>1, SpPlanned
<1> HIDE DEF A, D, O
<1>3. Typed(Configs["space"], D, O, SpCalls)
  BY <1>1, <1>2, InitTyped
<1>4. SpTyped
  BY <1>3 DEF SpTyped, D, O
<1>5. SpSteady
  BY <1>1, SpPlanned DEF SpSteady, A
<1> QED
  BY <1>1, <1>4, <1>5 DEF SpInv, SpPromise, Sp!Truthful, Sp!Told

(* it is kept by every step of a space, *)
LEMMA SpStep ==
  SpInv /\ SpSteady /\ (Sp!Run \/ Sp!Operate \/ Sp!Disturb)
    => /\ SpInv' /\ SpSteady'
       /\ (pc = "call" => Sp!KeepsGroups) /\ (Refreshes => Sp!AsAsked')
<1> SUFFICES ASSUME SpInv, SpSteady, Sp!Run \/ Sp!Operate \/ Sp!Disturb
             PROVE  /\ SpInv' /\ SpSteady'
                    /\ (pc = "call" => Sp!KeepsGroups) /\ (Refreshes => Sp!AsAsked')
  OBVIOUS
<1>1. SpInv'
  BY SpRefreshStep, SpCreateStep, SpUpdateStep, SpDeletionStep, SpPerformStep, SpQuietStep
  DEF Sp!Run, Sp!Operate, Sp!Disturb
<1>2. ASSUME Refreshes PROVE Sp!Refresh
  <2>1. pc = "idle" /\ pc' = "plan"
    BY <1>2 DEF Refreshes
  <2>2. ~Sp!NothingToDo /\ ~Sp!Create /\ ~Sp!Update /\ ~Sp!Replace
    BY <2>1, OnlyRefreshes, SpCore DEF Sp!NothingToDo, Sp!Create, Sp!Update, Sp!Replace
  <2>3. /\ ~Sp!Perform /\ ~Sp!Finish /\ ~Sp!EndOperation(Sp!Absent) /\ ~Sp!EditConfig
        /\ ~Sp!OthersChange /\ ~Sp!Destroy /\ ~Sp!Crash(Sp!Absent)
    BY <2>1, OnlyRefreshes, SpCore DEF Sp!Perform, Sp!Destroy, Sp!OthersChange
  <2> QED
    BY <2>2, <2>3 DEF Sp!Run, Sp!Operate, Sp!Disturb
<1>3. Refreshes => Sp!AsAsked'
  BY <1>2, SpRefreshStep
<1>4. ASSUME pc = "call" PROVE Sp!Perform \/ UNCHANGED cf
  BY <1>4, OnlyCalls, SpCore
  DEF Sp!Run, Sp!Operate, Sp!Disturb, Sp!Refresh, Sp!NothingToDo, Sp!Create, Sp!Update,
      Sp!Replace, Sp!Destroy, Sp!OthersChange
<1>5. pc = "call" => Sp!KeepsGroups
  BY <1>4, SpPerformStep DEF Sp!KeepsGroups
<1> QED
  BY <1>1, <1>3, <1>5, SpSteadyStep

(* and by a step that changes nothing. *)
LEMMA SpStutter == SpInv /\ SpSteady /\ UNCHANGED vars => SpInv' /\ SpSteady'
<1> SUFFICES ASSUME SpInv, SpSteady, UNCHANGED vars PROVE SpInv' /\ SpSteady'
  OBVIOUS
<1>1. SpTyped'
  BY StutterTyped DEF SpInv, SpTyped
<1> QED
  BY <1>1 DEF vars, SpSteady, SpInv, SpPromise, Sp!Truthful, Sp!Told, Sp!Applied

-----------------------------------------------------------------------------
(* Domains.                                                                 *)
LEMMA DoCore ==
  /\ \A what, arg : Do!Call(what, arg) = Call(what, arg)
  /\ (Do!NoMishap <=> NoMishap) /\ (\A where : Do!Mishap(where) <=> Mishap(where))
  /\ \A new : (Do!Refreshed(new) <=> Refreshed(new)) /\ (Do!Others(new) <=> Others(new))
  /\ \A s : Do!Settled(s) <=> Settled(s)
  /\ \A what, x, calls : Do!Begin(what, x, calls) <=> Begin(what, x, calls)
  /\ \A what, x : Do!GivesUp(what, x) <=> GivesUp(what, x)
  /\ \A calls : Do!Removed(calls) <=> Removed(calls)
  /\ \A new, x, possible, dropped :
       Do!Calling(new, x, possible, dropped) <=> Calling(new, x, possible, dropped)
  /\ \A x : (Do!EndOperation(x) <=> EndOperation(x)) /\ (Do!Crash(x) <=> Crash(x))
  /\ (Do!Finish <=> Finish) /\ (Do!EditConfig <=> EditOf(Configs["domain"]))
  /\ Do!Told <=> Told
  /\ Do!CoreOK <=> Core(Configs["domain"])
BY DEF Do!Call, Do!NoMishap, Do!Mishap, Do!Answers, Do!Answer, Do!Done,
       Do!Refreshed, Do!Settled, Do!Begin, Do!GivesUp, Do!Calling, Do!Finish,
       Do!EndOperation, Do!Crash, Do!EditConfig, Do!Others, Do!Removed, Do!Idle,
       Do!Told, Do!CoreOK, Call, NoMishap, Mishap, Answers, Answer, Done,
       Refreshed, Settled, Begin, GivesUp, Calling, Finish, EndOperation, Crash,
       Others, Removed, Idle, Told, EditOf, Core

(* What the modules for sequences and sets define is the same here. *)
LEMMA DoLists ==
  /\ \A S : Do!IsFiniteSet(S) <=> IsFiniteSet(S)
  /\ \A S : Do!Orders(S) = Orders(S)
  /\ \A what, S : Do!Each(what, S) = Each(what, S)
  /\ \A A, B : Do!InTurn(A, B) = InTurn(A, B)
<1>1. \A S : Do!Cardinality(S) = Cardinality(S)
  BY DEF Do!Cardinality, Cardinality
<1>2. \A S : Do!IsFiniteSet(S) <=> IsFiniteSet(S)
  BY DEF Do!IsFiniteSet, IsFiniteSet
<1>3. \A S : Do!Orders(S) = Orders(S)
  BY <1>1 DEF Do!Orders, Orders
<1>4. \A what, S : Do!Each(what, S) = Each(what, S)
  BY <1>3 DEF Do!Each, Each, Do!Call, Call
<1>5. \A A, B : Do!InTurn(A, B) = InTurn(A, B)
  BY DEF Do!InTurn, InTurn
<1> QED
  BY <1>2, <1>3, <1>4, <1>5

DoData     == {x \in Do!Data : Do!Sensible(x)}
DoPlatform == {x \in Do!Domain : Do!Sensible(x) /\ (~x.there => x.orgs = {})}
DoCalls ==
  {c \in [do : {"post", "setId", "get", "list", "share", "unshare", "nothing", "forget",
                "delete"}, arg : Orgs \cup {None}] :
     c.do \in {"share", "unshare"} => c.arg \in Orgs}

(* What is done for the resource data x shares with those it names, and     *)
(* takes the domain from none of them.                                      *)
DoMaking(x) == {c \in DoCalls : /\ c.do # "delete"
                                /\ c.do = "share" => c.arg \in x.orgs
                                /\ c.do = "unshare" => c.arg \notin x.orgs}

(* The domain y is x's: shared the same way, of the same owner.             *)
DoMatches(x, y) == y.shared = x.shared /\ y.owner = x.owner

(* The calls q make the domain y, or it is there; and if it is x's, or will *)
(* be, they share it with whom it has yet to be shared with, and no others. *)
DoDelivers(x, y, q) ==
  /\ "post" \in Does(q) \/ y.there
  /\ "post" \in Does(q) => \A o \in x.orgs : Call("share", o) \in ToSet(q)
  /\ "post" \notin Does(q) /\ DoMatches(x, y)
       => /\ \A o \in x.orgs : Call("share", o) \in ToSet(q) \/ o \in y.orgs
          /\ \A o \in y.orgs \ x.orgs : Call("unshare", o) \in ToSet(q)

(* An operation that does not end up with the domain's id, or that sets it  *)
(* to nothing, has no success to tell of a domain.                          *)
DoLeads(x, y, q) ==
  /\ q \in Seq(DoMaking(x)) /\ "post" \notin Later(q) /\ Behind(q, "forget") \subseteq {"nothing"}
  /\ "forget" \notin Does(q) /\ (x.there \/ "setId" \in Does(q)) => DoDelivers(x, y, q)

DoTyped   == Typed(Configs["domain"], DoData, DoPlatform, DoCalls)
DoPromise == pc = "call" /\ op \in {"create", "update"} => DoLeads(d, cf, todo)
DoInv     == DoTyped /\ DoPromise /\ Do!Truthful

(* What a plan asks for, and what Terraform keeps of what is gone, for a    *)
(* domain, are resource data.                                               *)
LEMMA DoPlanned ==
  ASSUME cfg \in Configs["domain"]
  PROVE  /\ Do!Planned(TRUE) \in DoData /\ Do!Absent \in DoData
         /\ cfg \in Do!Config /\ Do!Sensible(cfg)
         /\ Do!Planned(TRUE).orgs = cfg.orgs /\ DoMatches(cfg, Do!Planned(TRUE))
         /\ Do!Absent.orgs = cfg.orgs /\ DoMatches(cfg, Do!Absent) /\ ~Do!Absent.there
<1>1. cfg \in Do!Config /\ Do!Sensible(cfg)
  BY ResourcesAssumption DEF Do!DomainsAssumption, ResourcesAssumption
<1> QED
  BY <1>1 DEF Do!Config, Do!Data, DoData, Do!Sensible, Do!Planned, Do!Absent, DoMatches

(* Every call of a domain that carries its work out is one of its calls. *)
LEMMA DoMakes ==
  ASSUME NEW x
  PROVE  \A q \in Seq(DoMaking(x)) : q \in Seq(DoCalls)
<1>1. DoMaking(x) \subseteq DoCalls
  BY DEF DoMaking
<1> HIDE DEF DoMaking, DoCalls
<1> QED
  BY <1>1, SeqOfMore

(* A set of organizations is finite, and so is a loop over it. *)
LEMMA DoFinite == \A S \in SUBSET Orgs : IsFiniteSet(S)
<1>1. IsFiniteSet(Orgs)
  BY DoLists, ResourcesAssumption DEF Do!DomainsAssumption, ResourcesAssumption
<1> QED
  BY <1>1, FS_Subset

(* All that are asked for are shared with (domains.go:24).                  *)
LEMMA DoShares ==
  ASSUME NEW W \in SUBSET Orgs, NEW x, x.orgs = W, NEW q \in Do!Each("share", W)
  PROVE  /\ q \in Seq(DoMaking(x)) /\ Does(q) \subseteq {"share"}
         /\ \A o \in W : Call("share", o) \in ToSet(q)
<1> DEFINE T == DoMaking(x)
           what == "share"
<1>1. IsFiniteSet(W) /\ q \in Each(what, W)
  BY DoFinite, DoLists
<1>2. \A o \in W : Call(what, o) \in T
  BY DEF DoMaking, DoCalls, Call
<1> HIDE DEF T, what
<1>3. /\ q \in Seq(T) /\ ToSet(q) = {Call(what, o) : o \in W}
      /\ Does(q) \subseteq {what}
  BY ONLY <1>1, <1>2, EachOf
<1> QED
  BY <1>3 DEF what, T

(* What is too much is taken away, but for the owner, and what is missing   *)
(* is given (domains.go:98-114).                                            *)
LEMMA DoSharedToOrg ==
  ASSUME NEW has \in SUBSET Orgs, NEW W \in SUBSET Orgs, NEW owner, NEW x, x.orgs = W,
         NEW q \in Do!SharedToOrg(owner, has, W)
  PROVE  /\ q \in Seq(DoMaking(x)) /\ Does(q) \subseteq {"share", "unshare"}
         /\ \A o \in W \ has : Call("share", o) \in ToSet(q)
         /\ \A o \in has \ (W \cup {owner}) : Call("unshare", o) \in ToSet(q)
<1> DEFINE T == DoMaking(x)
           less == has \ (W \cup {owner})
           more == W \ has
           u == "unshare"
           s == "share"
<1>1. q \in InTurn(Each(u, less), Each(s, more))
  BY DoLists DEF Do!SharedToOrg
<1>2. less \in SUBSET Orgs /\ more \in SUBSET Orgs
  OBVIOUS
<1>3. IsFiniteSet(less) /\ IsFiniteSet(more)
  BY <1>2, DoFinite
<1>4. (\A o \in less : Call(u, o) \in T) /\ (\A o \in more : Call(s, o) \in T)
  BY DEF DoMaking, DoCalls, Call
<1> HIDE DEF T, less, more, u, s
<1>5. PICK a \in Each(u, less), b \in Each(s, more) : q = a \o b
  BY <1>1, InTurnOf
<1>6. a \in Seq(T) /\ ToSet(a) = {Call(u, o) : o \in less} /\ Does(a) \subseteq {u}
  BY <1>3, <1>4, EachOf
<1>7. b \in Seq(T) /\ ToSet(b) = {Call(s, o) : o \in more} /\ Does(b) \subseteq {s}
  BY <1>3, <1>4, EachOf
<1> DEFINE c == a \o b
<1>8. c \in Seq(T) /\ Does(c) = Does(a) \cup Does(b) /\ ToSet(c) = ToSet(a) \cup ToSet(b)
  BY <1>6, <1>7, Cat
<1>9. c = q
  BY <1>5
<1> HIDE DEF c
<1>10. Does(q) \subseteq {s, u}
  BY <1>6, <1>7, <1>8, <1>9
<1>11. /\ \A o \in more : Call(s, o) \in ToSet(q)
       /\ \A o \in less : Call(u, o) \in ToSet(q)
  BY <1>6, <1>7, <1>8, <1>9
<1> QED
  BY <1>8, <1>9, <1>10, <1>11 DEF T, less, more, u, s

(* A Create shares with all, lists, and corrects (domains.go:24).           *)
LEMMA DoCorrect ==
  ASSUME cfg \in Do!Config, Do!Sensible(cfg), NEW has, ~cfg.shared => has \in SUBSET Orgs,
         NEW x, x.orgs = cfg.orgs, NEW q \in Do!Correct(has)
  PROVE  /\ q \in Seq(DoMaking(x)) /\ Does(q) \subseteq {"share", "list", "unshare"}
         /\ \A o \in x.orgs : Call("share", o) \in ToSet(q)
         /\ ~cfg.shared
              => \A o \in has \ (cfg.orgs \cup {IF cf.there THEN cf.owner ELSE cfg.owner}) :
                   Call("unshare", o) \in ToSet(q)
<1> DEFINE T == DoMaking(x)
           W == cfg.orgs
<1>1. W \in SUBSET Orgs /\ x.orgs = W /\ cfg.shared \in BOOLEAN
  BY DEF Do!Config
<1>2. CASE cfg.shared
  <2>1. q \in Do!Each("share", W)
    BY <1>2 DEF Do!Correct
  <2> HIDE DEF W
  <2> QED
    BY <1>1, <1>2, <2>1, DoShares
<1>3. CASE ~cfg.shared
  <2> DEFINE owner == IF cf.there THEN cf.owner ELSE cfg.owner
             every == has \cup W
             l == Call("list", None)
             s == <<l>>
  <2>1. q \in Do!InTurn(Do!Each("share", W), Do!InTurn({s}, Do!SharedToOrg(owner, every, W)))
    BY <1>3, DoCore DEF Do!Correct
  <2>2. every \in SUBSET Orgs /\ has \subseteq every
    BY <1>1, <1>3
  <2>3. l \in T /\ l.do = "list"
    BY DEF DoMaking, DoCalls, Call
  <2> HIDE DEF W, owner, every, s, l
  <2>4. PICK a \in Do!Each("share", W), h \in InTurn({s}, Do!SharedToOrg(owner, every, W)) :
          q = a \o h
    <3> DEFINE A == Do!Each("share", W)
               B == InTurn({s}, Do!SharedToOrg(owner, every, W))
    <3>1. q \in InTurn(A, B)
      BY <2>1, DoLists
    <3> HIDE DEF A, B
    <3>2. \E a \in A, h \in B : q = a \o h
      BY <3>1 DEF InTurn
    <3> QED
      BY <3>2 DEF A, B
  <2>5. PICK b \in Do!SharedToOrg(owner, every, W) : h = s \o b
    BY DEF InTurn
  <2>6. s \in Seq(T) /\ Does(s) = {"list"}
    BY <2>3, Few DEF s
  <2> HIDE DEF T
  <2>7. /\ a \in Seq(T) /\ Does(a) \subseteq {"share"}
        /\ \A o \in W : Call("share", o) \in ToSet(a)
    BY <1>1, <2>4, DoShares DEF T
  <2>8. /\ b \in Seq(T) /\ Does(b) \subseteq {"share", "unshare"}
        /\ \A o \in every \ (W \cup {owner}) : Call("unshare", o) \in ToSet(b)
    BY <1>1, <2>2, <2>5, DoSharedToOrg DEF T
  <2> DEFINE g == s \o b
             c == a \o g
  <2>9. g \in Seq(T) /\ Does(g) = Does(s) \cup Does(b) /\ ToSet(g) = ToSet(s) \cup ToSet(b)
    BY <2>6, <2>8, Cat
  <2>10. g = h
    BY <2>5
  <2> HIDE DEF g
  <2>11. c \in Seq(T) /\ Does(c) = Does(a) \cup Does(g) /\ ToSet(c) = ToSet(a) \cup ToSet(g)
    BY <2>7, <2>9, Cat
  <2>12. c = q
    BY <2>4, <2>10
  <2> HIDE DEF c
  <2>13. Does(q) \subseteq {"share", "list", "unshare"}
    BY <2>6, <2>7, <2>8, <2>9, <2>11, <2>12
  <2>14. \A o \in W : Call("share", o) \in ToSet(q)
    BY <2>7, <2>11, <2>12
  <2>15. \A o \in has \ (W \cup {owner}) : Call("unshare", o) \in ToSet(q)
    BY <2>2, <2>8, <2>9, <2>11, <2>12
  <2> QED
    BY <1>1, <2>11, <2>12, <2>13, <2>14, <2>15 DEF owner, W, T
<1> QED
  BY <1>1, <1>2, <1>3

(* Of a domain that was not answered there is nothing to tell.              *)
LEMMA DoNothing ==
  ASSUME NEW x
  PROVE  Do!Nothing \in Seq(DoMaking(x)) /\ Does(Do!Nothing) \subseteq {"nothing"}
<1> DEFINE n == Call("nothing", None)
           q == Do!Nothing
<1>1. (q = <<>> \/ q = <<n>>) /\ n \in DoMaking(x) /\ n.do = "nothing"
  BY DEF DoMaking, DoCalls, Call, Do!Nothing, Do!Call
<1> HIDE DEF n, q, DoMaking
<1>2. CASE q = <<>>
  BY <1>2, Few DEF q
<1>3. CASE q = <<n>>
  BY <1>1, <1>3, Few DEF q
<1> QED
  BY <1>1, <1>2, <1>3

(* The calls of a domain that was not found: nothing is done for it behind  *)
(* the id being forgotten.                                                  *)
LEMMA DoForget ==
  ASSUME cfg \in Do!Config, NEW x, x.orgs = cfg.orgs, NEW q \in Do!Forget
  PROVE  /\ q \in Seq(DoMaking(x)) /\ "forget" \in Does(q)
         /\ Does(q) \subseteq {"share", "forget", "nothing"}
         /\ Behind(q, "forget") \subseteq {"nothing"}
<1> DEFINE T == DoMaking(x)
           W == cfg.orgs
           f == Call("forget", None)
           s == <<f>>
           n == Do!Nothing
           b == s \o n
           w == "forget"
<1>1. W \in SUBSET Orgs /\ x.orgs = W
  BY DEF Do!Config
<1>2. q \in Do!InTurn(Do!Each("share", W), {b})
  BY DoCore DEF Do!Forget
<1>3. f \in T /\ f.do = w
  BY DEF DoMaking, DoCalls, Call
<1>4. n \in Seq(T) /\ Does(n) \subseteq {"nothing"}
  BY DoNothing
<1> HIDE DEF W, T, f, n, w
<1>5. PICK a \in Do!Each("share", W) : q = a \o b
  <2> DEFINE A == Do!Each("share", W)
  <2>1. q \in InTurn(A, {b})
    BY <1>2, DoLists
  <2> HIDE DEF A, b
  <2>2. \E a \in A : q = a \o b
    BY ONLY <2>1, InTurnOf
  <2> QED
    BY <2>2 DEF A
<1>6. s \in Seq(T) /\ Does(s) = {w}
  BY <1>3, Few
<1>7. Behind(s \o n, w) \subseteq Does(n)
  BY <1>3, <1>4, BehindCat
<1> HIDE DEF s
<1>8. b \in Seq(T) /\ Does(b) = Does(s) \cup Does(n)
  BY <1>4, <1>6, Cat
<1>9. a \in Seq(T) /\ Does(a) \subseteq {"share"}
  BY <1>1, <1>5, DoShares DEF T
<1>10. Behind(b, w) \subseteq {"nothing"} /\ w \notin Does(a)
  BY <1>4, <1>7, <1>9 DEF w
<1> HIDE DEF b
<1> DEFINE c == a \o b
<1>11. c \in Seq(T) /\ Does(c) = Does(a) \cup Does(b)
  BY <1>8, <1>9, Cat
<1>12. Behind(c, w) \subseteq Behind(b, w)
  BY <1>8, <1>9, <1>10, BehindCat
<1>13. c = q
  BY <1>5
<1> HIDE DEF c
<1> QED
  BY <1>4, <1>6, <1>8, <1>9, <1>10, <1>11, <1>12, <1>13 DEF T, w

(* A domain that is made, and whose id is found, first.                     *)
LEMMA DoPosting ==
  ASSUME NEW x
  PROVE  /\ Do!Post \in Seq(DoMaking(x)) /\ Does(Do!Post) = {"post"} /\ Later(Do!Post) = {}
         /\ Do!PostFind \in Seq(DoMaking(x)) /\ Does(Do!PostFind) = {"post", "setId"}
         /\ Later(Do!PostFind) \subseteq {"setId"}
<1> DEFINE p == Call("post", None)
           i == Call("setId", None)
           a == Do!Post
           b == Do!PostFind
<1>1. /\ p \in DoMaking(x) /\ i \in DoMaking(x) /\ p.do = "post" /\ i.do = "setId"
  BY DEF DoMaking, DoCalls, Call
<1>0. a = <<p>>
  BY DEF Do!Post, Do!Call, Call
<1> DEFINE c == <<i>>
<1>2. b = a \o c
  BY DEF Do!PostFind, Do!Call, Call
<1> HIDE DEF p, i, DoMaking, a, b
<1>3. a \in Seq(DoMaking(x)) /\ Does(a) = {"post"} /\ Later(a) = {}
  BY <1>0, <1>1, Few
<1>4. c \in Seq(DoMaking(x)) /\ Does(c) = {"setId"}
  BY <1>1, Few
<1> HIDE DEF c
<1>5. /\ b \in Seq(DoMaking(x)) /\ Does(b) = Does(a) \cup Does(c)
      /\ Later(b) \subseteq Later(a) \cup Does(c)
  BY <1>2, <1>3, <1>4, Cat
<1> QED
  BY <1>3, <1>4, <1>5 DEF a, b

(* An operation on a domain whose calls lead to what it was asked begins    *)
(* with the invariant.                                                      *)
LEMMA DoBegins ==
  ASSUME DoTyped, NEW what \in {"create", "update"}, NEW x \in DoData,
         NEW calls \in Seq(DoCalls), AnyMishap, Begin(what, x, calls),
         TRUE => DoLeads(x, cf, calls)
  PROVE  DoInv'
<1>1. /\ DoTyped' /\ UNCHANGED <<cf>> /\ pc' = "call" /\ op' = what /\ d' = x
      /\ todo' = calls
  BY BeginTyped DEF DoTyped
<1> QED
  BY <1>1 DEF DoInv, DoPromise, Do!Truthful, Do!Told

(* So does one that fails before its first call. *)
LEMMA DoGivesUp ==
  ASSUME DoTyped, NEW what \in {"create", "update"}, NEW x \in DoData,
         AnyMishap, GivesUp(what, x)
  PROVE  DoInv'
<1>1. DoTyped' /\ pc' = "return" /\ result' = "failed"
  BY GivesUpTyped DEF DoTyped
<1> QED
  BY <1>1 DEF DoInv, DoPromise, Do!Truthful, Do!Told

(* Before a domain is adopted: Listing has the organizations that it is     *)
(* shared with.                                                             *)
LEMMA DoListing ==
  ASSUME cf \in DoPlatform
  PROVE  Do!Listing \in SUBSET Orgs /\ cf.orgs \subseteq Do!Listing
BY DEF Do!Listing, DoPlatform, Do!Domain, Do!Sensible

(* A list without a "forget", or with nothing behind it, that delivers.     *)
LEMMA DoDelivering ==
  ASSUME NEW x, NEW y, NEW q \in Seq(DoMaking(x)), "post" \notin Later(q),
         "forget" \notin Does(q), (x.there \/ "setId" \in Does(q)) => DoDelivers(x, y, q)
  PROVE  DoLeads(x, y, q)
<1> DEFINE w == "forget"
           T == DoMaking(x)
<1>1. q \in Seq(T) /\ w \notin Does(q)
  OBVIOUS
<1> HIDE DEF w, T
<1>2. Behind(q, w) = {}
  BY <1>1, BehindNothing
<1> QED
  BY <1>2 DEF DoLeads, w

(* The invariant of a domain is kept by Create, *)
LEMMA DoCreateStep == DoInv /\ Do!Create => DoInv'
<1> SUFFICES ASSUME DoInv, Do!Create PROVE DoInv'
  OBVIOUS
<1>1. DoTyped /\ cfg \in Configs["domain"] /\ cf \in DoPlatform
  BY DEF DoInv, DoTyped, Typed, Core
<1> DEFINE P == Do!Planned(TRUE)
           A == Do!Absent
           L == Do!Listing
           p == Do!Post
           i == Do!PostFind
           n == Do!Nothing
           g == Call("get", None)
           s == <<g>>
<1>2. \/ cf.there /\ AnyMishap /\ \E b \in Do!Correct(L) : Begin("create", P, b)
      \/ AnyMishap /\ \E b \in Do!Forget : Begin("create", P, b)
      \/ AnyMishap /\ GivesUp("create", P)
      \/ ~cf.there /\ AnyMishap /\ \E b \in Do!Correct({cfg.owner}) : Begin("create", A, i \o s \o b)
      \/ AnyMishap /\ \E b \in Do!Forget : Begin("create", A, i \o b)
      \/ AnyMishap /\ Begin("create", A, p \o n)
      \/ AnyMishap /\ Begin("create", A, p)
  BY DoCore DEF Do!Create, Do!Adopt, Do!Make, Do!Vanishes, AnyMishap
<1>3. /\ cfg \in Do!Config /\ Do!Sensible(cfg) /\ P \in DoData /\ A \in DoData /\ ~A.there
      /\ P.orgs = cfg.orgs /\ DoMatches(cfg, P) /\ A.orgs = cfg.orgs /\ DoMatches(cfg, A)
  BY <1>1, DoPlanned
<1>4. g.do = "get" /\ g \in DoMaking(A)
  BY DEF DoMaking, DoCalls, Call
<1>5. /\ p \in Seq(DoMaking(A)) /\ Does(p) = {"post"} /\ Later(p) = {}
      /\ i \in Seq(DoMaking(A)) /\ Does(i) = {"post", "setId"} /\ Later(i) \subseteq {"setId"}
  BY DoPosting
<1> HIDE DEF P, A, p, i, g
<1>6. s \in Seq(DoMaking(A)) /\ Does(s) = {"get"}
  BY <1>4, Few
<1> HIDE DEF s
<1>7. ASSUME cf.there, AnyMishap, NEW q \in Do!Correct(L), Begin("create", P, q) PROVE DoInv'
  <2>1. L \in SUBSET Orgs /\ cf.orgs \subseteq L
    BY <1>1, DoListing
  <2> HIDE DEF L
  <2>2. /\ q \in Seq(DoMaking(P)) /\ Does(q) \subseteq {"share", "list", "unshare"}
        /\ \A o \in P.orgs : Call("share", o) \in ToSet(q)
        /\ ~cfg.shared => \A o \in L \ (cfg.orgs \cup {cf.owner}) : Call("unshare", o) \in ToSet(q)
    BY <1>3, <1>7, <2>1, DoCorrect
  <2>3. q \in Seq(DoCalls)
    BY <2>2, DoMakes
  <2>4. "post" \notin Later(q) /\ "post" \notin Does(q) /\ "forget" \notin Does(q)
    BY <2>2 DEF Does, Later
  <2>5. DoMatches(P, cf) => \A o \in cf.orgs \ P.orgs : Call("unshare", o) \in ToSet(q)
    <3>1. cf.owner \notin cf.orgs /\ (cf.shared => cf.orgs = {})
      BY <1>1 DEF DoPlatform, Do!Sensible
    <3>2. DoMatches(P, cf) => cf.shared = cfg.shared
      BY <1>3 DEF DoMatches
    <3> QED
      BY <1>3, <2>1, <2>2, <3>1, <3>2
  <2>6. DoDelivers(P, cf, q)
    BY <1>7, <2>2, <2>4, <2>5 DEF DoDelivers
  <2>7. DoLeads(P, cf, q)
    BY <2>2, <2>4, <2>6, DoDelivering
  <2> QED
    BY <1>1, <1>3, <1>7, <2>3, <2>7, DoBegins
<1>8. ASSUME AnyMishap, NEW q \in Do!Forget, Begin("create", P, q) PROVE DoInv'
  <2>1. /\ q \in Seq(DoMaking(P)) /\ "forget" \in Does(q)
        /\ Does(q) \subseteq {"share", "forget", "nothing"}
        /\ Behind(q, "forget") \subseteq {"nothing"}
    BY <1>3, DoForget
  <2>2. q \in Seq(DoCalls)
    BY <2>1, DoMakes
  <2>3. "post" \notin Later(q)
    BY <2>1 DEF Does, Later
  <2>4. DoLeads(P, cf, q)
    BY <2>1, <2>3 DEF DoLeads
  <2> QED
    BY <1>1, <1>3, <1>8, <2>2, <2>4, DoBegins
<1>9. CASE AnyMishap /\ GivesUp("create", P)
  BY <1>1, <1>3, <1>9, DoGivesUp
<1>10. ASSUME ~cf.there, AnyMishap, NEW b \in Do!Correct({cfg.owner}),
              Begin("create", A, i \o s \o b)
       PROVE  DoInv'
  <2> DEFINE O == {cfg.owner}
             h == i \o s
             q == h \o b
  <2>1. ~cfg.shared => O \in SUBSET Orgs
    BY <1>3 DEF Do!Config, Do!Sensible
  <2> HIDE DEF O
  <2>2. /\ b \in Seq(DoMaking(A)) /\ Does(b) \subseteq {"share", "list", "unshare"}
        /\ \A o \in A.orgs : Call("share", o) \in ToSet(b)
    BY <1>3, <1>10, <2>1, DoCorrect DEF O
  <2>3. h \in Seq(DoMaking(A)) /\ Does(h) = Does(i) \cup Does(s) /\ Later(h) \subseteq Later(i) \cup Does(s)
    BY <1>5, <1>6, Cat
  <2>4. Begin("create", A, q)
    BY <1>10
  <2> HIDE DEF h
  <2>5. /\ q \in Seq(DoMaking(A)) /\ Does(q) = Does(h) \cup Does(b)
        /\ Later(q) \subseteq Later(h) \cup Does(b) /\ ToSet(q) = ToSet(h) \cup ToSet(b)
    BY <2>2, <2>3, Cat
  <2> HIDE DEF q
  <2>6. q \in Seq(DoCalls)
    BY <2>5, DoMakes
  <2>7. "post" \notin Later(q) /\ "post" \in Does(q) /\ "forget" \notin Does(q)
    BY <1>5, <1>6, <2>2, <2>3, <2>5
  <2>8. DoDelivers(A, cf, q)
    BY <2>2, <2>5, <2>7 DEF DoDelivers
  <2>9. DoLeads(A, cf, q)
    BY <2>5, <2>7, <2>8, DoDelivering
  <2> QED
    BY <1>1, <1>3, <1>10, <2>4, <2>6, <2>9, DoBegins
<1>11. ASSUME AnyMishap, NEW b \in Do!Forget, Begin("create", A, i \o b) PROVE DoInv'
  <2> DEFINE q == i \o b
             w == "forget"
             T == DoMaking(A)
  <2>1. /\ b \in Seq(T) /\ w \in Does(b)
        /\ Does(b) \subseteq {"share", "forget", "nothing"}
        /\ Behind(b, w) \subseteq {"nothing"}
    BY <1>3, DoForget
  <2>2. i \in Seq(T) /\ w \notin Does(i)
    BY <1>5
  <2> HIDE DEF w, T
  <2>3. /\ q \in Seq(T) /\ Does(q) = Does(i) \cup Does(b)
        /\ Later(q) \subseteq Later(i) \cup Does(b)
    BY <2>1, <2>2, Cat
  <2>4. Behind(q, w) \subseteq Behind(b, w)
    BY <2>1, <2>2, BehindCat
  <2>5. Begin("create", A, q)
    BY <1>11
  <2> HIDE DEF q
  <2>6. q \in Seq(DoCalls)
    BY <2>3, DoMakes DEF T
  <2>7. "post" \notin Later(q) /\ w \in Does(q)
    BY <1>5, <2>1, <2>3
  <2>8. DoLeads(A, cf, q)
    BY <2>1, <2>3, <2>4, <2>7 DEF DoLeads, w, T
  <2> QED
    BY <1>1, <1>3, <1>11, <2>5, <2>6, <2>8, DoBegins
<1>12. CASE AnyMishap /\ Begin("create", A, p \o n)
  <2> DEFINE q == p \o n
  <2>1. n \in Seq(DoMaking(A)) /\ Does(n) \subseteq {"nothing"}
    BY DoNothing
  <2> HIDE DEF n
  <2>2. /\ q \in Seq(DoMaking(A)) /\ Does(q) = Does(p) \cup Does(n)
        /\ Later(q) \subseteq Later(p) \cup Does(n)
    BY <1>5, <2>1, Cat
  <2>3. Begin("create", A, q)
    BY <1>12
  <2> HIDE DEF q
  <2>4. q \in Seq(DoCalls)
    BY <2>2, DoMakes
  <2>5. "post" \notin Later(q) /\ "forget" \notin Does(q) /\ "setId" \notin Does(q)
    BY <1>5, <2>1, <2>2
  <2>6. DoLeads(A, cf, q)
    BY <1>3, <2>2, <2>5, DoDelivering
  <2> QED
    BY <1>1, <1>3, <1>12, <2>3, <2>4, <2>6, DoBegins
<1>13. CASE AnyMishap /\ Begin("create", A, p)
  <2>1. p \in Seq(DoCalls)
    BY <1>5, DoMakes
  <2>2. DoLeads(A, cf, p)
    BY <1>3, <1>5, DoDelivering
  <2> QED
    BY <1>1, <1>3, <1>13, <2>1, <2>2, DoBegins
<1> QED
  BY <1>2, <1>7, <1>8, <1>9, <1>10, <1>11, <1>12, <1>13

(* by Update, *)
LEMMA DoUpdateStep == DoInv /\ Do!Update => DoInv'
<1> SUFFICES ASSUME DoInv, Do!Update PROVE DoInv'
  OBVIOUS
<1>1. DoTyped /\ cfg \in Configs["domain"] /\ cf \in DoPlatform
  BY DEF DoInv, DoTyped, Typed, Core
<1> DEFINE P == Do!Planned(TRUE)
           A == Do!Absent
           L == Do!Listing
           e == <<>>
<1>2. \/ AnyMishap /\ cf.there /\ (cf.shared \/ cfg.shared) /\ Begin("update", P, e)
      \/ /\ AnyMishap /\ cf.there /\ ~cf.shared /\ ~cfg.shared
         /\ \E u \in Do!SharedToOrg(cfg.owner, L, cfg.orgs) : Begin("update", P, u)
      \/ AnyMishap /\ Begin("update", A, e)
      \/ AnyMishap /\ GivesUp("update", P)
  BY DoCore DEF Do!Update, Do!Vanishes, AnyMishap
<1>3. /\ cfg \in Do!Config /\ Do!Sensible(cfg) /\ P \in DoData /\ A \in DoData /\ ~A.there
      /\ P.orgs = cfg.orgs /\ DoMatches(cfg, P) /\ A.orgs = cfg.orgs
  BY <1>1, DoPlanned
<1> HIDE DEF P, A
<1>4. /\ \A x : e \in Seq(DoMaking(x))
      /\ e \in Seq(DoCalls) /\ Does(e) = {} /\ Later(e) = {}
  BY Few
<1> HIDE DEF e
<1>5. CASE AnyMishap /\ cf.there /\ (cf.shared \/ cfg.shared) /\ Begin("update", P, e)
  <2>1. DoMatches(P, cf) => cf.orgs = {} /\ P.orgs = {}
    BY <1>1, <1>3, <1>5 DEF DoMatches, DoPlatform, Do!Sensible
  <2>2. DoDelivers(P, cf, e)
    BY <1>4, <1>5, <2>1 DEF DoDelivers
  <2>3. DoLeads(P, cf, e)
    BY <1>4, <2>2, DoDelivering
  <2> QED
    BY <1>1, <1>3, <1>4, <1>5, <2>3, DoBegins
<1>6. ASSUME AnyMishap, cf.there, ~cf.shared, ~cfg.shared,
             NEW q \in Do!SharedToOrg(cfg.owner, L, cfg.orgs), Begin("update", P, q)
      PROVE  DoInv'
  <2>1. L = cf.orgs \cup {cf.owner} /\ L \in SUBSET Orgs /\ cfg.orgs \in SUBSET Orgs
    BY <1>1, <1>3, <1>6, DoListing DEF Do!Listing, Do!Config
  <2> HIDE DEF L
  <2>2. /\ q \in Seq(DoMaking(P)) /\ Does(q) \subseteq {"share", "unshare"}
        /\ \A o \in cfg.orgs \ L : Call("share", o) \in ToSet(q)
        /\ \A o \in L \ (cfg.orgs \cup {cfg.owner}) : Call("unshare", o) \in ToSet(q)
    BY <1>3, <1>6, <2>1, DoSharedToOrg
  <2>3. q \in Seq(DoCalls)
    BY <2>2, DoMakes
  <2>4. "post" \notin Later(q) /\ "post" \notin Does(q) /\ "forget" \notin Does(q)
    BY <2>2 DEF Does, Later
  <2>5. DoMatches(P, cf)
          => /\ \A o \in P.orgs : Call("share", o) \in ToSet(q) \/ o \in cf.orgs
             /\ \A o \in cf.orgs \ P.orgs : Call("unshare", o) \in ToSet(q)
    <3> SUFFICES ASSUME DoMatches(P, cf)
                 PROVE  /\ \A o \in P.orgs : Call("share", o) \in ToSet(q) \/ o \in cf.orgs
                        /\ \A o \in cf.orgs \ P.orgs : Call("unshare", o) \in ToSet(q)
      OBVIOUS
    <3>1. cf.owner = cfg.owner
      BY <1>3 DEF DoMatches
    <3>2. cf.owner \notin cf.orgs /\ cfg.owner \notin cfg.orgs
      BY <1>1, <1>3 DEF DoPlatform, Do!Sensible
    <3> QED
      BY <1>3, <2>1, <2>2, <3>1, <3>2
  <2>6. DoDelivers(P, cf, q)
    BY <1>6, <2>4, <2>5 DEF DoDelivers
  <2>7. DoLeads(P, cf, q)
    BY <2>2, <2>4, <2>6, DoDelivering
  <2> QED
    BY <1>1, <1>3, <1>6, <2>3, <2>7, DoBegins
<1>7. CASE AnyMishap /\ Begin("update", A, e)
  <2>1. DoLeads(A, cf, e)
    BY <1>3, <1>4, DoDelivering
  <2> QED
    BY <1>1, <1>3, <1>4, <1>7, <2>1, DoBegins
<1>8. CASE AnyMishap /\ GivesUp("update", P)
  BY <1>1, <1>3, <1>8, DoGivesUp
<1> QED
  BY <1>2, <1>5, <1>6, <1>7, <1>8

(* by a deletion, in a destroy or a replacement, *)
LEMMA DoDeletionStep == DoInv /\ (Do!Replace \/ Do!Destroy) => DoInv'
<1> SUFFICES ASSUME DoInv, Do!Replace \/ Do!Destroy PROVE DoInv'
  OBVIOUS
<1> DEFINE q == Do!DeleteCalls
<1>1. DoTyped /\ tf \in DoData
  BY DEF DoInv, DoTyped, Typed
<1>2. q \in Seq(DoCalls)
  <2> DEFINE c == Call("delete", None)
  <2>1. c \in DoCalls /\ q = <<c>>
    BY DEF DoCalls, Call, Do!DeleteCalls, Do!Call
  <2> HIDE DEF c, q
  <2> QED
    BY <2>1
<1>3. (AnyMishap /\ Begin("delete", tf, q)) \/ Removed(q)
  BY DoCore DEF Do!Replace, Do!Destroy, AnyMishap
<1> HIDE DEF q
<1>4. DoTyped' /\ pc' = "call" /\ op' = "delete"
  BY <1>1, <1>2, <1>3, BeginTyped DEF DoTyped
<1> QED
  BY <1>4 DEF DoInv, DoPromise, Do!Truthful, Do!Told

(* by each call and each of its answers, *)
LEMMA DoPerformStep == DoInv /\ Do!Perform => DoInv' /\ Do!KeepsShares
<1> SUFFICES ASSUME DoInv, Do!Perform PROVE DoInv' /\ Do!KeepsShares
  OBVIOUS
<1> DEFINE y == IF Do!Possible(First) THEN Do!Effect(First) ELSE cf
           x == Do!Learned(First)
           can == Do!Possible(First)
           D == DoData
           O == DoPlatform
<1>1. Calling(y, x, can, FALSE) /\ todo # <<>>
  <2> DEFINE z == Do!Effect(First)
             no == FALSE
  <2>1. Calling(z, x, can, no) /\ todo # <<>> /\ (can => y = z)
    BY DoCore DEF Do!Perform, First
  <2> HIDE DEF x, y, z, can, no
  <2>2. Calling(y, x, can, no)
    BY <2>1, CallingOnly
  <2> QED
    BY <2>1, <2>2 DEF no
<1>2. DoTyped /\ cf \in DoPlatform /\ d \in DoData /\ todo \in Seq(DoCalls)
  BY DEF DoInv, DoTyped, Typed
<1>3. /\ First \in DoCalls /\ Does(todo) = {First.do} \cup Does(Rest)
      /\ Does(Rest) = Later(todo) /\ Later(Rest) \subseteq Later(todo)
  BY <1>1, <1>2, FirstAndRest
<1>4. can \in BOOLEAN
  BY <1>2 DEF DoPlatform, Do!Domain, Do!Possible
<1>5. /\ x \in DoData /\ x.orgs = d.orgs /\ DoMatches(d, x)
      /\ x.there => d.there \/ First.do = "setId"
      /\ First.do = "forget" => ~x.there
      /\ First.do \notin {"setId", "forget"} => x = d
  <2>1. x \in Do!Data /\ x.orgs = d.orgs /\ x.shared = d.shared /\ x.owner = d.owner
    BY <1>2 DEF DoData, Do!Data, Do!Learned
  <2>2. /\ x.there => d.there \/ First.do = "setId"
        /\ First.do = "forget" => ~x.there
        /\ First.do \notin {"setId", "forget"} => x = d
    BY <1>2 DEF DoData, Do!Data, Do!Learned
  <2> HIDE DEF x
  <2> QED
    BY <1>2, <2>1, <2>2 DEF DoData, DoMatches, Do!Sensible
<1>6. y \in DoPlatform
  <2>1. CASE y = cf
    BY <1>2, <2>1
  <2>2. CASE First.do = "post" /\ y = Do!Effect(First)
    BY <1>2, <2>2 DEF Do!Effect, DoPlatform, Do!Domain, Do!Sensible, DoData, Do!Data
  <2>3. CASE First.do \in {"share", "unshare"} /\ y = Do!Effect(First)
           /\ cf.there /\ ~cf.shared
    <3>1. First.arg \in Orgs
      BY <1>3, <2>3 DEF DoCalls
    <3> QED
      BY <1>2, <2>3, <3>1 DEF Do!Effect, DoPlatform, Do!Domain, Do!Sensible
  <2>4. CASE First.do = "delete" /\ y = Do!Effect(First)
    BY <1>2, <2>4 DEF Do!Effect, DoPlatform, Do!Domain, Do!Sensible
  <2>5. First.do \notin {"post", "share", "unshare", "delete"} => y = cf
    BY DEF Do!Effect
  <2>6. First.do \in {"share", "unshare"} => 
        y = cf \/ (y = Do!Effect(First) /\ cf.there /\ ~cf.shared)
    BY DEF Do!Possible
  <2>7. y \in {cf, Do!Effect(First)}
    OBVIOUS
  <2> HIDE DEF y
  <2> QED
    BY <2>1, <2>2, <2>3, <2>4, <2>5, <2>6, <2>7
<1>7. Typed(Configs["domain"], D, O, DoCalls) /\ x \in D /\ y \in O
  BY <1>2, <1>5, <1>6 DEF DoTyped
<1> HIDE DEF y, x, can, D, O
<1>8. /\ Typed(Configs["domain"], D, O, DoCalls)' /\ pc = "call"
      /\ (can /\ Answered(y, x)) \/ (pc' = "return" /\ result' = "failed")
      /\ cf' = cf \/ (can /\ cf' = y)
  BY <1>1, <1>4, <1>7, StrictCallTyped
<1>9. DoTyped'
  BY <1>8 DEF DoTyped, D, O
<1>10. ASSUME pc' = "return", result' = "failed" PROVE DoInv'
  BY <1>8, <1>9, <1>10 DEF DoInv, DoPromise, Do!Truthful, Do!Told
<1>11. ASSUME can, Answered(y, x) PROVE DoInv'
  <2>1. ASSUME DoLeads(d, cf, todo) PROVE DoLeads(x, y, Rest)
    <3>1. todo \in Seq(DoMaking(d))
      BY <2>1 DEF DoLeads
    <3>2. First \in DoMaking(d) /\ Rest \in Seq(DoMaking(d))
      <4> HIDE DEF DoMaking
      <4> QED
        BY <1>1, <3>1, FirstAndRest
    <3>3. DoMaking(x) = DoMaking(d)
      BY <1>5 DEF DoMaking
    <3>4. "post" \notin Does(Rest) /\ "post" \notin Later(Rest)
      BY <1>3, <2>1 DEF DoLeads
    <3>5. /\ Behind(Rest, "forget") \subseteq {"nothing"}
          /\ First.do = "forget" => Does(Rest) \subseteq {"nothing"}
      <4> DEFINE w == "forget"
                 T == DoMaking(d)
      <4>1. todo \in Seq(T) /\ todo # <<>>
        BY <1>1, <3>1
      <4> HIDE DEF w, T
      <4>2. /\ Behind(Tail(todo), w) \subseteq Behind(todo, w)
            /\ Head(todo).do = w => Does(Tail(todo)) \subseteq Behind(todo, w)
        BY <4>1, BehindTail
      <4> QED
        BY <2>1, <4>2 DEF DoLeads, First, Rest, w
    <3>6. ASSUME "forget" \notin Does(Rest), x.there \/ "setId" \in Does(Rest)
          PROVE  DoDelivers(x, y, Rest)
      <4>1. First.do # "forget"
        BY <1>5, <3>5, <3>6
      <4>2. "forget" \notin Does(todo) /\ (d.there \/ "setId" \in Does(todo))
        BY <1>3, <1>5, <3>6, <4>1
      <4>3. DoDelivers(d, cf, todo)
        BY <2>1, <4>2 DEF DoLeads
      <4>4. /\ First.do = "post" => /\ y.there /\ y.orgs = {}
            /\ First.do = "share" => /\ First.arg \in d.orgs /\ y.there = cf.there
                                     /\ y.shared = cf.shared /\ y.owner = cf.owner
                                     /\ y.orgs = cf.orgs \cup ({First.arg} \ {cf.owner})
            /\ First.do = "unshare" => /\ First.arg \notin d.orgs /\ y.there = cf.there
                                       /\ y.shared = cf.shared /\ y.owner = cf.owner
                                       /\ y.orgs = cf.orgs \ {First.arg}
            /\ First.do \notin {"post", "share", "unshare"} => y = cf
        <5>1. /\ First.do = "share" => First.arg \in d.orgs
              /\ First.do = "unshare" => First.arg \notin d.orgs
              /\ First.do # "delete"
          BY <3>2 DEF DoMaking
        <5>2. y = Do!Effect(First)
          BY <1>11 DEF y, can
        <5> HIDE DEF y
        <5>3. cf \in Do!Domain
          BY <1>2 DEF DoPlatform
        <5> QED
          BY <5>1, <5>2, <5>3 DEF Do!Effect, Do!Domain
      <4>5. DoMatches(d, y) => d.owner \notin d.orgs
        BY <1>2 DEF DoData, Do!Sensible
      <4>6. ToSet(todo) = {First} \cup ToSet(Rest) /\ First = Call(First.do, First.arg)
        <5>1. ToSet(todo) = {First} \cup ToSet(Rest)
          BY <1>1, <1>2, FirstAndRest
        <5>2. First = Call(First.do, First.arg)
          BY <1>3 DEF DoCalls, Call
        <5> QED
          BY <5>1, <5>2
      <4>7. DoMatches(x, y) <=> DoMatches(d, y)
        BY <1>5 DEF DoMatches
      <4>8. CASE First.do = "post"
        <5>1. \A o \in d.orgs : Call("share", o) \in ToSet(Rest)
          BY <1>3, <4>3, <4>6, <4>8, CallFields DEF DoDelivers
        <5> QED
          BY <1>5, <3>4, <4>4, <4>8, <5>1 DEF DoDelivers
      <4>9. CASE First.do = "share"
        <5>1. "post" \notin Does(todo)
          BY <1>3, <3>4, <4>9
        <5>2. DoMatches(d, y) => DoMatches(d, cf)
          BY <4>4, <4>9 DEF DoMatches
        <5>3. ASSUME DoMatches(d, y), NEW o \in d.orgs
              PROVE  Call("share", o) \in ToSet(Rest) \/ o \in y.orgs
          <6>1. Call("share", o) \in ToSet(todo) \/ o \in cf.orgs
            BY <4>3, <5>1, <5>2, <5>3 DEF DoDelivers
          <6>2. o # cf.owner
            BY <4>5, <5>2, <5>3 DEF DoMatches
          <6>3. CASE Call("share", o) = First
            BY <4>4, <4>9, <6>2, <6>3, CallFields
          <6>4. CASE Call("share", o) # First
            BY <4>4, <4>6, <4>9, <6>1, <6>4
          <6> QED
            BY <6>3, <6>4
        <5>4. ASSUME DoMatches(d, y), NEW o \in y.orgs \ d.orgs
              PROVE  Call("unshare", o) \in ToSet(Rest)
          <6>1. o \in cf.orgs \ d.orgs
            BY <4>4, <4>9, <5>4
          <6>2. Call("unshare", o) \in ToSet(todo)
            BY <4>3, <5>1, <5>2, <5>4, <6>1 DEF DoDelivers
          <6> QED
            BY <4>6, <4>9, <6>2, CallFields
        <5>5. y.there
          BY <4>3, <4>4, <4>9, <5>1 DEF DoDelivers
        <5> QED
          BY <1>5, <3>4, <4>7, <5>3, <5>4, <5>5 DEF DoDelivers
      <4>10. CASE First.do = "unshare"
        <5>1. "post" \notin Does(todo)
          BY <1>3, <3>4, <4>10
        <5>2. DoMatches(d, y) => DoMatches(d, cf)
          BY <4>4, <4>10 DEF DoMatches
        <5>3. ASSUME DoMatches(d, y), NEW o \in d.orgs
              PROVE  Call("share", o) \in ToSet(Rest) \/ o \in y.orgs
          <6>1. Call("share", o) \in ToSet(todo) \/ o \in cf.orgs
            BY <4>3, <5>1, <5>2, <5>3 DEF DoDelivers
          <6>2. Call("share", o) # First
            BY <4>10, CallFields
          <6> QED
            BY <4>4, <4>6, <4>10, <6>1, <6>2
        <5>4. ASSUME DoMatches(d, y), NEW o \in y.orgs \ d.orgs
              PROVE  Call("unshare", o) \in ToSet(Rest)
          <6>1. o \in cf.orgs \ d.orgs /\ o # First.arg
            BY <4>4, <4>10, <5>4
          <6>2. Call("unshare", o) \in ToSet(todo)
            BY <4>3, <5>1, <5>2, <5>4, <6>1 DEF DoDelivers
          <6> QED
            BY <4>6, <6>1, <6>2, CallFields
        <5>5. y.there
          BY <4>3, <4>4, <4>10, <5>1 DEF DoDelivers
        <5> QED
          BY <1>5, <3>4, <4>7, <5>3, <5>4, <5>5 DEF DoDelivers
      <4>11. CASE First.do \notin {"post", "share", "unshare"}
        <5>1. "post" \notin Does(todo) /\ y = cf
          BY <1>3, <3>4, <4>4, <4>11
        <5>2. ASSUME DoMatches(d, y), NEW o \in d.orgs
              PROVE  Call("share", o) \in ToSet(Rest) \/ o \in y.orgs
          <6>1. Call("share", o) \in ToSet(todo) \/ o \in cf.orgs
            BY <4>3, <5>1, <5>2 DEF DoDelivers
          <6> QED
            BY <4>6, <4>11, <5>1, <6>1, CallFields
        <5>3. ASSUME DoMatches(d, y), NEW o \in y.orgs \ d.orgs
              PROVE  Call("unshare", o) \in ToSet(Rest)
          <6>1. Call("unshare", o) \in ToSet(todo)
            BY <4>3, <5>1, <5>3 DEF DoDelivers
          <6> QED
            BY <4>6, <4>11, <6>1, CallFields
        <5>4. y.there
          BY <4>3, <5>1 DEF DoDelivers
        <5> QED
          BY <1>5, <3>4, <4>7, <5>2, <5>3, <5>4 DEF DoDelivers
      <4> QED
        BY <4>8, <4>9, <4>10, <4>11
    <3> QED
      BY <3>2, <3>3, <3>4, <3>5, <3>6 DEF DoLeads
  <2>2. DoPromise'
    BY <1>3, <1>5, <1>8, <1>11, <2>1 DEF DoInv, DoPromise, Answered
  <2> QED
    BY <1>8, <1>9, <1>11, <2>2 DEF DoInv, Do!Truthful, Do!Told, Answered
<1>12. Do!KeepsShares
  <2> SUFFICES ASSUME op \in {"create", "update"}, can, cf' = y
               PROVE  cf.orgs \cap d.orgs \subseteq y.orgs
    BY <1>8 DEF Do!KeepsShares
  <2>1. todo \in Seq(DoMaking(d))
    BY <1>8 DEF DoInv, DoPromise, DoLeads
  <2>2. First \in DoMaking(d)
    <3> HIDE DEF DoMaking
    <3> QED
      BY <1>1, <2>1, FirstAndRest
  <2>3. First.do = "post" => cf.orgs = {}
    BY <1>2 DEF can, Do!Possible, DoPlatform
  <2> QED
    BY <1>2, <2>2, <2>3 DEF y, can, Do!Effect, DoMaking, DoPlatform, Do!Domain
<1> QED
  BY <1>8, <1>9, <1>10, <1>11, <1>12

(* An empty plan has what was read of the domain. *)
LEMMA DoRefreshStep == DoInv /\ Do!Refresh => DoInv' /\ Do!AsAsked'
<1> SUFFICES ASSUME DoInv, Do!Refresh PROVE DoInv' /\ Do!AsAsked'
  OBVIOUS
<1>1. DoTyped /\ cfg \in Configs["domain"] /\ tf \in DoData /\ cf \in DoPlatform
  BY DEF DoInv, DoTyped, Typed, Core
<1>2. Do!Absent \in DoData /\ ~Do!Absent.there
  BY <1>1, DoPlanned
<1>3. PICK new \in DoData :
        /\ AnyMishap /\ Refreshed(new)
        /\ new.there => /\ new.shared = cf.shared /\ new.owner = cf.owner
                        /\ new.orgs = cf.orgs
  <2> DEFINE A == Do!Absent
             r == Do!Read
  <2>1. AnyMishap /\ (Refreshed(r) \/ Refreshed(A))
    BY DoCore DEF Do!Refresh, Do!Vanishes, AnyMishap
  <2>2. (IF cf.shared THEN {} ELSE Do!Listing \ {cf.owner}) = cf.orgs
    <3>1. CASE cf.shared
      BY <1>1, <3>1 DEF DoPlatform, Do!Sensible
    <3>2. CASE ~cf.shared
      BY <1>1, <3>2 DEF Do!Listing, DoPlatform, Do!Sensible
    <3> QED
      BY <3>1, <3>2
  <2>3. r = [tf EXCEPT !.shared = cf.shared, !.owner = cf.owner, !.orgs = cf.orgs]
    BY <2>2 DEF Do!Read
  <2>4. /\ r \in DoData /\ r.shared = cf.shared /\ r.owner = cf.owner
        /\ r.orgs = cf.orgs
    <3> HIDE DEF r
    <3> QED
      BY <1>1, <2>3 DEF DoData, Do!Data, DoPlatform, Do!Domain, Do!Sensible
  <2> HIDE DEF A, r
  <2> QED
    BY <1>2, <2>1, <2>4 DEF A
<1>4. DoTyped' /\ pc' = "plan" /\ tf' = new /\ UNCHANGED <<cfg, cf>>
  BY <1>1, <1>3, RefreshTyped DEF DoTyped, Refreshed
<1>5. DoInv'
  BY <1>4 DEF DoInv, DoPromise, Do!Truthful, Do!Told
<1>6. Do!AsAsked'
  BY <1>3, <1>4 DEF Do!AsAsked, Do!InSync, Do!Planned
<1> QED
  BY <1>5, <1>6

(* and by the steps that leave an operation that is under way alone. *)
LEMMA DoQuietStep ==
  DoInv /\ (\/ Do!NothingToDo \/ Do!Finish \/ Do!EndOperation(Do!Absent)
            \/ Do!EditConfig \/ Do!OthersChange \/ Do!Crash(Do!Absent))
    => DoInv'
<1> SUFFICES ASSUME DoInv,
                    \/ Do!NothingToDo \/ Do!Finish \/ Do!EndOperation(Do!Absent)
                    \/ Do!EditConfig \/ Do!OthersChange \/ Do!Crash(Do!Absent)
             PROVE  DoInv'
  OBVIOUS
<1> DEFINE A == Do!Absent
           D == DoData
           O == DoPlatform
<1>1. DoTyped /\ cfg \in Configs["domain"] /\ cf \in O
  BY DEF DoInv, DoTyped, Typed, Core
<1>2. A \in D
  BY <1>1, DoPlanned
<1>3. CanTaint(D)
  BY DEF CanTaint, DoData, Do!Data, Do!Sensible
<1>4. Do!OthersChange => \E new \in O : Others(new)
  BY <1>1, DoCore DEF Do!OthersChange, DoPlatform, Do!Domain, Do!Sensible
<1>5. \/ \E s \in BOOLEAN : Settled(s)
      \/ Finish \/ EndOperation(A) \/ Crash(A) \/ Panics \/ Again
      \/ EditOf(Configs["domain"]) \/ \E new \in O : Others(new)
  BY <1>4, DoCore DEF Do!NothingToDo, Do!InSync
<1> HIDE DEF A, D, O
<1>6. Typed(Configs["domain"], D, O, DoCalls)
  BY <1>1 DEF DoTyped, D, O
<1>7. /\ Typed(Configs["domain"], D, O, DoCalls)' /\ pc' # "call"
      /\ pc' = "return" => Finish
  BY <1>2, <1>3, <1>5, <1>6, QuietTyped
<1>8. DoTyped'
  BY <1>7 DEF DoTyped, D, O
<1>9. DoPromise'
  BY <1>7 DEF DoPromise
<1>10. Do!Truthful'
  <2> SUFFICES ASSUME Do!Told' PROVE Do!Truthful'
    BY DEF Do!Truthful
  <2>1. /\ pc = "call" /\ todo = <<>> /\ op \in {"create", "update"} /\ d.there
        /\ UNCHANGED <<cf, d, tf, op, mishaps>>
    BY <1>7 DEF Do!Told, Finish
  <2>2. DoLeads(d, cf, todo)
    BY <2>1 DEF DoInv, DoPromise
  <2>3. cf.there /\ (cf.shared = d.shared /\ cf.owner = d.owner => cf.orgs = d.orgs)
    BY <1>1, <2>1, <2>2, Few DEF DoLeads, DoDelivers, DoMatches
  <2> QED
    BY <2>1, <2>3 DEF Do!Truthful
<1> QED
  BY <1>8, <1>9, <1>10 DEF DoInv

(* It holds at the start, *)
LEMMA DoInitInv == Do!Init => DoInv
<1> SUFFICES ASSUME Do!Init PROVE DoInv
  OBVIOUS
<1> DEFINE A == Do!Absent
           D == DoData
           O == DoPlatform
<1>1. /\ cf \in O /\ cfg \in Configs["domain"] /\ tf = A /\ d = A /\ pc = "idle"
      /\ op = "none" /\ todo = <<>> /\ result = "none" /\ edits = 0 /\ mishaps = 0
  BY DEF Do!Init, Do!Idle, DoPlatform
<1>2. A \in D
  BY <1>1, DoPlanned
<1> HIDE DEF A, D, O
<1>3. Typed(Configs["domain"], D, O, DoCalls)
  BY <1>1, <1>2, InitTyped
<1>4. DoTyped
  BY <1>3 DEF DoTyped, D, O
<1> QED
  BY <1>1, <1>4 DEF DoInv, DoPromise, Do!Truthful, Do!Told

(* it is kept by every step of a domain, *)
LEMMA DoStep ==
  DoInv /\ (Do!Run \/ Do!Operate \/ Do!Disturb)
    => DoInv' /\ (pc = "call" => Do!KeepsShares) /\ (Refreshes => Do!AsAsked')
<1> SUFFICES ASSUME DoInv, Do!Run \/ Do!Operate \/ Do!Disturb
             PROVE  DoInv' /\ (pc = "call" => Do!KeepsShares) /\ (Refreshes => Do!AsAsked')
  OBVIOUS
<1>1. DoInv'
  BY DoRefreshStep, DoCreateStep, DoUpdateStep, DoDeletionStep, DoPerformStep, DoQuietStep
  DEF Do!Run, Do!Operate, Do!Disturb
<1>2. ASSUME Refreshes PROVE Do!Refresh
  BY <1>2, OnlyRefreshes, DoCore
  DEF Refreshes, Do!Run, Do!Operate, Do!Disturb, Do!NothingToDo, Do!Create, Do!Adopt,
      Do!Make, Do!Update, Do!Replace, Do!Perform, Do!Destroy, Do!OthersChange
<1>3. Refreshes => Do!AsAsked'
  BY <1>2, DoRefreshStep
<1>4. ASSUME pc = "call" PROVE Do!Perform \/ UNCHANGED cf
  BY <1>4, OnlyCalls, DoCore
  DEF Do!Run, Do!Operate, Do!Disturb, Do!Refresh, Do!NothingToDo, Do!Create, Do!Adopt,
      Do!Make, Do!Update, Do!Replace, Do!Destroy, Do!OthersChange
<1>5. pc = "call" => Do!KeepsShares
  BY <1>4, DoPerformStep DEF Do!KeepsShares
<1> QED
  BY <1>1, <1>3, <1>5

(* and by a step that changes nothing. *)
LEMMA DoStutter == DoInv /\ UNCHANGED vars => DoInv'
<1> SUFFICES ASSUME DoInv, UNCHANGED vars PROVE DoInv'
  OBVIOUS
<1>1. DoTyped'
  BY StutterTyped DEF DoInv, DoTyped
<1> QED
  BY <1>1 DEF vars, DoInv, DoPromise, Do!Truthful, Do!Told

-----------------------------------------------------------------------------
(* Groups of environment variables.                                         *)
LEMMA EnCore ==
  /\ \A what, arg : En!Call(what, arg) = Call(what, arg)
  /\ (En!NoMishap <=> NoMishap) /\ (\A where : En!Mishap(where) <=> Mishap(where))
  /\ \A new : (En!Refreshed(new) <=> Refreshed(new)) /\ (En!Others(new) <=> Others(new))
  /\ \A s : En!Settled(s) <=> Settled(s)
  /\ \A what, x, calls : En!Begin(what, x, calls) <=> Begin(what, x, calls)
  /\ \A what, x : En!GivesUp(what, x) <=> GivesUp(what, x)
  /\ \A calls : En!Removed(calls) <=> Removed(calls)
  /\ \A new, x, possible, dropped :
       En!Calling(new, x, possible, dropped) <=> Calling(new, x, possible, dropped)
  /\ \A x : (En!EndOperation(x) <=> EndOperation(x)) /\ (En!Crash(x) <=> Crash(x))
  /\ (En!Finish <=> Finish) /\ (En!EditConfig <=> EditOf(Configs["env_var_group"]))
  /\ En!Told <=> Told
  /\ En!CoreOK <=> Core(Configs["env_var_group"])
BY DEF En!Call, En!NoMishap, En!Mishap, En!Answers, En!Answer, En!Done,
       En!Refreshed, En!Settled, En!Begin, En!GivesUp, En!Calling, En!Finish,
       En!EndOperation, En!Crash, En!EditConfig, En!Others, En!Removed, En!Idle,
       En!Told, En!CoreOK, Call, NoMishap, Mishap, Answers, Answer, Done,
       Refreshed, Settled, Begin, GivesUp, Calling, Finish, EndOperation, Crash,
       Others, Removed, Idle, Told, EditOf, Core

EnCalls == [do : {"setStaging", "setRunning"}, arg : En!EnvMap]

EnMaking(x) == {c \in EnCalls : /\ c.do = "setStaging" => c.arg = En!Staging(x.vars)
                                /\ c.do = "setRunning" => c.arg = En!Running(x.vars)}

(* The calls q give the groups y the variables of x; or Create "what" found *)
(* them there.                                                              *)
EnLeads(x, y, q, what) ==
  \/ /\ q \in Seq(EnMaking(x))
     /\ "setStaging" \in Does(q) \/ y.staging = En!Staging(x.vars)
     /\ "setRunning" \in Does(q) \/ y.running = En!Running(x.vars)
  \/ what = "create" /\ q = <<>> /\ x.vars \subseteq En!ToSchema(y)

EnTyped == Typed(Configs["env_var_group"], En!Data, En!VarGroups, EnCalls)
EnPromise == pc = "call" /\ op \in {"create", "update"} => EnLeads(d, cf, todo, op)
EnInv == EnTyped /\ EnPromise /\ En!Truthful

(* What a plan asks for, and what Terraform keeps of what is gone, for an   *)
(* environment variable group, are resource data.                           *)
LEMMA EnPlanned ==
  ASSUME cfg \in Configs["env_var_group"]
  PROVE  /\ En!Planned(TRUE) \in En!Data /\ En!Absent \in En!Data
         /\ cfg \in SUBSET En!Entry /\ En!Planned(TRUE).vars = cfg
         /\ En!Absent.vars = cfg /\ ~En!Absent.there
<1>1. cfg \in En!Config
  BY ResourcesAssumption DEF En!EnvVarGroupsAssumption, ResourcesAssumption
<1> QED
  BY <1>1 DEF En!Config, En!Data, En!Planned, En!Absent

(* resourceObject makes a map (env_var_group.go:118).                       *)
LEMMA EnMapOf ==
  ASSUME NEW entries \in SUBSET En!Entry
  PROVE  En!MapOf(entries) \in En!EnvMap
<1> DEFINE K == {e.key : e \in entries}
<1>1. K \in SUBSET Keys
  BY DEF En!Entry
<1>2. \A k \in K : (CHOOSE e \in entries : e.key = k).value \in Values
  BY DEF En!Entry
<1>3. En!MapOf(entries) = [k \in K |-> (CHOOSE e \in entries : e.key = k).value]
  BY DEF En!MapOf
<1> HIDE DEF K
<1>4. En!MapOf(entries) \in [K -> Values]
  BY <1>2, <1>3
<1> QED
  BY <1>1, <1>4 DEF En!EnvMap

(* What an entry is for decides in which maps it is.                        *)
LEMMA EnMaps ==
  ASSUME NEW entries \in SUBSET En!Entry
  PROVE  En!Running(entries) \in En!EnvMap /\ En!Staging(entries) \in En!EnvMap
<1>1. {e \in entries : e.running} \in SUBSET En!Entry /\ {e \in entries : e.staging} \in SUBSET En!Entry
  OBVIOUS
<1> QED
  BY <1>1, EnMapOf DEF En!Running, En!Staging

(* What the schema of a group makes of its variables. *)
LEMMA EnSchema ==
  ASSUME NEW g \in En!VarGroups
  PROVE  En!ToSchema(g) \in SUBSET En!Entry
<1>1. PICK K \in SUBSET Keys, L \in SUBSET Keys : g.running \in [K -> Values] /\ g.staging \in [L -> Values]
  BY DEF En!VarGroups, En!EnvMap
<1> SUFFICES ASSUME NEW e \in En!ToSchema(g) PROVE e \in En!Entry
  OBVIOUS
<1>2. PICK k \in DOMAIN g.running \cup DOMAIN g.staging :
        e = [key |-> k, value |-> IF k \in DOMAIN g.running THEN g.running[k] ELSE g.staging[k],
             running |-> k \in DOMAIN g.running, staging |-> k \in DOMAIN g.staging]
  BY DEF En!ToSchema
<1>3. k \in Keys /\ (IF k \in DOMAIN g.running THEN g.running[k] ELSE g.staging[k]) \in Values
  BY <1>1
<1> QED
  BY <1>2, <1>3 DEF En!Entry

(* What is written back of the maps that were read: the maps themselves,    *)
(* but for the values of staging that a running one hides                   *)
(* (env_var_group.go:33).                                                   *)
LEMMA EnSchemaMaps ==
  ASSUME NEW g \in En!VarGroups
  PROVE  LET s == En!ToSchema(g)
         IN /\ g.running = En!Running(s)
            /\ DOMAIN g.staging = DOMAIN En!Staging(s)
            /\ \A k \in DOMAIN g.staging \ DOMAIN g.running : g.staging[k] = En!Staging(s)[k]
<1> DEFINE K == DOMAIN g.running
           L == DOMAIN g.staging
           v(k) == IF k \in K THEN g.running[k] ELSE g.staging[k]
           entry(k) == [key |-> k, value |-> v(k), running |-> k \in K, staging |-> k \in L]
           s == En!ToSchema(g)
           r == {e \in s : e.running}
           t == {e \in s : e.staging}
<1>1. g.running = [k \in K |-> g.running[k]] /\ g.staging = [k \in L |-> g.staging[k]]
  BY DEF En!VarGroups, En!EnvMap
<1>2. s = {entry(k) : k \in K \cup L}
  BY DEF En!ToSchema
<1>3. \A k : /\ entry(k).key = k /\ entry(k).value = v(k)
             /\ (entry(k).running <=> k \in K) /\ (entry(k).staging <=> k \in L)
  OBVIOUS
<1> HIDE DEF entry, v, s, K, L
<1>4. r = {entry(k) : k \in K} /\ t = {entry(k) : k \in L}
  BY <1>2, <1>3
<1>5. En!Running(s) = [k \in {e.key : e \in r} |-> (CHOOSE e \in r : e.key = k).value]
      /\ En!Staging(s) = [k \in {e.key : e \in t} |-> (CHOOSE e \in t : e.key = k).value]
  BY DEF En!Running, En!Staging, En!MapOf
<1> HIDE DEF r, t
<1>6. {e.key : e \in r} = K /\ {e.key : e \in t} = L
  BY <1>3, <1>4
<1>7. /\ \A k \in K : (CHOOSE e \in r : e.key = k) = entry(k)
      /\ \A k \in L : (CHOOSE e \in t : e.key = k) = entry(k)
  <2>1. ASSUME NEW k \in K PROVE (CHOOSE e \in r : e.key = k) = entry(k)
    <3>1. entry(k) \in r /\ entry(k).key = k /\ \A e \in r : e.key = k => e = entry(k)
      BY <1>3, <1>4
    <3> QED
      BY <3>1
  <2>2. ASSUME NEW k \in L PROVE (CHOOSE e \in t : e.key = k) = entry(k)
    <3>1. entry(k) \in t /\ entry(k).key = k /\ \A e \in t : e.key = k => e = entry(k)
      BY <1>3, <1>4
    <3> QED
      BY <3>1
  <2> QED
    BY <2>1, <2>2
<1>8. En!Running(s) = [k \in K |-> v(k)] /\ En!Staging(s) = [k \in L |-> v(k)]
  <2> DEFINE rv(k) == (CHOOSE e \in r : e.key = k).value
             tv(k) == (CHOOSE e \in t : e.key = k).value
  <2>1. (\A k \in K : rv(k) = v(k)) /\ (\A k \in L : tv(k) = v(k))
    BY <1>3, <1>7
  <2>2. En!Running(s) = [k \in {e.key : e \in r} |-> rv(k)]
        /\ En!Staging(s) = [k \in {e.key : e \in t} |-> tv(k)]
    BY <1>5
  <2> HIDE DEF rv, tv
  <2>3. En!Running(s) = [k \in K |-> rv(k)] /\ En!Staging(s) = [k \in L |-> tv(k)]
    BY <1>6, <2>2
  <2> QED
    BY <2>1, <2>3
<1>9. /\ \A k \in K : v(k) = g.running[k]
      /\ \A k \in L \ K : v(k) = g.staging[k]
  BY DEF v
<1>10. g.running = En!Running(s)
  BY <1>1, <1>8, <1>9
<1> QED
  BY <1>8, <1>9, <1>10 DEF s, K, L

(* An operation on an environment variable group whose calls lead to what   *)
(* it was asked begins with the invariant.                                  *)
LEMMA EnBegins ==
  ASSUME EnTyped, NEW what \in {"create", "update"}, NEW x \in En!Data,
         NEW calls \in Seq(EnCalls), AnyMishap, Begin(what, x, calls),
         TRUE => EnLeads(x, cf, calls, what)
  PROVE  EnInv'
<1>1. /\ EnTyped' /\ UNCHANGED <<cf>> /\ pc' = "call" /\ op' = what /\ d' = x
      /\ todo' = calls
  BY BeginTyped DEF EnTyped
<1> QED
  BY <1>1 DEF EnInv, EnPromise, En!Truthful, En!Told

(* The calls that set a group, both for a create and for an update. *)
LEMMA EnSetCalls ==
  ASSUME NEW x, x.vars = cfg, cfg \in SUBSET En!Entry
  PROVE  /\ En!SetCalls \in Seq(EnMaking(x)) /\ En!SetCalls \in Seq(EnCalls)
         /\ Does(En!SetCalls) = {"setStaging", "setRunning"}
<1> DEFINE s == Call("setStaging", En!Staging(cfg))
           r == Call("setRunning", En!Running(cfg))
<1>1. s \in EnMaking(x) /\ r \in EnMaking(x) /\ EnMaking(x) \subseteq EnCalls
      /\ s.do = "setStaging" /\ r.do = "setRunning"
  BY EnMaps DEF EnMaking, EnCalls, Call
<1>2. En!SetCalls = <<s, r>>
  BY EnCore DEF En!SetCalls
<1> HIDE DEF s, r, EnMaking, EnCalls
<1>3. <<s, r>> \in Seq(EnMaking(x)) /\ <<s, r>> \in Seq(EnCalls)
  BY <1>1
<1> QED
  BY <1>1, <1>2, <1>3, Few

(* The invariant of an environment variable group is kept by Create, *)
LEMMA EnCreateStep == EnInv /\ En!Create => EnInv'
<1> SUFFICES ASSUME EnInv, En!Create PROVE EnInv'
  OBVIOUS
<1>1. EnTyped /\ cfg \in Configs["env_var_group"]
  BY DEF EnInv, EnTyped, Typed, Core
<1> DEFINE P == En!Planned(TRUE)
           A == En!Absent
           q == En!SetCalls
<1>2. \/ cfg \subseteq En!ToSchema(cf) /\ AnyMishap /\ Begin("create", P, <<>>)
      \/ AnyMishap /\ Begin("create", A, q)
  BY EnCore DEF En!Create, AnyMishap
<1>3. P \in En!Data /\ P.vars = cfg /\ A \in En!Data /\ A.vars = cfg /\ cfg \in SUBSET En!Entry
  BY <1>1, EnPlanned
<1> HIDE DEF P, A, q
<1>4. CASE cfg \subseteq En!ToSchema(cf) /\ AnyMishap /\ Begin("create", P, <<>>)
  <2>1. EnLeads(P, cf, <<>>, "create") /\ <<>> \in Seq(EnCalls)
    BY <1>3, <1>4 DEF EnLeads
  <2> QED
    BY <1>1, <1>3, <1>4, <2>1, EnBegins
<1>5. CASE AnyMishap /\ Begin("create", A, q)
  <2>1. q \in Seq(EnMaking(A)) /\ q \in Seq(EnCalls) /\ Does(q) = {"setStaging", "setRunning"}
    BY <1>3, EnSetCalls DEF q
  <2>2. EnLeads(A, cf, q, "create")
    BY <2>1 DEF EnLeads
  <2> QED
    BY <1>1, <1>3, <1>5, <2>1, <2>2, EnBegins
<1> QED
  BY <1>2, <1>4, <1>5

(* by Update, *)
LEMMA EnUpdateStep == EnInv /\ En!Update => EnInv'
<1> SUFFICES ASSUME EnInv, En!Update PROVE EnInv'
  OBVIOUS
<1>1. EnTyped /\ cfg \in Configs["env_var_group"]
  BY DEF EnInv, EnTyped, Typed, Core
<1> DEFINE P == En!Planned(TRUE)
           q == En!SetCalls
<1>2. AnyMishap /\ Begin("update", P, q)
  BY EnCore DEF En!Update, AnyMishap
<1>3. P \in En!Data /\ P.vars = cfg /\ cfg \in SUBSET En!Entry
  BY <1>1, EnPlanned
<1> HIDE DEF P, q
<1>4. q \in Seq(EnMaking(P)) /\ q \in Seq(EnCalls) /\ Does(q) = {"setStaging", "setRunning"}
  BY <1>3, EnSetCalls DEF q
<1>5. EnLeads(P, cf, q, "update")
  BY <1>4 DEF EnLeads
<1> QED
  BY <1>1, <1>2, <1>3, <1>4, <1>5, EnBegins

(* by a deletion, in a destroy or a replacement, *)
LEMMA EnDeletionStep == EnInv /\ (En!Destroy) => EnInv'
<1> SUFFICES ASSUME EnInv, En!Destroy PROVE EnInv'
  OBVIOUS
<1> DEFINE q == En!DeleteCalls
<1>1. EnTyped /\ tf \in En!Data
  BY DEF EnInv, EnTyped, Typed
<1>2. q \in Seq(EnCalls)
  <2>1. <<>> \in [{} -> Values]
    OBVIOUS
  <2>2. <<>> \in En!EnvMap
    BY <2>1 DEF En!EnvMap
  <2>3. Call("setRunning", <<>>) \in EnCalls /\ Call("setStaging", <<>>) \in EnCalls
    BY <2>2 DEF EnCalls, Call
  <2> QED
    BY <2>3, EnCore DEF En!DeleteCalls
<1>3. (AnyMishap /\ Begin("delete", tf, q)) \/ Removed(q)
  BY EnCore DEF En!Destroy, AnyMishap
<1> HIDE DEF q
<1>4. EnTyped' /\ pc' = "call" /\ op' = "delete"
  BY <1>1, <1>2, <1>3, BeginTyped DEF EnTyped
<1> QED
  BY <1>4 DEF EnInv, EnPromise, En!Truthful, En!Told

(* by each call and each of its answers, *)
LEMMA EnPerformStep == EnInv /\ En!Perform => EnInv'
<1> SUFFICES ASSUME EnInv, En!Perform PROVE EnInv'
  OBVIOUS
<1> DEFINE y == En!Effect(First)
           x == [d EXCEPT !.there = d.there \/ First.do = "setRunning"]
           can == TRUE
           D == En!Data
           O == En!VarGroups
<1>1. Calling(y, x, can, FALSE) /\ todo # <<>>
  BY EnCore DEF En!Perform, First
<1>2. EnTyped /\ cf \in En!VarGroups /\ d \in En!Data /\ todo \in Seq(EnCalls)
  BY DEF EnInv, EnTyped, Typed
<1>3. /\ First \in EnCalls /\ Does(todo) = {First.do} \cup Does(Rest)
      /\ Does(Rest) = Later(todo) /\ Later(Rest) \subseteq Later(todo)
  BY <1>1, <1>2, FirstAndRest
<1>4. can \in BOOLEAN
  BY <1>2 DEF En!VarGroups
<1>5. x \in En!Data /\ x.vars = d.vars
  BY <1>2 DEF En!Data
<1>6. y \in En!VarGroups
  BY <1>2, <1>3, ResourcesAssumption
  DEF En!Effect, En!VarGroups, En!Data, EnCalls, En!EnvVarGroupsAssumption, ResourcesAssumption
<1>7. Typed(Configs["env_var_group"], D, O, EnCalls) /\ x \in D /\ y \in O
  BY <1>2, <1>5, <1>6 DEF EnTyped
<1> HIDE DEF y, x, can, D, O
<1>8. /\ Typed(Configs["env_var_group"], D, O, EnCalls)' /\ pc = "call"
      /\ (can /\ Answered(y, x)) \/ (pc' = "return" /\ result' = "failed")
  BY <1>1, <1>4, <1>7, StrictCallTyped
<1>9. EnTyped'
  BY <1>8 DEF EnTyped, D, O
<1>10. CASE pc' = "return" /\ result' = "failed"
  BY <1>8, <1>9, <1>10 DEF EnInv, EnPromise, En!Truthful, En!Told
<1>11. CASE can /\ Answered(y, x)
  <2>1. ASSUME EnLeads(d, cf, todo, op) PROVE EnLeads(x, y, Rest, op)
    <3>1. /\ todo \in Seq(EnMaking(d))
          /\ "setStaging" \in Does(todo) \/ cf.staging = En!Staging(d.vars)
          /\ "setRunning" \in Does(todo) \/ cf.running = En!Running(d.vars)
      BY <1>1, <2>1 DEF EnLeads
    <3>2. First \in EnMaking(d) /\ Rest \in Seq(EnMaking(d))
      <4> HIDE DEF EnMaking
      <4> QED
        BY <1>1, <3>1, FirstAndRest
    <3>3. EnMaking(x) = EnMaking(d)
      BY <1>5 DEF EnMaking
    <3>4. /\ "setStaging" \in Does(Rest) \/ y.staging = En!Staging(d.vars)
          /\ "setRunning" \in Does(Rest) \/ y.running = En!Running(d.vars)
      BY <1>2, <1>3, <3>1, <3>2 DEF EnMaking, EnCalls, En!Effect, y, En!VarGroups
    <3> QED
      BY <1>5, <3>2, <3>3, <3>4 DEF EnLeads
  <2>2. EnPromise'
    BY <1>3, <1>5, <1>8, <1>11, <2>1 DEF EnInv, EnPromise, Answered
  <2> QED
    BY <1>8, <1>9, <1>11, <2>2 DEF EnInv, En!Truthful, En!Told, Answered
<1> QED
  BY <1>8, <1>9, <1>10, <1>11

(* An empty plan compares with what is written back of the maps.            *)
LEMMA EnRefreshStep == EnInv /\ En!Refresh => EnInv' /\ En!OnlyStagedValuesHide'
<1> SUFFICES ASSUME EnInv, En!Refresh PROVE EnInv' /\ En!OnlyStagedValuesHide'
  OBVIOUS
<1>1. EnTyped /\ cfg \in Configs["env_var_group"] /\ tf \in En!Data /\ cf \in En!VarGroups
  BY DEF EnInv, EnTyped, Typed, Core
<1>2. En!Absent \in En!Data /\ ~En!Absent.there
  BY <1>1, EnPlanned
<1>3. PICK new \in En!Data :
        AnyMishap /\ Refreshed(new) /\ (new.there => new.vars = En!ToSchema(cf))
  <2> DEFINE A == En!Absent
             s == En!ToSchema(cf)
             r == [tf EXCEPT !.vars = s]
  <2>1. NoMishap /\ (Refreshed(r) \/ Refreshed(A))
    BY EnCore DEF En!Refresh
  <2>2. s \in SUBSET En!Entry
    BY <1>1, EnSchema
  <2> HIDE DEF A, s
  <2>3. r \in En!Data /\ r.vars = s
    BY <1>1, <2>2 DEF En!Data
  <2> HIDE DEF r
  <2> QED
    BY <1>2, <2>1, <2>3 DEF AnyMishap, A, s
<1>4. EnTyped' /\ pc' = "plan" /\ tf' = new /\ UNCHANGED <<cfg, cf>>
  BY <1>1, <1>3, RefreshTyped DEF EnTyped, Refreshed
<1>5. EnInv'
  BY <1>4 DEF EnInv, EnPromise, En!Truthful, En!Told
<1>6. En!OnlyStagedValuesHide'
  <2> SUFFICES ASSUME En!InSync' PROVE En!OnlyStagedValuesHide'
    BY DEF En!OnlyStagedValuesHide
  <2>1. cfg' = En!ToSchema(cf) /\ cf' = cf
    BY <1>3, <1>4 DEF En!InSync, En!Planned
  <2> QED
    BY <1>1, <2>1, EnSchemaMaps DEF En!OnlyStagedValuesHide
<1> QED
  BY <1>5, <1>6

(* and by the steps that leave an operation that is under way alone. *)
LEMMA EnQuietStep ==
  EnInv /\ (\/ En!NothingToDo \/ En!Finish \/ En!EndOperation(En!Absent)
            \/ En!EditConfig \/ En!OthersChange \/ En!Crash(En!Absent))
    => EnInv'
<1> SUFFICES ASSUME EnInv,
                    \/ En!NothingToDo \/ En!Finish \/ En!EndOperation(En!Absent)
                    \/ En!EditConfig \/ En!OthersChange \/ En!Crash(En!Absent)
             PROVE  EnInv'
  OBVIOUS
<1> DEFINE A == En!Absent
           D == En!Data
           O == En!VarGroups
<1>1. EnTyped /\ cfg \in Configs["env_var_group"] /\ cf \in O
  BY DEF EnInv, EnTyped, Typed, Core
<1>2. A \in D
  BY <1>1, EnPlanned
<1>3. CanTaint(D)
  BY DEF CanTaint, En!Data
<1>4. En!OthersChange => \E new \in O : Others(new)
  BY <1>1, EnCore DEF En!OthersChange, En!VarGroups, En!EnvMap
<1>5. \/ \E s \in BOOLEAN : Settled(s)
      \/ Finish \/ EndOperation(A) \/ Crash(A) \/ Panics \/ Again
      \/ EditOf(Configs["env_var_group"]) \/ \E new \in O : Others(new)
  BY <1>4, EnCore DEF En!NothingToDo, En!InSync
<1> HIDE DEF A, D, O
<1>6. Typed(Configs["env_var_group"], D, O, EnCalls)
  BY <1>1 DEF EnTyped, D, O
<1>7. /\ Typed(Configs["env_var_group"], D, O, EnCalls)' /\ pc' # "call"
      /\ pc' = "return" => Finish
  BY <1>2, <1>3, <1>5, <1>6, QuietTyped
<1>8. EnTyped'
  BY <1>7 DEF EnTyped, D, O
<1>9. EnPromise'
  BY <1>7 DEF EnPromise
<1>10. En!Truthful'
  <2> SUFFICES ASSUME En!Told' PROVE En!Truthful'
    BY DEF En!Truthful
  <2>1. /\ pc = "call" /\ todo = <<>> /\ op \in {"create", "update"} /\ d.there
        /\ UNCHANGED <<cf, d, tf, op, mishaps>>
    BY <1>7 DEF En!Told, Finish
  <2>2. EnLeads(d, cf, todo, op)
    BY <2>1 DEF EnInv, EnPromise
  <2>3. \/ cf = [running |-> En!Running(d.vars), staging |-> En!Staging(d.vars)]
        \/ op = "create" /\ d.vars \subseteq En!ToSchema(cf)
    <3>1. cf = [running |-> cf.running, staging |-> cf.staging]
      BY <1>1 DEF O, En!VarGroups
    <3>2. \/ cf.running = En!Running(d.vars) /\ cf.staging = En!Staging(d.vars)
          \/ op = "create" /\ d.vars \subseteq En!ToSchema(cf)
      BY <2>1, <2>2, Few DEF EnLeads
    <3> QED
      BY <3>1, <3>2
  <2> QED
    BY <2>1, <2>3 DEF En!Truthful
<1> QED
  BY <1>8, <1>9, <1>10 DEF EnInv

(* It holds at the start, *)
LEMMA EnInitInv == En!Init => EnInv
<1> SUFFICES ASSUME En!Init PROVE EnInv
  OBVIOUS
<1> DEFINE A == En!Absent
           D == En!Data
           O == En!VarGroups
<1>1. /\ cf \in O /\ cfg \in Configs["env_var_group"] /\ tf = A /\ d = A /\ pc = "idle"
      /\ op = "none" /\ todo = <<>> /\ result = "none" /\ edits = 0 /\ mishaps = 0
  BY DEF En!Init, En!Idle
<1>2. A \in D
  BY <1>1, EnPlanned
<1> HIDE DEF A, D, O
<1>3. Typed(Configs["env_var_group"], D, O, EnCalls)
  BY <1>1, <1>2, InitTyped
<1>4. EnTyped
  BY <1>3 DEF EnTyped, D, O
<1> QED
  BY <1>1, <1>4 DEF EnInv, EnPromise, En!Truthful, En!Told

(* it is kept by every step of an environment variable group, *)
LEMMA EnStep ==
  EnInv /\ (En!Run \/ En!Operate \/ En!Disturb) => EnInv' /\ (Refreshes => En!OnlyStagedValuesHide')
<1> SUFFICES ASSUME EnInv, En!Run \/ En!Operate \/ En!Disturb
             PROVE  EnInv' /\ (Refreshes => En!OnlyStagedValuesHide')
  OBVIOUS
<1>1. EnInv'
  BY EnRefreshStep, EnCreateStep, EnUpdateStep, EnDeletionStep, EnPerformStep, EnQuietStep
  DEF En!Run, En!Operate, En!Disturb
<1>2. ASSUME Refreshes PROVE En!Refresh
  BY <1>2, OnlyRefreshes, EnCore
  DEF Refreshes, En!Run, En!Operate, En!Disturb, En!NothingToDo, En!Create, En!Update,
      En!Perform, En!Destroy, En!OthersChange
<1>3. Refreshes => En!OnlyStagedValuesHide'
  BY <1>2, EnRefreshStep
<1> QED
  BY <1>1, <1>3

(* and by a step that changes nothing. *)
LEMMA EnStutter == EnInv /\ UNCHANGED vars => EnInv'
<1> SUFFICES ASSUME EnInv, UNCHANGED vars PROVE EnInv'
  OBVIOUS
<1>1. EnTyped'
  BY StutterTyped DEF EnInv, EnTyped
<1> QED
  BY <1>1 DEF vars, EnInv, EnPromise, En!Truthful, En!Told

-----------------------------------------------------------------------------
(* Routes.                                                                  *)
LEMMA RoCore ==
  /\ \A what, arg : Ro!Call(what, arg) = Call(what, arg)
  /\ (Ro!NoMishap <=> NoMishap) /\ (\A where : Ro!Mishap(where) <=> Mishap(where))
  /\ \A new : (Ro!Refreshed(new) <=> Refreshed(new)) /\ (Ro!Others(new) <=> Others(new))
  /\ \A s : Ro!Settled(s) <=> Settled(s)
  /\ \A what, x, calls : Ro!Begin(what, x, calls) <=> Begin(what, x, calls)
  /\ \A what, x : Ro!GivesUp(what, x) <=> GivesUp(what, x)
  /\ \A calls : Ro!Removed(calls) <=> Removed(calls)
  /\ \A new, x, possible, dropped :
       Ro!Calling(new, x, possible, dropped) <=> Calling(new, x, possible, dropped)
  /\ \A x : (Ro!EndOperation(x) <=> EndOperation(x)) /\ (Ro!Crash(x) <=> Crash(x))
  /\ (Ro!Finish <=> Finish) /\ (Ro!EditConfig <=> EditOf(Configs["route"]))
  /\ Ro!Told <=> Told
  /\ Ro!CoreOK <=> Core(Configs["route"])
BY DEF Ro!Call, Ro!NoMishap, Ro!Mishap, Ro!Answers, Ro!Answer, Ro!Done,
       Ro!Refreshed, Ro!Settled, Ro!Begin, Ro!GivesUp, Ro!Calling, Ro!Finish,
       Ro!EndOperation, Ro!Crash, Ro!EditConfig, Ro!Others, Ro!Removed, Ro!Idle,
       Ro!Told, Ro!CoreOK, Call, NoMishap, Mishap, Answers, Answer, Done,
       Refreshed, Settled, Begin, GivesUp, Calling, Finish, EndOperation, Crash,
       Others, Removed, Idle, Told, EditOf, Core

RoCalls ==
  {c \in [do : {"post", "getService", "bind", "unbind", "delete"},
          arg : RouteServices \cup {None}] : c.do = "bind" => c.arg \in RouteServices}

RoMaking(svc) == {c \in RoCalls : c.do # "delete" /\ (c.do = "bind" => c.arg = svc)}

(* The calls q leave a route y, and an Update the service of x: it takes    *)
(* none away when one is wanted. Another service than b it binds with the   *)
(* parameters of x.                                                         *)
RoLeads(x, y, q, what, b) ==
  /\ q \in Seq(RoMaking(x.svc)) /\ "post" \notin Later(q)
  /\ y.there \/ "post" \in Does(q)
  /\ what = "update" =>
       /\ "post" \notin Does(q) /\ (x.svc # None => "unbind" \notin Does(q))
       /\ \/ y.svc = x.svc /\ (x.svc # b => y.params \in {None, x.params})
          \/ (IF x.svc = None THEN "unbind" ELSE "bind") \in Does(q)

RoTyped == Typed(Configs["route"], Ro!Data, Ro!Route, RoCalls)
RoPromise ==
  pc = "call" /\ op \in {"create", "update"} /\ (d.there \/ "post" \in Does(todo))
    => RoLeads(d, cf, todo, op, tf.svc)
RoInv == RoTyped /\ RoPromise /\ Ro!Truthful

(* A service that appears after the refresh was bound by others, with       *)
(* nothing of the resource; as long as nobody edits anything there is one   *)
(* value of the parameters.                                                 *)
RoSteady ==
  /\ pc = "plan" /\ tf.there /\ cf.svc # tf.svc => cf.params = None
  /\ edits = 0 => /\ cf.params \in {None, cfg.params}
                  /\ d.params = cfg.params /\ tf.params = cfg.params

(* What a plan asks for, and what Terraform keeps of what is gone, for a    *)
(* route, are resource data.                                                *)
LEMMA RoPlanned ==
  ASSUME cfg \in Configs["route"]
  PROVE  /\ Ro!Planned(TRUE) \in Ro!Data /\ Ro!Absent \in Ro!Data
         /\ cfg.svc \in RouteServices \cup {None}
         /\ Ro!Planned(TRUE).svc = cfg.svc /\ Ro!Absent.svc = cfg.svc
         /\ Ro!Planned(TRUE).space = cfg.space /\ ~Ro!Absent.there
         /\ Ro!Planned(TRUE).params = cfg.params /\ Ro!Absent.params = cfg.params
<1>1. cfg \in Ro!Config
  BY ResourcesAssumption DEF Ro!RoutesAssumption, ResourcesAssumption
<1> QED
  BY <1>1 DEF Ro!Config, Ro!Data, Ro!Planned, Ro!Absent

(* Every call of a route that carries its work out is one of its calls. *)
LEMMA RoMakes ==
  ASSUME NEW svc \in RouteServices \cup {None}
  PROVE  /\ <<Call("post", None)>> \in Seq(RoMaking(svc))
         /\ \A q \in Seq(RoMaking(svc)) : q \in Seq(RoCalls)
<1>1. Call("post", None) \in RoMaking(svc) /\ RoMaking(svc) \subseteq RoCalls
  BY DEF RoMaking, RoCalls, Call
<1> HIDE DEF RoMaking, RoCalls
<1> QED
  BY <1>1, SeqOfMore

(* updateBinding (routes.go:241). *)
LEMMA RoUpdateBinding ==
  ASSUME NEW from \in RouteServices \cup {None}, NEW to \in RouteServices \cup {None}
  PROVE  LET u == Ro!UpdateBinding(from, to)
         IN /\ u \in Seq(RoMaking(to))
            /\ \/ from = to /\ Does(u) = {}
               \/ to = None /\ Does(u) = {"getService", "unbind"}
               \/ to # None /\ Does(u) = {"getService", "bind"}
<1> DEFINE g == Call("getService", None)
           n == Call("unbind", from)
           b == Call("bind", to)
           u == Ro!UpdateBinding(from, to)
<1>1. /\ g \in RoMaking(to) /\ n \in RoMaking(to) /\ (to # None => b \in RoMaking(to))
      /\ g.do = "getService" /\ n.do = "unbind" /\ b.do = "bind"
  BY DEF RoMaking, RoCalls, Call
<1>2. u = CASE from = to -> <<>> [] from # to /\ to = None -> <<g, n>>
            [] from # to /\ to # None -> <<g, b>>
  BY RoCore DEF Ro!UpdateBinding
<1> HIDE DEF g, n, b, u, RoMaking
<1>3. CASE from = to
  <2>1. u = <<>>
    BY <1>2, <1>3
  <2> QED
    BY <1>3, <2>1, Few DEF u
<1>4. CASE from # to /\ to = None
  <2>1. u = <<g, n>> /\ <<g, n>> \in Seq(RoMaking(to))
    BY <1>1, <1>2, <1>4
  <2> QED
    BY <1>1, <1>4, <2>1, Few DEF u
<1>5. CASE from # to /\ to # None
  <2>1. u = <<g, b>> /\ <<g, b>> \in Seq(RoMaking(to))
    BY <1>1, <1>2, <1>5
  <2> QED
    BY <1>1, <1>5, <2>1, Few DEF u
<1> QED
  BY <1>3, <1>4, <1>5

(* An operation on a route whose calls lead to what it was asked begins     *)
(* with the invariant.                                                      *)
LEMMA RoBegins ==
  ASSUME RoTyped, NEW what \in {"create", "update"}, NEW x \in Ro!Data,
         NEW calls \in Seq(RoCalls), AnyMishap, Begin(what, x, calls),
         x.there \/ "post" \in Does(calls) => RoLeads(x, cf, calls, what, tf.svc)
  PROVE  RoInv'
<1>1. /\ RoTyped' /\ UNCHANGED <<cf, tf>> /\ pc' = "call" /\ op' = what /\ d' = x
      /\ todo' = calls
  BY BeginTyped DEF RoTyped
<1> QED
  BY <1>1 DEF RoInv, RoPromise, Ro!Truthful, Ro!Told

(* So does one that fails before its first call. *)
LEMMA RoGivesUp ==
  ASSUME RoTyped, NEW what \in {"create", "update"}, NEW x \in Ro!Data,
         AnyMishap, GivesUp(what, x)
  PROVE  RoInv'
<1>1. RoTyped' /\ pc' = "return" /\ result' = "failed"
  BY GivesUpTyped DEF RoTyped
<1> QED
  BY <1>1 DEF RoInv, RoPromise, Ro!Truthful, Ro!Told

(* The invariant of a route is kept by Create, *)
LEMMA RoCreateStep == RoInv /\ Ro!Create => RoInv'
<1> SUFFICES ASSUME RoInv, Ro!Create PROVE RoInv'
  OBVIOUS
<1>1. RoTyped /\ cfg \in Configs["route"]
  BY DEF RoInv, RoTyped, Typed, Core
<1> DEFINE P == Ro!Planned(TRUE)
           A == Ro!Absent
           p == <<Call("post", None)>>
           u == Ro!UpdateBinding(None, cfg.svc)
<1>2. \/ cf.there /\ AnyMishap /\ Begin("create", P, <<>>)
      \/ AnyMishap /\ Begin("create", A, p \o u)
  BY RoCore DEF Ro!Create, AnyMishap
<1>3. /\ P \in Ro!Data /\ P.svc = cfg.svc /\ A \in Ro!Data /\ A.svc = cfg.svc
      /\ cfg.svc \in RouteServices \cup {None}
  BY <1>1, RoPlanned
<1> HIDE DEF P, A
<1>4. CASE cf.there /\ AnyMishap /\ Begin("create", P, <<>>)
  <2> DEFINE q == <<>>
  <2>1. q \in Seq(RoCalls) /\ RoLeads(P, cf, q, "create", tf.svc)
    BY <1>4, Few DEF RoLeads
  <2>2. AnyMishap /\ Begin("create", P, q)
    BY <1>4
  <2> HIDE DEF q
  <2> QED
    BY <1>1, <1>3, <2>1, <2>2, RoBegins
<1>5. CASE AnyMishap /\ Begin("create", A, p \o u)
  <2> DEFINE q == p \o u
  <2>1. u \in Seq(RoMaking(A.svc)) /\ "post" \notin Does(u)
    <3> DEFINE n == None
               v == cfg.svc
    <3>1. /\ n \in RouteServices \cup {None} /\ v \in RouteServices \cup {None}
          /\ A.svc = v /\ u = Ro!UpdateBinding(n, v)
      BY <1>3
    <3> HIDE DEF n, v, u
    <3>2. /\ u \in Seq(RoMaking(v))
          /\ Does(u) = {} \/ Does(u) = {"getService", "unbind"} \/ Does(u) = {"getService", "bind"}
      BY <3>1, RoUpdateBinding
    <3> QED
      BY <3>1, <3>2
  <2>2. p \in Seq(RoMaking(A.svc)) /\ Does(p) = {"post"} /\ Later(p) = {}
    BY <1>3, RoMakes, Few, CallFields
  <2> HIDE DEF u, p
  <2>3. q \in Seq(RoMaking(A.svc)) /\ Does(q) = Does(p) \cup Does(u)
        /\ Later(q) \subseteq Later(p) \cup Does(u)
    BY <2>1, <2>2, Cat
  <2>4. q \in Seq(RoCalls)
    BY <1>3, <2>3, RoMakes
  <2>5. AnyMishap /\ Begin("create", A, q)
    BY <1>5
  <2> HIDE DEF q
  <2>6. RoLeads(A, cf, q, "create", tf.svc)
    BY <2>1, <2>2, <2>3 DEF RoLeads
  <2> QED
    BY <1>1, <1>3, <2>4, <2>5, <2>6, RoBegins
<1> QED
  BY <1>2, <1>4, <1>5

(* by Update, *)
LEMMA RoUpdateStep == RoInv /\ RoSteady /\ Ro!Update => RoInv'
<1> SUFFICES ASSUME RoInv, RoSteady, Ro!Update PROVE RoInv'
  OBVIOUS
<1>1. RoTyped /\ cfg \in Configs["route"] /\ cf \in Ro!Route
  BY DEF RoInv, RoTyped, Typed, Core
<1> DEFINE P == Ro!Planned(TRUE)
           A == Ro!Absent
           u == Ro!UpdateBinding(cf.svc, cfg.svc)
<1>2. /\ tf.there
      /\ \/ cf.there /\ AnyMishap /\ Begin("update", P, u)
         \/ AnyMishap /\ Begin("update", A, <<>>)
         \/ AnyMishap /\ GivesUp("update", P)
  BY RoCore DEF Ro!Update, AnyMishap
<1>3. /\ P \in Ro!Data /\ P.svc = cfg.svc /\ A \in Ro!Data /\ ~A.there
      /\ cfg.svc \in RouteServices \cup {None} /\ cf.svc \in RouteServices \cup {None}
  BY <1>1, RoPlanned DEF Ro!Route
<1>4. /\ u \in Seq(RoMaking(P.svc))
      /\ \/ cf.svc = P.svc /\ Does(u) = {}
         \/ P.svc = None /\ Does(u) = {"getService", "unbind"}
         \/ P.svc # None /\ Does(u) = {"getService", "bind"}
  BY <1>3, RoUpdateBinding
<1>5. u \in Seq(RoCalls) /\ Later(u) \subseteq Does(u)
  BY <1>3, <1>4, RoMakes DEF Later, Does
<1> HIDE DEF P, A, u
<1>6. CASE cf.there /\ AnyMishap /\ Begin("update", P, u)
  <2>1. pc = "plan"
    BY <1>6 DEF Begin
  <2>2. cf.svc = P.svc /\ P.svc # tf.svc => cf.params = None
    BY <1>2, <2>1 DEF RoSteady
  <2>3. RoLeads(P, cf, u, "update", tf.svc)
    BY <1>4, <1>5, <1>6, <2>2 DEF RoLeads
  <2> QED
    BY <1>1, <1>3, <1>5, <1>6, <2>3, RoBegins
<1>7. CASE AnyMishap /\ Begin("update", A, <<>>)
  <2>1. <<>> \in Seq(RoCalls) /\ "post" \notin Does(<<>>)
    BY Few
  <2> QED
    BY <1>1, <1>3, <1>7, <2>1, RoBegins
<1>8. CASE AnyMishap /\ GivesUp("update", P)
  BY <1>1, <1>3, <1>8, RoGivesUp
<1> QED
  BY <1>2, <1>6, <1>7, <1>8

(* by a deletion, in a destroy or a replacement, *)
LEMMA RoDeletionStep == RoInv /\ (Ro!Replace \/ Ro!Destroy) => RoInv'
<1> SUFFICES ASSUME RoInv, Ro!Replace \/ Ro!Destroy PROVE RoInv'
  OBVIOUS
<1> DEFINE q == Ro!DeleteCalls
<1>1. RoTyped /\ tf \in Ro!Data
  BY DEF RoInv, RoTyped, Typed
<1>2. q \in Seq(RoCalls)
  <2> DEFINE u == Ro!UpdateBinding(tf.svc, None)
             c == Call("delete", None)
  <2>1. c \in RoCalls
    BY DEF RoCalls, Call
  <2>2. tf.svc \in RouteServices \cup {None} /\ None \in RouteServices \cup {None}
    BY <1>1 DEF Ro!Data
  <2>3. u \in Seq(RoCalls)
    BY <2>2, RoUpdateBinding, RoMakes
  <2>4. q = u \o <<c>>
    BY RoCore DEF Ro!DeleteCalls
  <2> HIDE DEF u, c, q
  <2> QED
    BY <2>1, <2>3, <2>4
<1>3. (AnyMishap /\ Begin("delete", tf, q)) \/ Removed(q)
  BY RoCore DEF Ro!Replace, Ro!Destroy, AnyMishap
<1> HIDE DEF q
<1>4. RoTyped' /\ pc' = "call" /\ op' = "delete"
  BY <1>1, <1>2, <1>3, BeginTyped DEF RoTyped
<1> QED
  BY <1>4 DEF RoInv, RoPromise, Ro!Truthful, Ro!Told

(* by each call and each of its answers, *)
LEMMA RoPerformStep == RoInv /\ Ro!Perform => RoInv'
<1> SUFFICES ASSUME RoInv, Ro!Perform PROVE RoInv'
  OBVIOUS
<1> DEFINE y == Ro!Effect(First)
           x == IF First.do = "post" THEN [d EXCEPT !.there = TRUE] ELSE d
           can == Ro!Possible(First)
           D == Ro!Data
           O == Ro!Route
<1>1. Calling(y, x, can, FALSE) /\ todo # <<>>
  BY RoCore DEF Ro!Perform, First
<1>2. RoTyped /\ cf \in Ro!Route /\ d \in Ro!Data /\ todo \in Seq(RoCalls)
  BY DEF RoInv, RoTyped, Typed
<1>3. /\ First \in RoCalls /\ Does(todo) = {First.do} \cup Does(Rest)
      /\ Does(Rest) = Later(todo) /\ Later(Rest) \subseteq Later(todo)
  BY <1>1, <1>2, FirstAndRest
<1>4. can \in BOOLEAN
  BY <1>2 DEF Ro!Route, Ro!Possible
<1>5. /\ x \in Ro!Data /\ x.svc = d.svc /\ x.params = d.params
      /\ x.there <=> d.there \/ First.do = "post"
  BY <1>2 DEF Ro!Data
<1>6. y \in Ro!Route
  <2>1. First.do = "bind" => First.arg \in RouteServices
    BY <1>3 DEF RoCalls
  <2> QED
    BY <1>2, <2>1 DEF Ro!Effect, Ro!Route, Ro!Data
<1>7. Typed(Configs["route"], D, O, RoCalls) /\ x \in D /\ y \in O
  BY <1>2, <1>5, <1>6 DEF RoTyped
<1> HIDE DEF y, x, can, D, O
<1>8. /\ Typed(Configs["route"], D, O, RoCalls)' /\ pc = "call"
      /\ (can /\ Answered(y, x)) \/ (pc' = "return" /\ result' = "failed")
  BY <1>1, <1>4, <1>7, StrictCallTyped
<1>9. RoTyped'
  BY <1>8 DEF RoTyped, D, O
<1>10. CASE pc' = "return" /\ result' = "failed"
  BY <1>8, <1>9, <1>10 DEF RoInv, RoPromise, Ro!Truthful, Ro!Told
<1>11. CASE can /\ Answered(y, x)
  <2>1. ASSUME RoLeads(d, cf, todo, op, tf.svc) PROVE RoLeads(x, y, Rest, op, tf.svc)
    <3>1. todo \in Seq(RoMaking(d.svc))
      BY <2>1 DEF RoLeads
    <3>2. First \in RoMaking(d.svc) /\ Rest \in Seq(RoMaking(d.svc))
      <4> HIDE DEF RoMaking
      <4> QED
        BY <1>1, <3>1, FirstAndRest
    <3>3. /\ y.there
          /\ op = "update" =>
               /\ d.svc # None => "unbind" \notin Does(Rest)
               /\ \/ y.svc = d.svc /\ (d.svc # tf.svc => y.params \in {None, d.params})
                  \/ (IF d.svc = None THEN "unbind" ELSE "bind") \in Does(Rest)
      <4>1. None \notin RouteServices
        BY ResourcesAssumption DEF ResourcesAssumption, Ro!RoutesAssumption
      <4> QED
        BY <1>2, <1>3, <2>1, <3>2, <4>1 DEF RoLeads, RoMaking, RoCalls, Ro!Effect, y, Ro!Route
    <3> QED
      BY <1>3, <1>5, <2>1, <3>2, <3>3 DEF RoLeads
  <2>2. RoPromise'
    BY <1>3, <1>5, <1>8, <1>11, <2>1 DEF RoInv, RoPromise, Answered
  <2> QED
    BY <1>8, <1>9, <1>11, <2>2 DEF RoInv, Ro!Truthful, Ro!Told, Answered
<1> QED
  BY <1>8, <1>9, <1>10, <1>11

(* An empty plan has the space and the service that were read. *)
LEMMA RoRefreshStep == RoInv /\ RoSteady /\ Ro!Refresh => RoInv' /\ Ro!AsAsked'
<1> SUFFICES ASSUME RoInv, RoSteady, Ro!Refresh PROVE RoInv' /\ Ro!AsAsked'
  OBVIOUS
<1>1. RoTyped /\ cfg \in Configs["route"] /\ tf \in Ro!Data /\ cf \in Ro!Route
  BY DEF RoInv, RoTyped, Typed, Core
<1>2. Ro!Absent \in Ro!Data /\ ~Ro!Absent.there
  BY <1>1, RoPlanned
<1>3. PICK new \in Ro!Data :
        /\ AnyMishap /\ Refreshed(new)
        /\ new.there => new.space = cf.space /\ new.svc = cf.svc
  <2> DEFINE A == Ro!Absent
             r == Ro!Read
  <2>1. NoMishap /\ (Refreshed(r) \/ Refreshed(A))
    BY RoCore DEF Ro!Refresh
  <2>2. r \in Ro!Data /\ r.space = cf.space /\ r.svc = cf.svc
    BY <1>1 DEF Ro!Data, Ro!Read, Ro!Route
  <2> HIDE DEF A, r
  <2> QED
    BY <1>2, <2>1, <2>2 DEF AnyMishap, A
<1>4. RoTyped' /\ pc' = "plan" /\ tf' = new /\ UNCHANGED <<cfg, cf, edits>>
  BY <1>1, <1>3, RefreshTyped DEF RoTyped, Refreshed
<1>5. RoInv'
  BY <1>4 DEF RoInv, RoPromise, Ro!Truthful, Ro!Told
<1>6. Ro!AsAsked'
  BY <1>3, <1>4 DEF Ro!AsAsked, Ro!InSync, Ro!Planned, RoSteady
<1> QED
  BY <1>5, <1>6

(* and by the steps that leave an operation that is under way alone. *)
LEMMA RoQuietStep ==
  RoInv /\ (\/ Ro!NothingToDo \/ Ro!Finish \/ Ro!EndOperation(Ro!Absent)
            \/ Ro!EditConfig \/ Ro!OthersChange \/ Ro!Crash(Ro!Absent))
    => RoInv'
<1> SUFFICES ASSUME RoInv,
                    \/ Ro!NothingToDo \/ Ro!Finish \/ Ro!EndOperation(Ro!Absent)
                    \/ Ro!EditConfig \/ Ro!OthersChange \/ Ro!Crash(Ro!Absent)
             PROVE  RoInv'
  OBVIOUS
<1> DEFINE A == Ro!Absent
           D == Ro!Data
           O == Ro!Route
<1>1. RoTyped /\ cfg \in Configs["route"] /\ cf \in O
  BY DEF RoInv, RoTyped, Typed, Core
<1>2. A \in D
  BY <1>1, RoPlanned
<1>3. CanTaint(D)
  BY DEF CanTaint, Ro!Data
<1>4. Ro!OthersChange => \E new \in O : Others(new)
  BY <1>1, RoCore DEF Ro!OthersChange, Ro!Route
<1>5. \/ \E s \in BOOLEAN : Settled(s)
      \/ Finish \/ EndOperation(A) \/ Crash(A) \/ Panics \/ Again
      \/ EditOf(Configs["route"]) \/ \E new \in O : Others(new)
  BY <1>4, RoCore DEF Ro!NothingToDo, Ro!InSync
<1> HIDE DEF A, D, O
<1>6. Typed(Configs["route"], D, O, RoCalls)
  BY <1>1 DEF RoTyped, D, O
<1>7. /\ Typed(Configs["route"], D, O, RoCalls)' /\ pc' # "call"
      /\ pc' = "return" => Finish
  BY <1>2, <1>3, <1>5, <1>6, QuietTyped
<1>8. RoTyped'
  BY <1>7 DEF RoTyped, D, O
<1>9. RoPromise'
  BY <1>7 DEF RoPromise
<1>10. Ro!Truthful'
  <2> SUFFICES ASSUME Ro!Told' PROVE Ro!Truthful'
    BY DEF Ro!Truthful
  <2>1. /\ pc = "call" /\ todo = <<>> /\ op \in {"create", "update"} /\ d.there
        /\ UNCHANGED <<cf, d, tf, op, mishaps>>
    BY <1>7 DEF Ro!Told, Finish
  <2>2. RoLeads(d, cf, todo, op, tf.svc)
    BY <2>1 DEF RoInv, RoPromise
  <2>3. /\ cf.there
        /\ op = "update" => /\ cf.svc = d.svc
                            /\ d.svc # tf.svc => cf.params \in {None, d.params}
    BY <1>1, <2>1, <2>2, Few DEF RoLeads
  <2> QED
    BY <2>1, <2>3 DEF Ro!Truthful
<1> QED
  BY <1>8, <1>9, <1>10 DEF RoInv

(* Every step of a route keeps RoSteady.                                    *)
LEMMA RoSteadyStep ==
  RoInv /\ RoSteady /\ (Ro!Run \/ Ro!Operate \/ Ro!Disturb) => RoSteady'
<1> SUFFICES ASSUME RoInv, RoSteady, Ro!Run \/ Ro!Operate \/ Ro!Disturb PROVE RoSteady'
  OBVIOUS
<1>1. /\ RoTyped /\ cfg \in Configs["route"] /\ tf \in Ro!Data /\ d \in Ro!Data
      /\ cf \in Ro!Route /\ edits \in Nat
  BY TerraformAssumption DEF TerraformAssumption, RoInv, RoTyped, Typed, Core
<1> DEFINE A == Ro!Absent
           P == Ro!Planned(TRUE)
<1>2. A.params = cfg.params /\ P.params = cfg.params /\ ~A.there
  BY <1>1, RoPlanned
<1> HIDE DEF A, P
<1>3. CASE Ro!Refresh
  <2>1. Ro!Read.params = tf.params /\ Ro!Read.svc = cf.svc
    BY <1>1 DEF Ro!Read, Ro!Data
  <2>2. UNCHANGED <<cfg, cf, d, edits>> /\ (tf' = A \/ tf' = Ro!Read)
    BY <1>3, RoCore DEF Ro!Refresh, Refreshed, A
  <2> QED
    BY <1>2, <2>1, <2>2 DEF RoSteady
<1>4. CASE Ro!NothingToDo
  <2>1. pc' = "idle" /\ UNCHANGED <<cfg, cf, tf, d, edits>>
    BY <1>4, RoCore DEF Ro!NothingToDo, Settled
  <2> QED
    BY <2>1 DEF RoSteady
<1>5. CASE Ro!Create
  <2>1. PICK x \in {A, P} : \E q : Begin("create", x, q)
    BY <1>5, RoCore DEF Ro!Create, A, P
  <2>2. pc' = "call" /\ d' = x /\ UNCHANGED <<cfg, cf, tf, edits>>
    BY <2>1 DEF Begin
  <2> QED
    BY <1>2, <2>1, <2>2 DEF RoSteady
<1>6. CASE Ro!Update
  <2>1. PICK x \in {A, P} : GivesUp("update", x) \/ \E q : Begin("update", x, q)
    BY <1>6, RoCore DEF Ro!Update, A, P
  <2>2. pc' # "plan" /\ d' = x /\ UNCHANGED <<cfg, cf, tf, edits>>
    BY <2>1 DEF Begin, GivesUp
  <2> QED
    BY <1>2, <2>1, <2>2 DEF RoSteady
<1>7. CASE Ro!Replace
  <2>1. \E q : Begin("delete", tf, q)
    BY <1>7, RoCore DEF Ro!Replace
  <2>2. pc' = "call" /\ d' = tf /\ UNCHANGED <<cfg, cf, tf, edits>>
    BY <2>1 DEF Begin
  <2> QED
    BY <2>2 DEF RoSteady
<1>8. CASE Ro!Perform
  <2> DEFINE y == Ro!Effect(First)
             x == IF First.do = "post" THEN [d EXCEPT !.there = TRUE] ELSE d
             can == Ro!Possible(First)
             no == FALSE
  <2>1. Calling(y, x, can, no)
    BY <1>8, RoCore DEF Ro!Perform, First
  <2>2. todo # <<>> /\ todo \in Seq(RoCalls)
    BY <2>1 DEF Calling, RoInv, RoTyped, Typed
  <2>3. First \in RoCalls
    BY <2>2, FirstAndRest
  <2>4. y.params \in {None, cf.params, d.params} /\ x.params = d.params
    BY <1>1, <2>3 DEF Ro!Effect, Ro!Route, Ro!Data, RoCalls
  <2> HIDE DEF y, x, can, no
  <2>5. /\ pc' # "plan" /\ UNCHANGED <<cfg, tf, edits>>
        /\ cf' \in {cf, y} /\ d' \in {d, x}
    BY <2>1 DEF Calling
  <2> QED
    BY <2>4, <2>5 DEF RoSteady
<1>9. CASE Ro!Finish
  <2>1. pc' = "return" /\ UNCHANGED <<cfg, cf, tf, d, edits>>
    BY <1>9, RoCore DEF Finish
  <2> QED
    BY <2>1 DEF RoSteady
<1>10. CASE Ro!EndOperation(A)
  <2> DEFINE k == [d EXCEPT !.tainted = op = "create" /\ result = "failed"]
  <2>1. k.params = d.params
    BY <1>1 DEF Ro!Data
  <2>2. EndOperation(A)
    BY <1>10, RoCore
  <2> HIDE DEF k
  <2>3. /\ pc' = "idle" /\ d' = A /\ tf' \in {A, tf, k} /\ UNCHANGED <<cfg, cf, edits>>
    BY <2>2 DEF EndOperation, k
  <2> QED
    BY <1>2, <2>1, <2>3 DEF RoSteady
<1>11. CASE Ro!EditConfig \/ Ro!Destroy
  <2>1. edits' = edits + 1 /\ pc' \in {"idle", "call"}
    BY <1>11, RoCore DEF Ro!Destroy, EditOf, Removed
  <2> QED
    BY <1>1, <2>1 DEF RoSteady
<1>12. CASE Ro!OthersChange
  <2>1. edits' = edits + 1 /\ UNCHANGED <<tf, pc>>
    BY <1>12, RoCore DEF Ro!OthersChange, Others
  <2>2. cf'.params = None \/ (cf'.svc = cf.svc /\ cf'.params = cf.params)
    <3>1. PICK new : /\ Others(new)
                     /\ \/ new.params = None
                        \/ new.svc = cf.svc /\ new.params = cf.params
      <4>1. CASE \E s \in RouteSpaces, v \in RouteServices \cup {None} :
                   Others([there |-> TRUE, space |-> s, svc |-> v,
                           params |-> IF v = cf.svc THEN cf.params ELSE None])
        BY <4>1
      <4>2. CASE Others([cf EXCEPT !.there = FALSE, !.svc = None, !.params = None])
        <5>1. [cf EXCEPT !.there = FALSE, !.svc = None, !.params = None].params = None
          BY <1>1 DEF Ro!Route
        <5> QED
          BY <4>2, <5>1
      <4> QED
        BY <1>12, <4>1, <4>2, RoCore DEF Ro!OthersChange
    <3> QED
      BY <3>1 DEF Others
  <2> QED
    BY <1>1, <2>1, <2>2 DEF RoSteady
<1>13. CASE Ro!Crash(A)
  <2>1. pc' = "idle" /\ d' = A /\ UNCHANGED <<cfg, cf, tf, edits>>
    BY <1>13, RoCore DEF Crash
  <2> QED
    BY <1>2, <2>1 DEF RoSteady
<1> QED
  BY <1>3, <1>4, <1>5, <1>6, <1>7, <1>8, <1>9, <1>10, <1>11, <1>12, <1>13
  DEF Ro!Run, Ro!Operate, Ro!Disturb, A

(* It holds at the start, *)
LEMMA RoInitInv == Ro!Init => RoInv /\ RoSteady
<1> SUFFICES ASSUME Ro!Init PROVE RoInv /\ RoSteady
  OBVIOUS
<1> DEFINE A == Ro!Absent
           D == Ro!Data
           O == Ro!Route
<1>1. /\ cf \in O /\ cf.params = None /\ cfg \in Configs["route"] /\ tf = A /\ d = A /\ pc = "idle"
      /\ op = "none" /\ todo = <<>> /\ result = "none" /\ edits = 0 /\ mishaps = 0
  BY DEF Ro!Init, Ro!Idle
<1>2. A \in D
  BY <1>1, RoPlanned
<1> HIDE DEF A, D, O
<1>3. Typed(Configs["route"], D, O, RoCalls)
  BY <1>1, <1>2, InitTyped
<1>4. RoTyped
  BY <1>3 DEF RoTyped, D, O
<1>5. RoSteady
  BY <1>1, RoPlanned DEF RoSteady, A
<1> QED
  BY <1>1, <1>4, <1>5 DEF RoInv, RoPromise, Ro!Truthful, Ro!Told

(* it is kept by every step of a route, *)
LEMMA RoStep ==
  RoInv /\ RoSteady /\ (Ro!Run \/ Ro!Operate \/ Ro!Disturb)
    => RoInv' /\ RoSteady' /\ (Refreshes => Ro!AsAsked')
<1> SUFFICES ASSUME RoInv, RoSteady, Ro!Run \/ Ro!Operate \/ Ro!Disturb
             PROVE  RoInv' /\ RoSteady' /\ (Refreshes => Ro!AsAsked')
  OBVIOUS
<1>1. RoInv'
  BY RoRefreshStep, RoCreateStep, RoUpdateStep, RoDeletionStep, RoPerformStep, RoQuietStep
  DEF Ro!Run, Ro!Operate, Ro!Disturb
<1>2. ASSUME Refreshes PROVE Ro!Refresh
  BY <1>2, OnlyRefreshes, RoCore
  DEF Refreshes, Ro!Run, Ro!Operate, Ro!Disturb, Ro!NothingToDo, Ro!Create, Ro!Update, Ro!Replace,
      Ro!Perform, Ro!Destroy, Ro!OthersChange
<1>3. Refreshes => Ro!AsAsked'
  BY <1>2, RoRefreshStep
<1> QED
  BY <1>1, <1>3, RoSteadyStep

(* and by a step that changes nothing. *)
LEMMA RoStutter == RoInv /\ RoSteady /\ UNCHANGED vars => RoInv' /\ RoSteady'
<1> SUFFICES ASSUME RoInv, RoSteady, UNCHANGED vars PROVE RoInv' /\ RoSteady'
  OBVIOUS
<1>1. RoTyped'
  BY StutterTyped DEF RoInv, RoTyped
<1> QED
  BY <1>1 DEF vars, RoSteady, RoInv, RoPromise, Ro!Truthful, Ro!Told

-----------------------------------------------------------------------------
(* Feature flags.                                                           *)
LEMMA FfCore ==
  /\ \A what, arg : Ff!Call(what, arg) = Call(what, arg)
  /\ (Ff!NoMishap <=> NoMishap) /\ (\A where : Ff!Mishap(where) <=> Mishap(where))
  /\ \A new : (Ff!Refreshed(new) <=> Refreshed(new)) /\ (Ff!Others(new) <=> Others(new))
  /\ \A s : Ff!Settled(s) <=> Settled(s)
  /\ \A what, x, calls : Ff!Begin(what, x, calls) <=> Begin(what, x, calls)
  /\ \A what, x : Ff!GivesUp(what, x) <=> GivesUp(what, x)
  /\ \A calls : Ff!Removed(calls) <=> Removed(calls)
  /\ \A new, x, possible, dropped :
       Ff!Calling(new, x, possible, dropped) <=> Calling(new, x, possible, dropped)
  /\ \A x : (Ff!EndOperation(x) <=> EndOperation(x)) /\ (Ff!Crash(x) <=> Crash(x))
  /\ (Ff!Finish <=> Finish) /\ (Ff!EditConfig <=> EditOf(Configs["feature_flags"]))
  /\ Ff!Told <=> Told
  /\ Ff!CoreOK <=> Core(Configs["feature_flags"])
BY DEF Ff!Call, Ff!NoMishap, Ff!Mishap, Ff!Answers, Ff!Answer, Ff!Done,
       Ff!Refreshed, Ff!Settled, Ff!Begin, Ff!GivesUp, Ff!Calling, Ff!Finish,
       Ff!EndOperation, Ff!Crash, Ff!EditConfig, Ff!Others, Ff!Removed, Ff!Idle,
       Ff!Told, Ff!CoreOK, Call, NoMishap, Mishap, Answers, Answer, Done,
       Refreshed, Settled, Begin, GivesUp, Calling, Finish, EndOperation, Crash,
       Others, Removed, Idle, Told, EditOf, Core

(* What the modules for sequences and sets define is the same here. *)
LEMMA FfLists ==
  /\ \A S : Ff!IsFiniteSet(S) <=> IsFiniteSet(S)
  /\ \A S : Ff!Orders(S) = Orders(S)
<1>1. \A S : Ff!Cardinality(S) = Cardinality(S)
  BY DEF Ff!Cardinality, Cardinality
<1>2. \A S : Ff!IsFiniteSet(S) <=> IsFiniteSet(S)
  BY DEF Ff!IsFiniteSet, IsFiniteSet
<1>3. \A S : Ff!Orders(S) = Orders(S)
  BY <1>1 DEF Ff!Orders, Orders
<1> QED
  BY <1>2, <1>3

FfPlatform == [Served -> BOOLEAN]
FfCalls == [do : Ff!Flags \cup {"setId"}, arg : BOOLEAN]

FfMaking(x) == {c \in FfCalls : c.do # "setId" => c.arg = x.flags[c.do]}

(* The calls q give the flags y the values of x that it names. *)
FfLeads(x, y, q) ==
  /\ q \in Seq(FfMaking(x))
  /\ \A f \in Served : x.flags[f] \in {y[f], Unnamed} \/ f \in Does(q)

FfTyped == Typed(Configs["feature_flags"], Ff!Data, FfPlatform, FfCalls)
FfPromise == pc = "call" /\ op \in {"create", "update"} => FfLeads(d, cf, todo)
FfInv == FfTyped /\ FfPromise /\ Ff!Truthful

(* What a plan asks for, and what Terraform keeps of what is gone, for      *)
(* feature flags, are resource data.                                        *)
LEMMA FfPlanned ==
  ASSUME cfg \in Configs["feature_flags"]
  PROVE  /\ Ff!Planned(TRUE) \in Ff!Data /\ Ff!Absent \in Ff!Data
         /\ cfg \in Ff!Wanted /\ Ff!Planned(TRUE).flags = cfg
         /\ Ff!Absent.flags = cfg /\ ~Ff!Absent.there
<1>1. cfg \in Ff!Wanted
  BY ResourcesAssumption DEF Ff!FeatureFlagsAssumption, ResourcesAssumption
<1> QED
  BY <1>1 DEF Ff!Data, Ff!Planned, Ff!Absent

(* A call for each flag that differs (feature_flags.go:86, 71).             *)
LEMMA FfFlagCalls ==
  ASSUME NEW flags, NEW q \in Ff!FlagCalls(flags), NEW T,
         \A f \in Ff!Filtered(flags) : Call(f, flags[f]) \in T
  PROVE  q \in Seq(T) /\ Does(q) = Ff!Filtered(flags)
<1> DEFINE F == Ff!Filtered(flags)
           n == Cardinality(F)
<1>1. PICK r \in Orders(F) : q = [i \in DOMAIN r |-> Call(r[i], flags[r[i]])]
  BY FfCore, FfLists DEF Ff!FlagCalls
<1>2. IsFiniteSet(F)
  <2>1. F \subseteq Ff!Flags /\ IsFiniteSet(Ff!Flags)
    BY FfLists, ResourcesAssumption DEF Ff!Filtered, Ff!FeatureFlagsAssumption, ResourcesAssumption
  <2> QED
    BY <2>1, FS_Subset
<1> HIDE DEF F
<1>3. n \in Nat
  BY <1>2, FS_CardinalityType
<1>4. r \in [1 .. n -> F] /\ \A i, j \in 1 .. n : i # j => r[i] # r[j]
  BY DEF Orders
<1>5. \A f \in F : \E i \in 1 .. n : r[i] = f
  <2>1. IsFiniteSet(1 .. n) /\ Cardinality(1 .. n) = n
    BY <1>3, FS_Interval
  <2>2. r \in Injection(1 .. n, F)
    BY <1>4 DEF Injection, IsInjective
  <2> HIDE DEF n
  <2>3. r \in Surjection(1 .. n, F)
    BY <1>2, <2>1, <2>2, FS_Injection DEF n
  <2> QED
    BY <2>3 DEF Surjection
<1>6. q \in [1 .. n -> T]
  BY <1>1, <1>4 DEF F
<1>7. \A i \in 1 .. n : q[i].do = r[i]
  BY <1>1, <1>4, CallFields
<1>8. Does(q) = F
  BY <1>4, <1>5, <1>6, <1>7 DEF Does
<1> QED
  BY <1>3, <1>6, <1>8 DEF F

(* Such calls, made for resource data, make what they say. *)
LEMMA FfSets ==
  ASSUME cf \in FfPlatform, NEW x \in Ff!Data, NEW q \in Ff!FlagCalls(x.flags)
  PROVE  /\ q \in Seq(FfMaking(x)) /\ Does(q) = Ff!Filtered(x.flags)
         /\ \A f \in Served \ Ff!Filtered(x.flags) : x.flags[f] \in {cf[f], Unnamed}
<1>1. Served \subseteq Ff!Flags /\ "setId" \notin Ff!Flags /\ x.flags \in Ff!Wanted
  BY ResourcesAssumption DEF Ff!FeatureFlagsAssumption, ResourcesAssumption, Ff!Data
<1>2. \A f \in Ff!Filtered(x.flags) : f \in Ff!Flags /\ x.flags[f] \in BOOLEAN
  BY <1>1 DEF Ff!Wanted, Ff!Filtered
<1>3. \A f \in Ff!Filtered(x.flags) : Call(f, x.flags[f]) \in FfMaking(x)
  BY <1>1, <1>2 DEF FfMaking, FfCalls, Call
<1>4. \A f \in Served \ Ff!Filtered(x.flags) : x.flags[f] \in {cf[f], Unnamed}
  BY <1>1 DEF Ff!Wanted, Ff!Filtered
<1> HIDE DEF FfMaking
<1> QED
  BY <1>3, <1>4, FfFlagCalls

(* Every call of feature flags that carries its work out is one of its      *)
(* calls.                                                                   *)
LEMMA FfMakes ==
  ASSUME NEW x
  PROVE  /\ Ff!SetId \in Seq(FfMaking(x))
         /\ \A q \in Seq(FfMaking(x)) : q \in Seq(FfCalls)
<1> DEFINE c == Call("setId", TRUE)
<1>1. c \in FfMaking(x) /\ FfMaking(x) \subseteq FfCalls
  BY DEF FfMaking, FfCalls, Call
<1>2. Ff!SetId = <<c>>
  BY DEF Ff!SetId, Ff!Call, Call
<1> HIDE DEF FfMaking, FfCalls, c
<1> QED
  BY <1>1, <1>2, SeqOfMore

(* An operation on feature flags whose calls lead to what it was asked      *)
(* begins with the invariant.                                               *)
LEMMA FfBegins ==
  ASSUME FfTyped, NEW what \in {"create", "update"}, NEW x \in Ff!Data,
         NEW calls \in Seq(FfCalls), AnyMishap, Begin(what, x, calls),
         TRUE => FfLeads(x, cf, calls)
  PROVE  FfInv'
<1>1. /\ FfTyped' /\ UNCHANGED <<cf>> /\ pc' = "call" /\ op' = what /\ d' = x
      /\ todo' = calls
  BY BeginTyped DEF FfTyped
<1> QED
  BY <1>1 DEF FfInv, FfPromise, Ff!Truthful, Ff!Told

(* So does one that fails before its first call. *)
LEMMA FfGivesUp ==
  ASSUME FfTyped, NEW what \in {"create", "update"}, NEW x \in Ff!Data,
         AnyMishap, GivesUp(what, x)
  PROVE  FfInv'
<1>1. FfTyped' /\ pc' = "return" /\ result' = "failed"
  BY GivesUpTyped DEF FfTyped
<1> QED
  BY <1>1 DEF FfInv, FfPromise, Ff!Truthful, Ff!Told

(* The invariant of feature flags is kept by Create, *)
LEMMA FfCreateStep == FfInv /\ Ff!Create => FfInv'
<1> SUFFICES ASSUME FfInv, Ff!Create PROVE FfInv'
  OBVIOUS
<1>1. FfTyped /\ cfg \in Configs["feature_flags"] /\ cf \in FfPlatform
  BY DEF FfInv, FfTyped, Typed, Core
<1> DEFINE P == Ff!Planned(TRUE)
           A == Ff!Absent
           s == Ff!SetId
<1>2. \/ Ff!Filtered(cfg) = {} /\ AnyMishap /\ Begin("create", P, <<>>)
      \/ AnyMishap /\ \E calls \in Ff!FlagCalls(cfg) : Begin("create", A, calls \o s)
      \/ AnyMishap /\ GivesUp("create", A)
  BY FfCore DEF Ff!Create, AnyMishap
<1>3. P \in Ff!Data /\ P.flags = cfg /\ A \in Ff!Data /\ A.flags = cfg /\ cfg \in Ff!Wanted
  BY <1>1, FfPlanned
<1> HIDE DEF P, A
<1>4. CASE Ff!Filtered(cfg) = {} /\ AnyMishap /\ Begin("create", P, <<>>)
  <2> DEFINE q == <<>>
  <2>1. q \in Seq(FfMaking(P)) /\ q \in Seq(FfCalls) /\ AnyMishap /\ Begin("create", P, q)
    BY <1>4
  <2>2. \A f \in Served : cfg[f] \in {cf[f], Unnamed}
    <3>1. Served \subseteq Ff!Flags
      BY ResourcesAssumption DEF Ff!FeatureFlagsAssumption, ResourcesAssumption
    <3> QED
      BY <1>3, <1>4, <3>1 DEF Ff!Wanted, Ff!Filtered
  <2> HIDE DEF q
  <2>3. FfLeads(P, cf, q)
    BY <1>3, <2>1, <2>2 DEF FfLeads
  <2> QED
    BY <1>1, <1>3, <2>1, <2>3, FfBegins
<1>5. CASE AnyMishap /\ \E calls \in Ff!FlagCalls(cfg) : Begin("create", A, calls \o s)
  <2>1. PICK calls \in Ff!FlagCalls(cfg) : Begin("create", A, calls \o s)
    BY <1>5
  <2> DEFINE q == calls \o s
  <2>2. /\ calls \in Seq(FfMaking(A)) /\ Does(calls) = Ff!Filtered(A.flags)
        /\ \A f \in Served \ Ff!Filtered(A.flags) : A.flags[f] \in {cf[f], Unnamed}
    BY <1>1, <1>3, <2>1, FfSets
  <2>3. s \in Seq(FfMaking(A))
    BY FfMakes
  <2> HIDE DEF s
  <2>4. q \in Seq(FfMaking(A)) /\ Does(q) = Does(calls) \cup Does(s)
    BY <2>2, <2>3, Cat
  <2>5. q \in Seq(FfCalls) /\ AnyMishap /\ Begin("create", A, q)
    BY <1>5, <2>1, <2>4, FfMakes
  <2> HIDE DEF q
  <2>6. FfLeads(A, cf, q)
    BY <2>2, <2>4 DEF FfLeads
  <2> QED
    BY <1>1, <1>3, <2>5, <2>6, FfBegins
<1>6. CASE AnyMishap /\ GivesUp("create", A)
  BY <1>1, <1>3, <1>6, FfGivesUp
<1> QED
  BY <1>2, <1>4, <1>5, <1>6

(* by Update, *)
LEMMA FfUpdateStep == FfInv /\ Ff!Update => FfInv'
<1> SUFFICES ASSUME FfInv, Ff!Update PROVE FfInv'
  OBVIOUS
<1>1. FfTyped /\ cfg \in Configs["feature_flags"] /\ cf \in FfPlatform
  BY DEF FfInv, FfTyped, Typed, Core
<1> DEFINE P == Ff!Planned(TRUE)
<1>2. \/ AnyMishap /\ \E calls \in Ff!FlagCalls(cfg) : Begin("update", P, calls)
      \/ AnyMishap /\ GivesUp("update", P)
  BY FfCore DEF Ff!Update, AnyMishap
<1>3. P \in Ff!Data /\ P.flags = cfg
  BY <1>1, FfPlanned
<1> HIDE DEF P
<1>4. ASSUME AnyMishap, NEW q \in Ff!FlagCalls(cfg), Begin("update", P, q) PROVE FfInv'
  <2>1. /\ q \in Seq(FfMaking(P)) /\ Does(q) = Ff!Filtered(P.flags)
        /\ \A f \in Served \ Ff!Filtered(P.flags) : P.flags[f] \in {cf[f], Unnamed}
    BY <1>1, <1>3, <1>4, FfSets
  <2>2. q \in Seq(FfCalls)
    BY <2>1, FfMakes
  <2>3. FfLeads(P, cf, q)
    BY <2>1 DEF FfLeads
  <2> QED
    BY <1>1, <1>3, <1>4, <2>2, <2>3, FfBegins
<1>5. CASE AnyMishap /\ GivesUp("update", P)
  BY <1>1, <1>3, <1>5, FfGivesUp
<1> QED
  BY <1>2, <1>4, <1>5

(* by a deletion, in a destroy or a replacement, *)
LEMMA FfDeletionStep == FfInv /\ Ff!Destroy => FfInv'
<1> SUFFICES ASSUME FfInv, Ff!Destroy PROVE FfInv'
  OBVIOUS
<1>1. FfTyped /\ tf \in Ff!Data
  BY DEF FfInv, FfTyped, Typed
<1>2. PICK q \in Ff!FlagCalls(Defaults) : Removed(q)
  BY FfCore DEF Ff!Destroy
<1>3. q \in Seq(FfCalls)
  <2>1. \A f \in Ff!Filtered(Defaults) : f \in Ff!Flags /\ Defaults[f] \in BOOLEAN
    BY ResourcesAssumption
    DEF Ff!FeatureFlagsAssumption, ResourcesAssumption, Ff!Filtered, Ff!Flags
  <2>2. \A f \in Ff!Filtered(Defaults) : Call(f, Defaults[f]) \in FfCalls
    BY <2>1 DEF FfCalls, Call
  <2> HIDE DEF FfCalls
  <2> QED
    BY <2>2, FfFlagCalls
<1>4. FfTyped' /\ pc' = "call" /\ op' = "delete"
  BY <1>1, <1>2, <1>3, BeginTyped DEF FfTyped
<1> QED
  BY <1>4 DEF FfInv, FfPromise, Ff!Truthful, Ff!Told

(* by each call and each of its answers, *)
LEMMA FfPerformStep == FfInv /\ Ff!Perform => FfInv'
<1> SUFFICES ASSUME FfInv, Ff!Perform PROVE FfInv'
  OBVIOUS
<1> DEFINE y == Ff!Effect(First)
           x == [d EXCEPT !.there = d.there \/ First.do = "setId"]
           can == TRUE
           D == Ff!Data
           O == FfPlatform
<1>1. Calling(y, x, can, FALSE) /\ todo # <<>>
  BY FfCore DEF Ff!Perform, First
<1>2. FfTyped /\ cf \in FfPlatform /\ d \in Ff!Data /\ todo \in Seq(FfCalls)
  BY DEF FfInv, FfTyped, Typed
<1>3. /\ First \in FfCalls /\ Does(todo) = {First.do} \cup Does(Rest)
      /\ Does(Rest) = Later(todo) /\ Later(Rest) \subseteq Later(todo)
  BY <1>1, <1>2, FirstAndRest
<1>4. can \in BOOLEAN
  BY <1>2 DEF FfPlatform
<1>5. x \in Ff!Data /\ x.flags = d.flags
  BY <1>2 DEF Ff!Data
<1>6. y \in FfPlatform
  BY <1>2, <1>3, ResourcesAssumption
  DEF Ff!Effect, FfPlatform, Ff!Data, FfCalls, Ff!FeatureFlagsAssumption, ResourcesAssumption
<1>7. Typed(Configs["feature_flags"], D, O, FfCalls) /\ x \in D /\ y \in O
  BY <1>2, <1>5, <1>6 DEF FfTyped
<1> HIDE DEF y, x, can, D, O
<1>8. /\ Typed(Configs["feature_flags"], D, O, FfCalls)' /\ pc = "call"
      /\ (can /\ Answered(y, x)) \/ (pc' = "return" /\ result' = "failed")
  BY <1>1, <1>4, <1>7, StrictCallTyped
<1>9. FfTyped'
  BY <1>8 DEF FfTyped, D, O
<1>10. CASE pc' = "return" /\ result' = "failed"
  BY <1>8, <1>9, <1>10 DEF FfInv, FfPromise, Ff!Truthful, Ff!Told
<1>11. CASE can /\ Answered(y, x)
  <2>1. ASSUME FfLeads(d, cf, todo) PROVE FfLeads(x, y, Rest)
    <3>1. todo \in Seq(FfMaking(d))
      BY <2>1 DEF FfLeads
    <3>2. First \in FfMaking(d) /\ Rest \in Seq(FfMaking(d))
      <4> HIDE DEF FfMaking
      <4> QED
        BY <1>1, <3>1, FirstAndRest
    <3>3. FfMaking(x) = FfMaking(d)
      BY <1>5 DEF FfMaking
    <3>4. ASSUME NEW f \in Served PROVE d.flags[f] \in {y[f], Unnamed} \/ f \in Does(Rest)
      <4>1. "setId" \notin Served
        BY ResourcesAssumption DEF ResourcesAssumption, Ff!FeatureFlagsAssumption
      <4>2. d.flags[f] \in {cf[f], Unnamed} \/ f \in Does(todo)
        BY <2>1 DEF FfLeads
      <4>3. CASE f = First.do
        BY <1>2, <3>2, <4>1, <4>3 DEF FfMaking, Ff!Effect, y, FfPlatform
      <4>4. CASE f # First.do
        BY <1>2, <1>3, <4>2, <4>4 DEF Ff!Effect, y, FfPlatform
      <4> QED
        BY <4>3, <4>4
    <3> QED
      BY <1>5, <3>2, <3>3, <3>4 DEF FfLeads
  <2>2. FfPromise'
    BY <1>3, <1>5, <1>8, <1>11, <2>1 DEF FfInv, FfPromise, Answered
  <2> QED
    BY <1>8, <1>9, <1>11, <2>2 DEF FfInv, Ff!Truthful, Ff!Told, Answered
<1> QED
  BY <1>8, <1>9, <1>10, <1>11

(* An empty plan has the flags that were read. *)
LEMMA FfRefreshStep == FfInv /\ Ff!Refresh => FfInv' /\ Ff!AsAsked'
<1> SUFFICES ASSUME FfInv, Ff!Refresh PROVE FfInv' /\ Ff!AsAsked'
  OBVIOUS
<1>1. FfTyped /\ cfg \in Configs["feature_flags"] /\ tf \in Ff!Data /\ cf \in FfPlatform
  BY DEF FfInv, FfTyped, Typed, Core
<1>2. Ff!Absent \in Ff!Data /\ ~Ff!Absent.there
  BY <1>1, FfPlanned
<1>3. PICK new \in Ff!Data :
        /\ AnyMishap /\ Refreshed(new)
        /\ new.there => \A f \in Served : new.flags[f] \in {cf[f], Unnamed}
  <2> DEFINE A == Ff!Absent
             s == Ff!Read(tf.flags)
             r == [tf EXCEPT !.flags = s]
  <2>1. NoMishap /\ (Refreshed(r) \/ Refreshed(A))
    BY FfCore DEF Ff!Refresh
  <2>2. s \in Ff!Wanted /\ \A f \in Served : s[f] \in {cf[f], Unnamed}
    <3>1. Served \subseteq Ff!Flags /\ tf.flags \in Ff!Wanted
      BY <1>1, ResourcesAssumption DEF ResourcesAssumption, Ff!FeatureFlagsAssumption, Ff!Data
    <3> QED
      BY <1>1, <3>1 DEF Ff!Read, Ff!Wanted, FfPlatform
  <2> HIDE DEF A, s
  <2>3. r \in Ff!Data /\ r.flags = s
    BY <1>1, <2>2 DEF Ff!Data
  <2> HIDE DEF r
  <2> QED
    BY <1>2, <2>1, <2>2, <2>3 DEF AnyMishap, A
<1>4. FfTyped' /\ pc' = "plan" /\ tf' = new /\ UNCHANGED <<cfg, cf>>
  BY <1>1, <1>3, RefreshTyped DEF FfTyped, Refreshed
<1>5. FfInv'
  BY <1>4 DEF FfInv, FfPromise, Ff!Truthful, Ff!Told
<1>6. Ff!AsAsked'
  BY <1>3, <1>4 DEF Ff!AsAsked, Ff!InSync, Ff!Planned
<1> QED
  BY <1>5, <1>6

(* and by the steps that leave an operation that is under way alone. *)
LEMMA FfQuietStep ==
  FfInv /\ (\/ Ff!NothingToDo \/ Ff!Finish \/ Ff!EndOperation(Ff!Absent)
            \/ Ff!EditConfig \/ Ff!OthersChange \/ Ff!Crash(Ff!Absent))
    => FfInv'
<1> SUFFICES ASSUME FfInv,
                    \/ Ff!NothingToDo \/ Ff!Finish \/ Ff!EndOperation(Ff!Absent)
                    \/ Ff!EditConfig \/ Ff!OthersChange \/ Ff!Crash(Ff!Absent)
             PROVE  FfInv'
  OBVIOUS
<1> DEFINE A == Ff!Absent
           D == Ff!Data
           O == FfPlatform
<1>1. FfTyped /\ cfg \in Configs["feature_flags"] /\ cf \in O
  BY DEF FfInv, FfTyped, Typed, Core
<1>2. A \in D
  BY <1>1, FfPlanned
<1>3. CanTaint(D)
  BY DEF CanTaint, Ff!Data
<1>4. Ff!OthersChange => \E new \in O : Others(new)
  BY <1>1, FfCore DEF Ff!OthersChange, FfPlatform
<1>5. \/ \E s \in BOOLEAN : Settled(s)
      \/ Finish \/ EndOperation(A) \/ Crash(A) \/ Panics \/ Again
      \/ EditOf(Configs["feature_flags"]) \/ \E new \in O : Others(new)
  BY <1>4, FfCore DEF Ff!NothingToDo, Ff!InSync
<1> HIDE DEF A, D, O
<1>6. Typed(Configs["feature_flags"], D, O, FfCalls)
  BY <1>1 DEF FfTyped, D, O
<1>7. /\ Typed(Configs["feature_flags"], D, O, FfCalls)' /\ pc' # "call"
      /\ pc' = "return" => Finish
  BY <1>2, <1>3, <1>5, <1>6, QuietTyped
<1>8. FfTyped'
  BY <1>7 DEF FfTyped, D, O
<1>9. FfPromise'
  BY <1>7 DEF FfPromise
<1>10. Ff!Truthful'
  <2> SUFFICES ASSUME Ff!Told' PROVE Ff!Truthful'
    BY DEF Ff!Truthful
  <2>1. /\ pc = "call" /\ todo = <<>> /\ op \in {"create", "update"} /\ d.there
        /\ UNCHANGED <<cf, d, tf, op, mishaps>>
    BY <1>7 DEF Ff!Told, Finish
  <2>2. FfLeads(d, cf, todo)
    BY <2>1 DEF FfInv, FfPromise
  <2>3. \A f \in Served : d.flags[f] \in {cf[f], Unnamed}
    BY <1>1, <2>1, <2>2, Few DEF FfLeads
  <2> QED
    BY <2>1, <2>3 DEF Ff!Truthful
<1> QED
  BY <1>8, <1>9, <1>10 DEF FfInv

(* It holds at the start, *)
LEMMA FfInitInv == Ff!Init => FfInv
<1> SUFFICES ASSUME Ff!Init PROVE FfInv
  OBVIOUS
<1> DEFINE A == Ff!Absent
           D == Ff!Data
           O == FfPlatform
<1>1. /\ cf \in O /\ cfg \in Configs["feature_flags"] /\ tf = A /\ d = A /\ pc = "idle"
      /\ op = "none" /\ todo = <<>> /\ result = "none" /\ edits = 0 /\ mishaps = 0
  BY DEF Ff!Init, Ff!Idle, FfPlatform
<1>2. A \in D
  BY <1>1, FfPlanned
<1> HIDE DEF A, D, O
<1>3. Typed(Configs["feature_flags"], D, O, FfCalls)
  BY <1>1, <1>2, InitTyped
<1>4. FfTyped
  BY <1>3 DEF FfTyped, D, O
<1> QED
  BY <1>1, <1>4 DEF FfInv, FfPromise, Ff!Truthful, Ff!Told

(* it is kept by every step of feature flags, *)
LEMMA FfStep ==
  FfInv /\ (Ff!Run \/ Ff!Operate \/ Ff!Disturb) => FfInv' /\ (Refreshes => Ff!AsAsked')
<1> SUFFICES ASSUME FfInv, Ff!Run \/ Ff!Operate \/ Ff!Disturb
             PROVE  FfInv' /\ (Refreshes => Ff!AsAsked')
  OBVIOUS
<1>1. FfInv'
  BY FfRefreshStep, FfCreateStep, FfUpdateStep, FfDeletionStep, FfPerformStep, FfQuietStep
  DEF Ff!Run, Ff!Operate, Ff!Disturb
<1>2. ASSUME Refreshes PROVE Ff!Refresh
  BY <1>2, OnlyRefreshes, FfCore
  DEF Refreshes, Ff!Run, Ff!Operate, Ff!Disturb, Ff!NothingToDo, Ff!Create, Ff!Update,
      Ff!Perform, Ff!Destroy, Ff!OthersChange
<1>3. Refreshes => Ff!AsAsked'
  BY <1>2, FfRefreshStep
<1> QED
  BY <1>1, <1>3

(* and by a step that changes nothing. *)
LEMMA FfStutter == FfInv /\ UNCHANGED vars => FfInv'
<1> SUFFICES ASSUME FfInv, UNCHANGED vars PROVE FfInv'
  OBVIOUS
<1>1. FfTyped'
  BY StutterTyped DEF FfInv, FfTyped
<1> QED
  BY <1>1 DEF vars, FfInv, FfPromise, Ff!Truthful, Ff!Told

-----------------------------------------------------------------------------
(* Security groups.                                                         *)
LEMMA SgCore ==
  /\ \A what, arg : Sg!Call(what, arg) = Call(what, arg)
  /\ (Sg!NoMishap <=> NoMishap) /\ (\A where : Sg!Mishap(where) <=> Mishap(where))
  /\ \A new : (Sg!Refreshed(new) <=> Refreshed(new)) /\ (Sg!Others(new) <=> Others(new))
  /\ \A s : Sg!Settled(s) <=> Settled(s)
  /\ \A what, x, calls : Sg!Begin(what, x, calls) <=> Begin(what, x, calls)
  /\ \A what, x : Sg!GivesUp(what, x) <=> GivesUp(what, x)
  /\ \A calls : Sg!Removed(calls) <=> Removed(calls)
  /\ \A new, x, possible, dropped :
       Sg!Calling(new, x, possible, dropped) <=> Calling(new, x, possible, dropped)
  /\ \A x : (Sg!EndOperation(x) <=> EndOperation(x)) /\ (Sg!Crash(x) <=> Crash(x))
  /\ (Sg!Finish <=> Finish) /\ (Sg!EditConfig <=> EditOf(Configs["security_group"]))
  /\ Sg!Told <=> Told
  /\ Sg!CoreOK <=> Core(Configs["security_group"])
BY DEF Sg!Call, Sg!NoMishap, Sg!Mishap, Sg!Answers, Sg!Answer, Sg!Done,
       Sg!Refreshed, Sg!Settled, Sg!Begin, Sg!GivesUp, Sg!Calling, Sg!Finish,
       Sg!EndOperation, Sg!Crash, Sg!EditConfig, Sg!Others, Sg!Removed, Sg!Idle,
       Sg!Told, Sg!CoreOK, Call, NoMishap, Mishap, Answers, Answer, Done,
       Refreshed, Settled, Begin, GivesUp, Calling, Finish, EndOperation, Crash,
       Others, Removed, Idle, Told, EditOf, Core

SgCalls ==
  {c \in [do : {"post", "find", "rules", "tryRules", "list", "staging", "running", "delete"},
          arg : Rules \cup BOOLEAN] :
     /\ c.do \in {"post", "rules", "tryRules"} => c.arg \in Rules
     /\ c.do \in {"staging", "running"} => c.arg \in BOOLEAN}

SgMaking(x) ==
  {c \in SgCalls : /\ c.do # "delete"
                   /\ c.do \in {"post", "rules", "tryRules"} => c.arg = x.rules
                   /\ c.do = "staging" => c.arg = x.staging
                   /\ c.do = "running" => c.arg = x.running}

(* The calls q of an operation make of the group y what the resource data x *)
(* say, but for rules that m errors may have lost, and for the sets that a  *)
(* Create takes no group out of.                                            *)
SgLeads(x, y, q, what, m) ==
  /\ q \in Seq(SgMaking(x)) /\ "post" \notin Later(q)
  /\ "post" \in Does(q) => what = "create"
  /\ "tryRules" \in Does(q) => what = "update"
  /\ "post" \in Does(q) \/ y.there
  /\ \/ "post" \in Does(q) \/ "rules" \in Does(q) \/ "tryRules" \in Does(q)
     \/ y.rules = x.rules \/ (what = "update" /\ m > 0)
  /\ \/ "staging" \in Does(q) \/ (what = "create" /\ ~x.staging)
     \/ "post" \notin Does(q) /\ y.staging = x.staging
  /\ \/ "running" \in Does(q) \/ (what = "create" /\ ~x.running)
     \/ "post" \notin Does(q) /\ y.running = x.running

SgTyped == Typed(Configs["security_group"], Sg!Data, Sg!Group, SgCalls)
SgPromise ==
  pc = "call" /\ op \in {"create", "update"} /\ (d.there \/ "find" \in Does(todo))
    => SgLeads(d, cf, todo, op, mishaps)
SgInv == SgTyped /\ SgPromise /\ Sg!Truthful

(* What a plan asks for, and what Terraform keeps of what is gone, for a    *)
(* security group, are resource data.                                       *)
LEMMA SgPlanned ==
  ASSUME cfg \in Configs["security_group"]
  PROVE  /\ Sg!Planned(TRUE) \in Sg!Data /\ Sg!Absent \in Sg!Data
         /\ cfg \in Sg!Config
         /\ Sg!Planned(TRUE).rules = cfg.rules /\ Sg!Planned(TRUE).staging = cfg.staging
         /\ Sg!Planned(TRUE).running = cfg.running
         /\ Sg!Absent.rules = cfg.rules /\ Sg!Absent.staging = cfg.staging
         /\ Sg!Absent.running = cfg.running /\ ~Sg!Absent.there
<1>1. cfg \in Sg!Config
  BY ResourcesAssumption DEF Sg!SecurityGroupsAssumption, ResourcesAssumption
<1> QED
  BY <1>1 DEF Sg!Config, Sg!Data, Sg!Planned, Sg!Absent

(* Every call of a security group that carries its work out is one of its   *)
(* calls.                                                                   *)
LEMMA SgMakes ==
  ASSUME NEW x
  PROVE  \A q \in Seq(SgMaking(x)) : q \in Seq(SgCalls)
<1>1. SgMaking(x) \subseteq SgCalls
  BY DEF SgMaking
<1> HIDE DEF SgMaking, SgCalls
<1> QED
  BY <1>1, SeqOfMore

(* A Create puts the group in the sets that are asked for. *)
LEMMA SgBindings ==
  ASSUME cfg \in Sg!Config, NEW x, x.staging = cfg.staging, x.running = cfg.running
  PROVE  /\ Sg!Bindings \in Seq(SgMaking(x))
         /\ Does(Sg!Bindings) \subseteq {"staging", "running"}
         /\ x.staging => "staging" \in Does(Sg!Bindings)
         /\ x.running => "running" \in Does(Sg!Bindings)
<1> DEFINE T == SgMaking(x)
           b == Call("staging", TRUE)
           c == Call("running", TRUE)
           s == IF cfg.staging THEN <<b>> ELSE <<>>
           r == IF cfg.running THEN <<c>> ELSE <<>>
<1>1. cfg.staging \in BOOLEAN /\ cfg.running \in BOOLEAN
  BY DEF Sg!Config
<1>2. /\ b.do = "staging" /\ c.do = "running"
      /\ cfg.staging => b \in T
      /\ cfg.running => c \in T
  BY <1>1 DEF SgMaking, SgCalls, Call
<1>3. Sg!Bindings = s \o r
  BY DEF Sg!Bindings, Sg!Call, Call
<1> HIDE DEF T, b, c
<1>4. (s = <<b>> /\ b \in T /\ cfg.staging) \/ (s = <<>> /\ ~cfg.staging)
  BY <1>1, <1>2
<1>5. (r = <<c>> /\ c \in T /\ cfg.running) \/ (r = <<>> /\ ~cfg.running)
  BY <1>1, <1>2
<1> HIDE DEF s, r
<1>6. /\ s \in Seq(T) /\ Does(s) \subseteq {"staging"}
      /\ cfg.staging => "staging" \in Does(s)
  <2>1. CASE s = <<b>>
    BY <1>2, <1>4, <2>1, Few
  <2>2. CASE s = <<>>
    BY <1>4, <2>2, Few
  <2> QED
    BY <1>4, <2>1, <2>2
<1>7. /\ r \in Seq(T) /\ Does(r) \subseteq {"running"}
      /\ cfg.running => "running" \in Does(r)
  <2>1. CASE r = <<c>>
    BY <1>2, <1>5, <2>1, Few
  <2>2. CASE r = <<>>
    BY <1>5, <2>2, Few
  <2> QED
    BY <1>5, <2>1, <2>2
<1> DEFINE q == s \o r
<1>8. q \in Seq(T) /\ Does(q) = Does(s) \cup Does(r)
  BY <1>6, <1>7, Cat
<1> HIDE DEF q
<1> QED
  BY <1>3, <1>6, <1>7, <1>8 DEF q, T

(* An Update changes the sets that the group is in. *)
LEMMA SgSetCalls ==
  ASSUME cfg \in Sg!Config, NEW x, x.staging = cfg.staging, x.running = cfg.running
  PROVE  /\ Sg!SetCalls \in Seq(SgMaking(x))
         /\ Does(Sg!SetCalls) \subseteq {"staging", "running"}
         /\ cf.staging = x.staging \/ "staging" \in Does(Sg!SetCalls)
         /\ cf.running = x.running \/ "running" \in Does(Sg!SetCalls)
<1> DEFINE T == SgMaking(x)
           b == Call("staging", cfg.staging)
           c == Call("running", cfg.running)
           s == IF cf.staging # cfg.staging THEN <<b>> ELSE <<>>
           r == IF cf.running # cfg.running THEN <<c>> ELSE <<>>
<1>1. cfg.staging \in BOOLEAN /\ cfg.running \in BOOLEAN
  BY DEF Sg!Config
<1>2. b.do = "staging" /\ c.do = "running" /\ b \in T /\ c \in T
  BY <1>1 DEF SgMaking, SgCalls, Call
<1>3. Sg!SetCalls = s \o r
  BY DEF Sg!SetCalls, Sg!Call, Call
<1> HIDE DEF T, b, c
<1>4. s = <<b>> \/ (s = <<>> /\ cf.staging = cfg.staging)
  OBVIOUS
<1>5. r = <<c>> \/ (r = <<>> /\ cf.running = cfg.running)
  OBVIOUS
<1> HIDE DEF s, r
<1>6. /\ s \in Seq(T) /\ Does(s) \subseteq {"staging"}
      /\ cf.staging = cfg.staging \/ "staging" \in Does(s)
  <2>1. CASE s = <<b>>
    BY <1>2, <1>4, <2>1, Few
  <2>2. CASE s = <<>>
    BY <1>4, <2>2, Few
  <2> QED
    BY <1>4, <2>1, <2>2
<1>7. /\ r \in Seq(T) /\ Does(r) \subseteq {"running"}
      /\ cf.running = cfg.running \/ "running" \in Does(r)
  <2>1. CASE r = <<c>>
    BY <1>2, <1>5, <2>1, Few
  <2>2. CASE r = <<>>
    BY <1>5, <2>2, Few
  <2> QED
    BY <1>5, <2>1, <2>2
<1> DEFINE q == s \o r
<1>8. q \in Seq(T) /\ Does(q) = Does(s) \cup Does(r)
  BY <1>6, <1>7, Cat
<1> HIDE DEF q
<1> QED
  BY <1>3, <1>6, <1>7, <1>8 DEF q, T

(* An operation on a security group whose calls lead to what it was asked   *)
(* begins with the invariant.                                               *)
LEMMA SgBegins ==
  ASSUME SgTyped, NEW what \in {"create", "update"}, NEW x \in Sg!Data,
         NEW calls \in Seq(SgCalls), AnyMishap, Begin(what, x, calls),
         x.there \/ "find" \in Does(calls) => SgLeads(x, cf, calls, what, 0)
  PROVE  SgInv'
<1>1. /\ SgTyped' /\ UNCHANGED <<cf>> /\ pc' = "call" /\ op' = what /\ d' = x
      /\ todo' = calls
  BY BeginTyped DEF SgTyped
<1> QED
  BY <1>1 DEF SgInv, SgPromise, SgLeads, Sg!Truthful, Sg!Told

(* So does one that fails before its first call. *)
LEMMA SgGivesUp ==
  ASSUME SgTyped, NEW what \in {"create", "update"}, NEW x \in Sg!Data,
         AnyMishap, GivesUp(what, x)
  PROVE  SgInv'
<1>1. SgTyped' /\ pc' = "return" /\ result' = "failed"
  BY GivesUpTyped DEF SgTyped
<1> QED
  BY <1>1 DEF SgInv, SgPromise, Sg!Truthful, Sg!Told

(* The invariant of a security group is kept by Create, *)
LEMMA SgCreateStep == SgInv /\ Sg!Create => SgInv'
<1> SUFFICES ASSUME SgInv, Sg!Create PROVE SgInv'
  OBVIOUS
<1>1. SgTyped /\ cfg \in Configs["security_group"]
  BY DEF SgInv, SgTyped, Typed, Core
<1> DEFINE P == Sg!Planned(TRUE)
           A == Sg!Absent
           s == Sg!Bindings
           r == Call("rules", cfg.rules)
           f == Call("post", cfg.rules)
           l == Call("find", FALSE)
<1>2. \/ AnyMishap /\ cf.there /\ Begin("create", P, <<r>> \o s)
      \/ AnyMishap /\ Begin("create", A, <<f, l>> \o s)
  BY SgCore DEF Sg!Create, AnyMishap, Sg!Call, Call
<1>3. /\ cfg \in Sg!Config /\ P \in Sg!Data /\ A \in Sg!Data
      /\ P.rules = cfg.rules /\ P.staging = cfg.staging /\ P.running = cfg.running
      /\ A.rules = cfg.rules /\ A.staging = cfg.staging /\ A.running = cfg.running
  BY <1>1, SgPlanned
<1> HIDE DEF P, A
<1>4. /\ r.do = "rules" /\ f.do = "post" /\ l.do = "find"
      /\ r \in SgMaking(P) /\ f \in SgMaking(A) /\ l \in SgMaking(A)
  BY <1>3 DEF SgMaking, SgCalls, Call, Sg!Config
<1> HIDE DEF r, f, l
<1>5. CASE AnyMishap /\ cf.there /\ Begin("create", P, <<r>> \o s)
  <2>1. /\ s \in Seq(SgMaking(P)) /\ Does(s) \subseteq {"staging", "running"}
        /\ P.staging => "staging" \in Does(s)
        /\ P.running => "running" \in Does(s)
    BY <1>3, SgBindings
  <2> HIDE DEF s
  <2> DEFINE b == <<r>>
             q == b \o s
  <2>2. b \in Seq(SgMaking(P)) /\ Does(b) = {"rules"} /\ Later(b) = {}
    BY <1>4, Few
  <2>3. AnyMishap /\ cf.there /\ Begin("create", P, q)
    BY <1>5
  <2> HIDE DEF b
  <2>4. /\ q \in Seq(SgMaking(P)) /\ Does(q) = Does(b) \cup Does(s)
        /\ Later(q) \subseteq Later(b) \cup Does(s)
    BY <2>1, <2>2, Cat
  <2> HIDE DEF q
  <2>5. q \in Seq(SgCalls)
    BY <2>4, SgMakes
  <2>6. SgLeads(P, cf, q, "create", 0)
    BY <2>1, <2>2, <2>3, <2>4 DEF SgLeads
  <2> QED
    BY <1>1, <1>3, <2>3, <2>5, <2>6, SgBegins
<1>6. CASE AnyMishap /\ Begin("create", A, <<f, l>> \o s)
  <2>1. /\ s \in Seq(SgMaking(A)) /\ Does(s) \subseteq {"staging", "running"}
        /\ A.staging => "staging" \in Does(s)
        /\ A.running => "running" \in Does(s)
    BY <1>3, SgBindings
  <2> HIDE DEF s
  <2> DEFINE b == <<f, l>>
             q == b \o s
  <2>2. b \in Seq(SgMaking(A)) /\ Does(b) = {"post", "find"} /\ Later(b) = {"find"}
    BY <1>4, Few
  <2>3. AnyMishap /\ Begin("create", A, q)
    BY <1>6
  <2> HIDE DEF b
  <2>4. /\ q \in Seq(SgMaking(A)) /\ Does(q) = Does(b) \cup Does(s)
        /\ Later(q) \subseteq Later(b) \cup Does(s)
    BY <2>1, <2>2, Cat
  <2> HIDE DEF q
  <2>5. q \in Seq(SgCalls)
    BY <2>4, SgMakes
  <2>6. SgLeads(A, cf, q, "create", 0)
    BY <2>1, <2>2, <2>3, <2>4 DEF SgLeads
  <2> QED
    BY <1>1, <1>3, <2>3, <2>5, <2>6, SgBegins
<1> QED
  BY <1>2, <1>5, <1>6

(* by Update, *)
LEMMA SgUpdateStep == SgInv /\ Sg!Update => SgInv'
<1> SUFFICES ASSUME SgInv, Sg!Update PROVE SgInv'
  OBVIOUS
<1>1. SgTyped /\ cfg \in Configs["security_group"]
  BY DEF SgInv, SgTyped, Typed, Core
<1> DEFINE P == Sg!Planned(TRUE)
           A == Sg!Absent
           s == Sg!SetCalls
           l == Call("list", FALSE)
           t == Call("tryRules", cfg.rules)
           e == <<>>
<1>2. \/ /\ cf.there /\ AnyMishap
         /\ \E r : /\ r = <<t>> \/ (r = <<>> /\ cf.rules = cfg.rules)
                   /\ Begin("update", P, r \o <<l>> \o s)
      \/ AnyMishap /\ Begin("update", A, e)
      \/ AnyMishap /\ GivesUp("update", P)
  BY SgCore DEF Sg!Update, Sg!RulesCalls, AnyMishap, Sg!Call, Call
<1>3. /\ cfg \in Sg!Config /\ P \in Sg!Data /\ A \in Sg!Data /\ ~A.there
      /\ P.rules = cfg.rules /\ P.staging = cfg.staging /\ P.running = cfg.running
  BY <1>1, SgPlanned
<1> HIDE DEF P, A
<1>4. t.do = "tryRules" /\ l.do = "list" /\ t \in SgMaking(P) /\ l \in SgMaking(P)
  BY <1>3 DEF SgMaking, SgCalls, Call, Sg!Config
<1>5. e \in Seq(SgCalls) /\ Does(e) = {}
  BY Few
<1> HIDE DEF t, l, e
<1>6. CASE /\ cf.there /\ AnyMishap
           /\ \E r : /\ r = <<t>> \/ (r = <<>> /\ cf.rules = cfg.rules)
                     /\ Begin("update", P, r \o <<l>> \o s)
  <2>1. PICK r : /\ r = <<t>> \/ (r = <<>> /\ cf.rules = cfg.rules)
                 /\ Begin("update", P, r \o <<l>> \o s)
    BY <1>6
  <2>2. /\ s \in Seq(SgMaking(P)) /\ Does(s) \subseteq {"staging", "running"}
        /\ cf.staging = P.staging \/ "staging" \in Does(s)
        /\ cf.running = P.running \/ "running" \in Does(s)
    BY <1>3, SgSetCalls
  <2> HIDE DEF s
  <2> DEFINE b == <<l>>
             h == r \o b
             q == h \o s
  <2>3. b \in Seq(SgMaking(P)) /\ Does(b) = {"list"} /\ Later(b) = {}
    BY <1>4, Few
  <2>4. /\ r \in Seq(SgMaking(P)) /\ Does(r) \subseteq {"tryRules"}
        /\ cf.rules = P.rules \/ Does(r) = {"tryRules"}
        /\ Later(r) = {}
    <3>1. CASE r = <<t>>
      BY <1>4, <3>1, Few
    <3>2. CASE r = <<>> /\ cf.rules = cfg.rules
      BY <1>3, <3>2, Few
    <3> QED
      BY <2>1, <3>1, <3>2
  <2>5. AnyMishap /\ cf.there /\ Begin("update", P, q)
    BY <1>6, <2>1
  <2> HIDE DEF b
  <2>6. /\ h \in Seq(SgMaking(P)) /\ Does(h) = Does(r) \cup Does(b)
    BY <2>3, <2>4, Cat
  <2> HIDE DEF h
  <2>7. /\ q \in Seq(SgMaking(P)) /\ Does(q) = Does(h) \cup Does(s)
    BY <2>2, <2>6, Cat
  <2> HIDE DEF q
  <2>8. q \in Seq(SgCalls)
    BY <2>7, SgMakes
  <2>9. "post" \notin Does(q) /\ "post" \notin Later(q)
    BY <2>2, <2>3, <2>4, <2>6, <2>7, LaterToo
  <2>10. SgLeads(P, cf, q, "update", 0)
    <3>1. /\ cf.rules = P.rules \/ "tryRules" \in Does(q)
          /\ cf.staging = P.staging \/ "staging" \in Does(q)
          /\ cf.running = P.running \/ "running" \in Does(q)
      BY <2>2, <2>4, <2>6, <2>7
    <3> QED
      BY <2>5, <2>7, <2>9, <3>1 DEF SgLeads
  <2> QED
    BY <1>1, <1>3, <2>5, <2>8, <2>10, SgBegins
<1>7. CASE AnyMishap /\ Begin("update", A, e)
  BY <1>1, <1>3, <1>5, <1>7, SgBegins
<1>8. CASE AnyMishap /\ GivesUp("update", P)
  BY <1>1, <1>3, <1>8, SgGivesUp
<1> QED
  BY <1>2, <1>6, <1>7, <1>8

(* by a deletion, in a destroy or a replacement, *)
LEMMA SgDeletionStep == SgInv /\ (Sg!Replace \/ Sg!Destroy) => SgInv'
<1> SUFFICES ASSUME SgInv, Sg!Replace \/ Sg!Destroy PROVE SgInv'
  OBVIOUS
<1> DEFINE q == Sg!DeleteCalls
<1>1. SgTyped /\ tf \in Sg!Data
  BY DEF SgInv, SgTyped, Typed
<1>2. q \in Seq(SgCalls)
  <2> DEFINE c == Call("delete", FALSE)
  <2>1. c \in SgCalls /\ q = <<c>>
    BY DEF SgCalls, Call, Sg!DeleteCalls, Sg!Call
  <2> HIDE DEF c, q
  <2> QED
    BY <2>1
<1>3. (AnyMishap /\ Begin("delete", tf, q)) \/ Removed(q)
  BY SgCore DEF Sg!Replace, Sg!Destroy, AnyMishap
<1> HIDE DEF q
<1>4. SgTyped' /\ pc' = "call" /\ op' = "delete"
  BY <1>1, <1>2, <1>3, BeginTyped DEF SgTyped
<1> QED
  BY <1>4 DEF SgInv, SgPromise, Sg!Truthful, Sg!Told

(* by each call and each of its answers, *)
LEMMA SgPerformStep == SgInv /\ Sg!Perform => SgInv'
<1> SUFFICES ASSUME SgInv, Sg!Perform PROVE SgInv'
  OBVIOUS
<1> DEFINE y == Sg!Effect(First)
           x == IF First.do = "find" THEN [d EXCEPT !.there = TRUE] ELSE d
           can == cf.there <=> First.do # "post"
           dropped == First.do = "tryRules"
           D == Sg!Data
           O == Sg!Group
<1>1. Calling(y, x, can, dropped) /\ todo # <<>>
  BY SgCore DEF Sg!Perform, First, Sg!Dropped
<1>2. SgTyped /\ cf \in Sg!Group /\ d \in Sg!Data /\ todo \in Seq(SgCalls)
  BY DEF SgInv, SgTyped, Typed
<1>3. /\ First \in SgCalls /\ Does(todo) = {First.do} \cup Does(Rest)
      /\ Does(Rest) = Later(todo) /\ Later(Rest) \subseteq Later(todo)
  BY <1>1, <1>2, FirstAndRest
<1>4. can \in BOOLEAN /\ dropped \in BOOLEAN /\ (dropped <=> First.do = "tryRules")
  BY <1>2 DEF Sg!Group
<1>5. /\ x \in Sg!Data /\ x.rules = d.rules /\ x.staging = d.staging /\ x.running = d.running
      /\ x.there => d.there \/ First.do = "find"
  BY <1>2 DEF Sg!Data
<1>6. y \in Sg!Group
  BY <1>2, <1>3, ResourcesAssumption
  DEF Sg!Effect, Sg!Group, Sg!Data, SgCalls, Sg!SecurityGroupsAssumption, ResourcesAssumption
<1>7. Typed(Configs["security_group"], D, O, SgCalls) /\ x \in D /\ y \in O
  BY <1>2, <1>5, <1>6 DEF SgTyped
<1> HIDE DEF y, x, can, dropped, D, O
<1>8. /\ Typed(Configs["security_group"], D, O, SgCalls)' /\ pc = "call"
      /\ \/ can /\ Answered(y, x)
         \/ dropped /\ Ignored(y, can)
         \/ pc' = "return" /\ result' = "failed"
  BY <1>1, <1>4, <1>7, DroppedCallTyped
<1>9. SgTyped'
  BY <1>8 DEF SgTyped, D, O
<1>10. CASE pc' = "return" /\ result' = "failed"
  BY <1>8, <1>9, <1>10 DEF SgInv, SgPromise, Sg!Truthful, Sg!Told
<1>11. CASE can /\ Answered(y, x)
  <2>1. ASSUME SgLeads(d, cf, todo, op, mishaps) PROVE SgLeads(x, y, Rest, op, mishaps)
    <3>1. todo \in Seq(SgMaking(d))
      BY <2>1 DEF SgLeads
    <3>2. First \in SgMaking(d) /\ Rest \in Seq(SgMaking(d))
      <4> HIDE DEF SgMaking
      <4> QED
        BY <1>1, <3>1, FirstAndRest
    <3>3. SgMaking(x) = SgMaking(d)
      BY <1>5 DEF SgMaking
    <3>4. \/ First.do = "post" /\ ~cf.there
          \/ First.do # "post" /\ cf.there /\ "post" \notin Does(todo)
      BY <1>3, <1>11, <2>1 DEF SgLeads, can
    <3>5. /\ y.there /\ "post" \notin Does(Rest) /\ "post" \notin Later(Rest)
          /\ "tryRules" \in Does(Rest) => op = "update"
      <4>1. y.there
        BY <1>2, <3>2, <3>4 DEF SgMaking, Sg!Effect, y, Sg!Group
      <4>2. /\ "post" \notin Does(Rest) /\ "post" \notin Later(Rest)
            /\ "tryRules" \in Does(Rest) => op = "update"
        BY <1>3, <2>1 DEF SgLeads
      <4> QED
        BY <4>1, <4>2
    <3>6. \/ "post" \in Does(Rest) \/ "rules" \in Does(Rest) \/ "tryRules" \in Does(Rest)
          \/ y.rules = x.rules \/ (op = "update" /\ mishaps > 0)
      <4>1. CASE First.do \in {"post", "rules", "tryRules"}
        BY <1>2, <1>5, <3>2, <4>1 DEF SgMaking, Sg!Effect, y, Sg!Group
      <4>2. CASE First.do \notin {"post", "rules", "tryRules"}
        <5>1. y.rules = cf.rules
          BY <1>2, <3>2, <4>2 DEF SgMaking, Sg!Effect, y, Sg!Group
        <5> QED
          BY <1>3, <1>5, <2>1, <4>2, <5>1 DEF SgLeads
      <4> QED
        BY <4>1, <4>2
    <3>7. "staging" \in Does(Rest) \/ (op = "create" /\ ~x.staging) \/ y.staging = x.staging
      <4>1. CASE First.do = "staging"
        BY <1>2, <1>5, <3>2, <4>1 DEF SgMaking, Sg!Effect, y, Sg!Group
      <4>2. CASE First.do # "staging" /\ First.do # "post"
        <5>1. y.staging = cf.staging
          BY <1>2, <3>2, <4>2 DEF SgMaking, Sg!Effect, y, Sg!Group
        <5> QED
          BY <1>3, <1>5, <2>1, <4>2, <5>1 DEF SgLeads
      <4>3. CASE First.do = "post"
        BY <1>3, <1>5, <2>1, <4>3 DEF SgLeads
      <4> QED
        BY <4>1, <4>2, <4>3
    <3>8. "running" \in Does(Rest) \/ (op = "create" /\ ~x.running) \/ y.running = x.running
      <4>1. CASE First.do = "running"
        BY <1>2, <1>5, <3>2, <4>1 DEF SgMaking, Sg!Effect, y, Sg!Group
      <4>2. CASE First.do # "running" /\ First.do # "post"
        <5>1. y.running = cf.running
          BY <1>2, <3>2, <4>2 DEF SgMaking, Sg!Effect, y, Sg!Group
        <5> QED
          BY <1>3, <1>5, <2>1, <4>2, <5>1 DEF SgLeads
      <4>3. CASE First.do = "post"
        BY <1>3, <1>5, <2>1, <4>3 DEF SgLeads
      <4> QED
        BY <4>1, <4>2, <4>3
    <3> QED
      BY <3>2, <3>3, <3>5, <3>6, <3>7, <3>8 DEF SgLeads
  <2>2. SgPromise'
    BY <1>3, <1>5, <1>8, <1>11, <2>1 DEF SgInv, SgPromise, Answered
  <2> QED
    BY <1>8, <1>9, <1>11, <2>2 DEF SgInv, Sg!Truthful, Sg!Told, Answered
<1>12. CASE dropped /\ Ignored(y, can)
  <2>1. ASSUME SgLeads(d, cf, todo, op, mishaps) PROVE SgLeads(d, cf', Rest, op, mishaps')
    <3>1. First.do = "tryRules" /\ todo \in Seq(SgMaking(d))
      BY <1>4, <1>12, <2>1 DEF SgLeads
    <3>2. First \in SgMaking(d) /\ Rest \in Seq(SgMaking(d))
      <4> HIDE DEF SgMaking
      <4> QED
        BY <1>1, <3>1, FirstAndRest
    <3>3. op = "update" /\ "post" \notin Does(todo) /\ cf.there
      BY <1>3, <2>1, <3>1 DEF SgLeads
    <3>4. mishaps' = mishaps + 1 /\ mishaps \in Nat
      <4>1. mishaps \in 0 .. MaxMishaps /\ MaxMishaps \in Nat
        BY <1>2, TerraformAssumption DEF SgTyped, Typed, Core, TerraformAssumption
      <4> QED
        BY <1>12, <3>1, <3>3, <4>1 DEF Ignored, can
    <3>5. cf'.there /\ cf'.staging = cf.staging /\ cf'.running = cf.running
      BY <1>2, <1>12, <3>1, <3>3 DEF Ignored, y, Sg!Effect, Sg!Group
    <3>6. /\ "post" \notin Does(Rest) /\ "post" \notin Later(Rest)
          /\ "tryRules" \in Does(Rest) => op = "update"
          /\ cf.staging = d.staging \/ "staging" \in Does(Rest)
          /\ cf.running = d.running \/ "running" \in Does(Rest)
      BY <1>3, <2>1, <3>1, <3>3 DEF SgLeads
    <3> QED
      BY <3>2, <3>3, <3>4, <3>5, <3>6 DEF SgLeads
  <2>2. SgPromise'
    BY <1>3, <1>8, <1>12, <2>1 DEF SgInv, SgPromise, Ignored
  <2> QED
    BY <1>8, <1>9, <1>12, <2>2 DEF SgInv, Sg!Truthful, Sg!Told, Ignored
<1> QED
  BY <1>8, <1>9, <1>10, <1>11, <1>12

(* An empty plan has what was read of the group. *)
LEMMA SgRefreshStep == SgInv /\ Sg!Refresh => SgInv' /\ Sg!AsAsked'
<1> SUFFICES ASSUME SgInv, Sg!Refresh PROVE SgInv' /\ Sg!AsAsked'
  OBVIOUS
<1>1. SgTyped /\ cfg \in Configs["security_group"] /\ tf \in Sg!Data /\ cf \in Sg!Group
  BY DEF SgInv, SgTyped, Typed, Core
<1>2. Sg!Absent \in Sg!Data /\ ~Sg!Absent.there
  BY <1>1, SgPlanned
<1>3. PICK new \in Sg!Data :
        /\ AnyMishap /\ Refreshed(new)
        /\ new.there => /\ new.rules = cf.rules /\ new.staging = cf.staging
                        /\ new.running = cf.running
  <2> DEFINE A == Sg!Absent
             r == Sg!Read
  <2>1. NoMishap /\ (Refreshed(r) \/ Refreshed(A))
    BY SgCore DEF Sg!Refresh
  <2>2. /\ r \in Sg!Data /\ r.rules = cf.rules /\ r.staging = cf.staging
        /\ r.running = cf.running
    BY <1>1 DEF Sg!Read, Sg!Data, Sg!Group
  <2> HIDE DEF A, r
  <2> QED
    BY <1>2, <2>1, <2>2 DEF AnyMishap, A
<1>4. SgTyped' /\ pc' = "plan" /\ tf' = new /\ UNCHANGED <<cfg, cf>>
  BY <1>1, <1>3, RefreshTyped DEF SgTyped, Refreshed
<1>5. SgInv'
  BY <1>4 DEF SgInv, SgPromise, Sg!Truthful, Sg!Told
<1>6. Sg!AsAsked'
  BY <1>3, <1>4 DEF Sg!AsAsked, Sg!InSync, Sg!Planned
<1> QED
  BY <1>5, <1>6

(* and by the steps that leave an operation that is under way alone. *)
LEMMA SgQuietStep ==
  SgInv /\ (\/ Sg!NothingToDo \/ Sg!Finish \/ Sg!EndOperation(Sg!Absent)
            \/ Sg!EditConfig \/ Sg!OthersChange \/ Sg!Crash(Sg!Absent))
    => SgInv'
<1> SUFFICES ASSUME SgInv,
                    \/ Sg!NothingToDo \/ Sg!Finish \/ Sg!EndOperation(Sg!Absent)
                    \/ Sg!EditConfig \/ Sg!OthersChange \/ Sg!Crash(Sg!Absent)
             PROVE  SgInv'
  OBVIOUS
<1> DEFINE A == Sg!Absent
           D == Sg!Data
           O == Sg!Group
<1>1. SgTyped /\ cfg \in Configs["security_group"] /\ cf \in O
  BY DEF SgInv, SgTyped, Typed, Core
<1>2. A \in D
  BY <1>1, SgPlanned
<1>3. CanTaint(D)
  BY DEF CanTaint, Sg!Data
<1>4. Sg!OthersChange => \E new \in O : Others(new)
  BY <1>1, SgCore DEF Sg!OthersChange, Sg!Group
<1>5. \/ \E s \in BOOLEAN : Settled(s)
      \/ Finish \/ EndOperation(A) \/ Crash(A) \/ Panics \/ Again
      \/ EditOf(Configs["security_group"]) \/ \E new \in O : Others(new)
  BY <1>4, SgCore DEF Sg!NothingToDo, Sg!InSync
<1> HIDE DEF A, D, O
<1>6. Typed(Configs["security_group"], D, O, SgCalls)
  BY <1>1 DEF SgTyped, D, O
<1>7. /\ Typed(Configs["security_group"], D, O, SgCalls)' /\ pc' # "call"
      /\ pc' = "return" => Finish
  BY <1>2, <1>3, <1>5, <1>6, QuietTyped
<1>8. SgTyped'
  BY <1>7 DEF SgTyped, D, O
<1>9. SgPromise'
  BY <1>7 DEF SgPromise
<1>10. Sg!Truthful'
  <2> SUFFICES ASSUME Sg!Told' PROVE Sg!Truthful'
    BY DEF Sg!Truthful
  <2>1. /\ pc = "call" /\ todo = <<>> /\ op \in {"create", "update"} /\ d.there
        /\ UNCHANGED <<cf, d, tf, op, mishaps>>
    BY <1>7 DEF Sg!Told, Finish
  <2>2. SgLeads(d, cf, todo, op, mishaps)
    BY <2>1 DEF SgInv, SgPromise
  <2>3. /\ cf.there
        /\ cf.rules = d.rules \/ (op = "update" /\ mishaps > 0)
        /\ cf.staging = d.staging \/ (op = "create" /\ ~d.staging)
        /\ cf.running = d.running \/ (op = "create" /\ ~d.running)
    BY <1>1, <2>1, <2>2, Few DEF SgLeads
  <2> QED
    BY <2>1, <2>3 DEF Sg!Truthful
<1> QED
  BY <1>8, <1>9, <1>10 DEF SgInv

(* It holds at the start, *)
LEMMA SgInitInv == Sg!Init => SgInv
<1> SUFFICES ASSUME Sg!Init PROVE SgInv
  OBVIOUS
<1> DEFINE A == Sg!Absent
           D == Sg!Data
           O == Sg!Group
<1>1. /\ cf \in O /\ cfg \in Configs["security_group"] /\ tf = A /\ d = A /\ pc = "idle"
      /\ op = "none" /\ todo = <<>> /\ result = "none" /\ edits = 0 /\ mishaps = 0
  BY DEF Sg!Init, Sg!Idle
<1>2. A \in D
  BY <1>1, SgPlanned
<1> HIDE DEF A, D, O
<1>3. Typed(Configs["security_group"], D, O, SgCalls)
  BY <1>1, <1>2, InitTyped
<1>4. SgTyped
  BY <1>3 DEF SgTyped, D, O
<1> QED
  BY <1>1, <1>4 DEF SgInv, SgPromise, Sg!Truthful, Sg!Told

(* it is kept by every step of a security group, *)
LEMMA SgStep ==
  SgInv /\ (Sg!Run \/ Sg!Operate \/ Sg!Disturb) => SgInv' /\ (Refreshes => Sg!AsAsked')
<1> SUFFICES ASSUME SgInv, Sg!Run \/ Sg!Operate \/ Sg!Disturb
             PROVE  SgInv' /\ (Refreshes => Sg!AsAsked')
  OBVIOUS
<1>1. SgInv'
  BY SgRefreshStep, SgCreateStep, SgUpdateStep, SgDeletionStep, SgPerformStep, SgQuietStep
  DEF Sg!Run, Sg!Operate, Sg!Disturb
<1>2. ASSUME Refreshes PROVE Sg!Refresh
  BY <1>2, OnlyRefreshes, SgCore
  DEF Refreshes, Sg!Run, Sg!Operate, Sg!Disturb, Sg!NothingToDo, Sg!Create, Sg!Update, Sg!Replace,
      Sg!Perform, Sg!Destroy, Sg!OthersChange
<1>3. Refreshes => Sg!AsAsked'
  BY <1>2, SgRefreshStep
<1> QED
  BY <1>1, <1>3

(* and by a step that changes nothing. *)
LEMMA SgStutter == SgInv /\ UNCHANGED vars => SgInv'
<1> SUFFICES ASSUME SgInv, UNCHANGED vars PROVE SgInv'
  OBVIOUS
<1>1. SgTyped'
  BY StutterTyped DEF SgInv, SgTyped
<1> QED
  BY <1>1 DEF vars, SgInv, SgPromise, Sg!Truthful, Sg!Told

-----------------------------------------------------------------------------
(* Buildpacks.                                                              *)
LEMMA BuCore ==
  /\ \A what, arg : Bu!Call(what, arg) = Call(what, arg)
  /\ (Bu!NoMishap <=> NoMishap) /\ (\A where : Bu!Mishap(where) <=> Mishap(where))
  /\ \A new : (Bu!Refreshed(new) <=> Refreshed(new)) /\ (Bu!Others(new) <=> Others(new))
  /\ \A s : Bu!Settled(s) <=> Settled(s)
  /\ \A what, x, calls : Bu!Begin(what, x, calls) <=> Begin(what, x, calls)
  /\ \A what, x : Bu!GivesUp(what, x) <=> GivesUp(what, x)
  /\ \A calls : Bu!Removed(calls) <=> Removed(calls)
  /\ \A new, x, possible, dropped :
       Bu!Calling(new, x, possible, dropped) <=> Calling(new, x, possible, dropped)
  /\ \A x : (Bu!EndOperation(x) <=> EndOperation(x)) /\ (Bu!Crash(x) <=> Crash(x))
  /\ (Bu!Finish <=> Finish) /\ (Bu!EditConfig <=> EditOf(Configs["buildpack"]))
  /\ Bu!Told <=> Told
  /\ Bu!CoreOK <=> Core(Configs["buildpack"])
BY DEF Bu!Call, Bu!NoMishap, Bu!Mishap, Bu!Answers, Bu!Answer, Bu!Done,
       Bu!Refreshed, Bu!Settled, Bu!Begin, Bu!GivesUp, Bu!Calling, Bu!Finish,
       Bu!EndOperation, Bu!Crash, Bu!EditConfig, Bu!Others, Bu!Removed, Bu!Idle,
       Bu!Told, Bu!CoreOK, Call, NoMishap, Mishap, Answers, Answer, Done,
       Refreshed, Settled, Begin, GivesUp, Calling, Finish, EndOperation, Crash,
       Others, Removed, Idle, Told, EditOf, Core

BuCalls ==
  {c \in [do : {"post", "setId", "nothing", "get", "put", "zip", "upload", "delete"},
          arg : Options \cup Bu!Files \cup {None}] :
     /\ c.do \in {"post", "put"} => c.arg \in Options
     /\ c.do = "upload" => c.arg \in Bu!Files}

BuMaking(x) ==
  {c \in BuCalls : /\ c.do # "delete"
                   /\ c.do \in {"post", "put"} => c.arg = x.options
                   /\ c.do = "upload" => c.arg = Bu!Filename(x.path)}

(* The calls q make of the buildpack y what the resource data x say.        *)
BuLeads(x, y, q) ==
  /\ q \in Seq(BuMaking(x)) /\ "post" \notin Later(q)
  /\ "post" \in Does(q) \/ y.there
  /\ "post" \in Does(q) \/ "put" \in Does(q) \/ y.options = x.options
  /\ \/ "upload" \in Does(q) \/ Bu!Filename(x.path) = None
     \/ "post" \notin Does(q) /\ Bu!Filename(x.path) = y.file

BuTyped == Typed(Configs["buildpack"], Bu!Data, Bu!Buildpack, BuCalls)
BuPromise ==
  pc = "call" /\ op \in {"create", "update"} /\ ~Bu!SystemManaged(d)
      /\ (d.there \/ "setId" \in Does(todo))
    => BuLeads(d, cf, todo)
BuInv == BuTyped /\ BuPromise /\ Bu!Truthful

(* What a plan asks for, and what Terraform keeps of what is gone, for a    *)
(* buildpack, are resource data.                                            *)
LEMMA BuPlanned ==
  ASSUME cfg \in Configs["buildpack"]
  PROVE  /\ Bu!Planned(TRUE) \in Bu!Data /\ Bu!Absent \in Bu!Data
         /\ cfg \in Bu!Config
         /\ Bu!Planned(TRUE).path = cfg.path /\ Bu!Planned(TRUE).options = cfg.options
         /\ Bu!Absent.path = cfg.path /\ Bu!Absent.options = cfg.options
         /\ ~Bu!Absent.there
<1>1. cfg \in Bu!Config
  BY ResourcesAssumption DEF Bu!BuildpacksAssumption, ResourcesAssumption
<1> QED
  BY <1>1 DEF Bu!Config, Bu!Data, Bu!Planned, Bu!Absent

(* Every call of a buildpack that carries its work out is one of its calls. *)
LEMMA BuMakes ==
  ASSUME cfg \in Bu!Config, NEW x, x.path = cfg.path, x.options = cfg.options
  PROVE  /\ \A what \in {"setId", "nothing", "get", "zip"} : Call(what, None) \in BuMaking(x)
         /\ \A what \in {"post", "put"} : Call(what, cfg.options) \in BuMaking(x)
         /\ Bu!Filename(cfg.path) # None => Call("upload", Bu!Filename(cfg.path)) \in BuMaking(x)
         /\ \A q \in Seq(BuMaking(x)) : q \in Seq(BuCalls)
<1>1. /\ \A what \in {"setId", "nothing", "get", "zip"} : Call(what, None) \in BuMaking(x)
      /\ \A what \in {"post", "put"} : Call(what, cfg.options) \in BuMaking(x)
  BY DEF BuMaking, BuCalls, Call, Bu!Config
<1>2. Bu!Filename(cfg.path) # None => Call("upload", Bu!Filename(cfg.path)) \in BuMaking(x)
  <2>1. Bu!Filename(cfg.path) # None => Bu!Filename(cfg.path) \in Bu!Files
    BY DEF Bu!Filename, Bu!Files
  <2> QED
    BY <2>1 DEF BuMaking, BuCalls, Call
<1>3. BuMaking(x) \subseteq BuCalls
  BY DEF BuMaking
<1> HIDE DEF BuMaking, BuCalls
<1> QED
  BY <1>1, <1>2, <1>3, SeqOfMore

(* The options are sent always, the archive if its file is another (186).   *)
LEMMA BuUpdateCalls ==
  ASSUME cfg \in Bu!Config, NEW x, x.path = cfg.path, x.options = cfg.options, NEW file
  PROVE  /\ Bu!UpdateCalls(file) \in Seq(BuMaking(x))
         /\ Does(Bu!UpdateCalls(file)) \subseteq {"put", "zip", "upload"}
         /\ "put" \in Does(Bu!UpdateCalls(file))
         /\ \/ "upload" \in Does(Bu!UpdateCalls(file))
            \/ Bu!Filename(x.path) \in {None, file}
<1> DEFINE T == BuMaking(x)
           f == Bu!Filename(cfg.path)
           p == Call("put", cfg.options)
           z == Call("zip", None)
           u == Call("upload", f)
           a == <<p>>
           b == IF f \notin {None, file} THEN <<z, u>> ELSE <<>>
           q == a \o b
<1>1. Bu!UpdateCalls(file) = q
  BY DEF Bu!UpdateCalls, Bu!Call, Call
<1>2. /\ p \in T /\ z \in T /\ (f # None => u \in T)
      /\ p.do = "put" /\ z.do = "zip" /\ u.do = "upload"
  BY BuMakes, CallFields
<1>3. f = Bu!Filename(x.path)
  OBVIOUS
<1> HIDE DEF T, f, p, z, u
<1>4. (b = <<z, u>> /\ f # None) \/ (b = <<>> /\ f \in {None, file})
  OBVIOUS
<1>5. a \in Seq(T) /\ Does(a) = {"put"}
  BY <1>2, Few
<1> HIDE DEF a, b
<1>6. /\ b \in Seq(T) /\ Does(b) \subseteq {"zip", "upload"}
      /\ "upload" \in Does(b) \/ f \in {None, file}
  <2>1. CASE b = <<z, u>> /\ f # None
    BY <1>2, <2>1, Few
  <2>2. CASE b = <<>> /\ f \in {None, file}
    BY <2>2, Few
  <2> QED
    BY <1>4, <2>1, <2>2
<1>7. q \in Seq(T) /\ Does(q) = Does(a) \cup Does(b)
  BY <1>5, <1>6, Cat
<1> HIDE DEF q
<1> QED
  BY <1>1, <1>3, <1>5, <1>6, <1>7 DEF T

(* What a Create and an Update of a buildpack do behind their first call.   *)
LEMMA BuBehind ==
  ASSUME cfg \in Bu!Config, NEW x, x.path = cfg.path, x.options = cfg.options, NEW file
  PROVE  /\ Bu!Behind(file) \in Seq(BuMaking(x))
         /\ Does(Bu!Behind(file)) \subseteq {"put", "zip", "upload"}
         /\ \/ Bu!SystemManaged(x)
            \/ /\ "put" \in Does(Bu!Behind(file))
               /\ \/ "upload" \in Does(Bu!Behind(file))
                  \/ Bu!Filename(x.path) \in {None, file}
<1>1. Bu!SystemManaged(x) <=> Bu!SystemManaged(cfg)
  BY DEF Bu!SystemManaged
<1> DEFINE q == Bu!Behind(file)
<1>2. (q = <<>> /\ Bu!SystemManaged(x)) \/ (q = Bu!UpdateCalls(file) /\ ~Bu!SystemManaged(x))
  BY <1>1 DEF Bu!Behind
<1> HIDE DEF q
<1>3. CASE q = <<>> /\ Bu!SystemManaged(x)
  BY <1>3, Few DEF q
<1>4. CASE q = Bu!UpdateCalls(file) /\ ~Bu!SystemManaged(x)
  BY <1>4, BuUpdateCalls DEF q
<1> QED
  BY <1>2, <1>3, <1>4

(* An operation on a buildpack whose calls lead to what it was asked begins *)
(* with the invariant.                                                      *)
LEMMA BuBegins ==
  ASSUME BuTyped, NEW what \in {"create", "update"}, NEW x \in Bu!Data,
         NEW calls \in Seq(BuCalls), AnyMishap, Begin(what, x, calls),
         (x.there \/ "setId" \in Does(calls)) /\ ~Bu!SystemManaged(x) => BuLeads(x, cf, calls)
  PROVE  BuInv'
<1>1. /\ BuTyped' /\ UNCHANGED <<cf>> /\ pc' = "call" /\ op' = what /\ d' = x
      /\ todo' = calls
  BY BeginTyped DEF BuTyped
<1> QED
  BY <1>1 DEF BuInv, BuPromise, Bu!Truthful, Bu!Told

(* So does one that fails before its first call. *)
LEMMA BuGivesUp ==
  ASSUME BuTyped, NEW what \in {"create", "update"}, NEW x \in Bu!Data,
         AnyMishap, GivesUp(what, x)
  PROVE  BuInv'
<1>1. BuTyped' /\ pc' = "return" /\ result' = "failed"
  BY GivesUpTyped DEF BuTyped
<1> QED
  BY <1>1 DEF BuInv, BuPromise, Bu!Truthful, Bu!Told

(* The invariant of a buildpack is kept by Create, *)
LEMMA BuCreateStep == BuInv /\ Bu!Create => BuInv'
<1> SUFFICES ASSUME BuInv, Bu!Create PROVE BuInv'
  OBVIOUS
<1>1. BuTyped /\ cfg \in Configs["buildpack"]
  BY DEF BuInv, BuTyped, Typed, Core
<1> DEFINE P == Bu!Planned(TRUE)
           A == Bu!Absent
           g == Call("get", None)
           f == Call("post", cfg.options)
           i == Call("setId", None)
           n == Call("nothing", None)
           a == <<g>>
           b == <<f, i>>
           c == <<f>>
           e == IF Bu!SystemManaged(cfg) THEN <<>> ELSE <<n>>
           s == Bu!Behind(cf.file)
           t == Bu!Behind(None)
<1>2. \/ AnyMishap /\ cf.there /\ Begin("create", P, a \o s)
      \/ AnyMishap /\ Begin("create", A, b \o t)
      \/ AnyMishap /\ Begin("create", A, c \o e)
  BY BuCore DEF Bu!Create, AnyMishap, Bu!Call, Call
<1>3. /\ cfg \in Bu!Config /\ P \in Bu!Data /\ A \in Bu!Data /\ ~A.there
      /\ P.path = cfg.path /\ P.options = cfg.options
      /\ A.path = cfg.path /\ A.options = cfg.options
  BY <1>1, BuPlanned
<1> HIDE DEF P, A
<1>4. /\ g.do = "get" /\ f.do = "post" /\ i.do = "setId" /\ n.do = "nothing"
      /\ g \in BuMaking(P) /\ f \in BuMaking(A) /\ i \in BuMaking(A) /\ n \in BuMaking(A)
  BY <1>3, BuMakes, CallFields
<1>5. e = <<n>> \/ e = <<>>
  OBVIOUS
<1> HIDE DEF g, f, i, n, e
<1>6. CASE AnyMishap /\ cf.there /\ Begin("create", P, a \o s)
  <2>1. /\ s \in Seq(BuMaking(P)) /\ Does(s) \subseteq {"put", "zip", "upload"}
        /\ \/ Bu!SystemManaged(P)
           \/ /\ "put" \in Does(s)
              /\ "upload" \in Does(s) \/ Bu!Filename(P.path) \in {None, cf.file}
    BY <1>3, BuBehind
  <2> HIDE DEF s
  <2> DEFINE q == a \o s
  <2>2. a \in Seq(BuMaking(P)) /\ Does(a) = {"get"} /\ Later(a) = {}
    BY <1>4, Few
  <2> HIDE DEF a
  <2>3. /\ q \in Seq(BuMaking(P)) /\ Does(q) = Does(a) \cup Does(s)
        /\ Later(q) \subseteq Later(a) \cup Does(s)
    BY <2>1, <2>2, Cat
  <2>4. AnyMishap /\ cf.there /\ Begin("create", P, q)
    BY <1>6
  <2> HIDE DEF q
  <2>5. q \in Seq(BuCalls)
    BY <1>3, <2>3, BuMakes
  <2>6. ~Bu!SystemManaged(P) => BuLeads(P, cf, q)
    BY <2>1, <2>2, <2>3, <2>4 DEF BuLeads
  <2> QED
    BY <1>1, <1>3, <2>4, <2>5, <2>6, BuBegins
<1>7. CASE AnyMishap /\ Begin("create", A, b \o t)
  <2>1. /\ t \in Seq(BuMaking(A)) /\ Does(t) \subseteq {"put", "zip", "upload"}
        /\ \/ Bu!SystemManaged(A)
           \/ /\ "put" \in Does(t)
              /\ "upload" \in Does(t) \/ Bu!Filename(A.path) \in {None, None}
    BY <1>3, BuBehind
  <2> HIDE DEF t
  <2> DEFINE q == b \o t
  <2>2. b \in Seq(BuMaking(A)) /\ Does(b) = {"post", "setId"} /\ Later(b) = {"setId"}
    BY <1>4, Few
  <2> HIDE DEF b
  <2>3. /\ q \in Seq(BuMaking(A)) /\ Does(q) = Does(b) \cup Does(t)
        /\ Later(q) \subseteq Later(b) \cup Does(t)
    BY <2>1, <2>2, Cat
  <2>4. AnyMishap /\ Begin("create", A, q)
    BY <1>7
  <2> HIDE DEF q
  <2>5. q \in Seq(BuCalls)
    BY <1>3, <2>3, BuMakes
  <2>6. ~Bu!SystemManaged(A) => BuLeads(A, cf, q)
    BY <2>1, <2>2, <2>3 DEF BuLeads
  <2> QED
    BY <1>1, <1>3, <2>4, <2>5, <2>6, BuBegins
<1>8. CASE AnyMishap /\ Begin("create", A, c \o e)
  <2>1. c \in Seq(BuMaking(A)) /\ Does(c) = {"post"}
    BY <1>4, Few
  <2>2. e \in Seq(BuMaking(A)) /\ Does(e) \subseteq {"nothing"}
    <3>1. CASE e = <<n>>
      BY <1>4, <3>1, Few
    <3>2. CASE e = <<>>
      BY <3>2, Few
    <3> QED
      BY <1>5, <3>1, <3>2
  <2> HIDE DEF c
  <2> DEFINE q == c \o e
  <2>3. q \in Seq(BuMaking(A)) /\ Does(q) = Does(c) \cup Does(e)
    BY <2>1, <2>2, Cat
  <2>4. AnyMishap /\ Begin("create", A, q)
    BY <1>8
  <2> HIDE DEF q
  <2>5. q \in Seq(BuCalls) /\ "setId" \notin Does(q)
    BY <1>3, <2>1, <2>2, <2>3, BuMakes
  <2> QED
    BY <1>1, <1>3, <2>4, <2>5, BuBegins
<1> QED
  BY <1>2, <1>6, <1>7, <1>8

(* by Update, *)
LEMMA BuUpdateStep == BuInv /\ Bu!Update => BuInv'
<1> SUFFICES ASSUME BuInv, Bu!Update PROVE BuInv'
  OBVIOUS
<1>1. BuTyped /\ cfg \in Configs["buildpack"]
  BY DEF BuInv, BuTyped, Typed, Core
<1> DEFINE P == Bu!Planned(TRUE)
           A == Bu!Absent
           q == Bu!UpdateCalls(cf.file)
           e == <<>>
<1>2. \/ cf.there /\ AnyMishap /\ Begin("update", P, q)
      \/ AnyMishap /\ Begin("update", A, e)
      \/ AnyMishap /\ GivesUp("update", P)
  BY BuCore DEF Bu!Update, AnyMishap
<1>3. /\ cfg \in Bu!Config /\ P \in Bu!Data /\ A \in Bu!Data /\ ~A.there
      /\ P.path = cfg.path /\ P.options = cfg.options
  BY <1>1, BuPlanned
<1> HIDE DEF P, A
<1>4. e \in Seq(BuCalls) /\ Does(e) = {}
  BY Few
<1> HIDE DEF e
<1>5. CASE cf.there /\ AnyMishap /\ Begin("update", P, q)
  <2>1. /\ q \in Seq(BuMaking(P)) /\ Does(q) \subseteq {"put", "zip", "upload"}
        /\ "put" \in Does(q)
        /\ "upload" \in Does(q) \/ Bu!Filename(P.path) \in {None, cf.file}
    BY <1>3, BuUpdateCalls
  <2> HIDE DEF q
  <2>2. q \in Seq(BuCalls)
    BY <1>3, <2>1, BuMakes
  <2>3. "post" \notin Does(q) /\ "post" \notin Later(q)
    BY <2>1, LaterToo
  <2>4. BuLeads(P, cf, q)
    BY <1>5, <2>1, <2>3 DEF BuLeads
  <2> QED
    BY <1>1, <1>3, <1>5, <2>2, <2>4, BuBegins
<1>6. CASE AnyMishap /\ Begin("update", A, e)
  BY <1>1, <1>3, <1>4, <1>6, BuBegins
<1>7. CASE AnyMishap /\ GivesUp("update", P)
  BY <1>1, <1>3, <1>7, BuGivesUp
<1> QED
  BY <1>2, <1>5, <1>6, <1>7

(* by a deletion, in a destroy or a replacement, *)
LEMMA BuDeletionStep == BuInv /\ (Bu!Replace \/ Bu!Destroy) => BuInv'
<1> SUFFICES ASSUME BuInv, Bu!Replace \/ Bu!Destroy PROVE BuInv'
  OBVIOUS
<1> DEFINE q == Bu!DeleteCalls
<1>1. BuTyped /\ tf \in Bu!Data
  BY DEF BuInv, BuTyped, Typed
<1>2. q \in Seq(BuCalls)
  <2> DEFINE c == Call("delete", None)
  <2>1. c \in BuCalls /\ (q = <<c>> \/ q = <<>>)
    BY DEF BuCalls, Call, Bu!DeleteCalls, Bu!Call
  <2> HIDE DEF c, q, BuCalls
  <2>2. CASE q = <<c>>
    BY <2>1, <2>2
  <2>3. CASE q = <<>>
    BY <2>3
  <2> QED
    BY <2>1, <2>2, <2>3
<1>3. (AnyMishap /\ Begin("delete", tf, q)) \/ Removed(q)
  BY BuCore DEF Bu!Replace, Bu!Destroy, AnyMishap
<1> HIDE DEF q
<1>4. BuTyped' /\ pc' = "call" /\ op' = "delete"
  BY <1>1, <1>2, <1>3, BeginTyped DEF BuTyped
<1> QED
  BY <1>4 DEF BuInv, BuPromise, Bu!Truthful, Bu!Told

(* by each call and each of its answers, *)
LEMMA BuPerformStep == BuInv /\ Bu!Perform => BuInv'
<1> SUFFICES ASSUME BuInv, Bu!Perform PROVE BuInv'
  OBVIOUS
<1> DEFINE y == Bu!Effect(First)
           x == [d EXCEPT !.there = d.there \/ First.do = "setId"]
           can == Bu!Possible(First)
           D == Bu!Data
           O == Bu!Buildpack
<1>1. Calling(y, x, can, FALSE) /\ todo # <<>>
  BY BuCore DEF Bu!Perform, First
<1>2. BuTyped /\ cf \in Bu!Buildpack /\ d \in Bu!Data /\ todo \in Seq(BuCalls)
  BY DEF BuInv, BuTyped, Typed
<1>3. /\ First \in BuCalls /\ Does(todo) = {First.do} \cup Does(Rest)
      /\ Does(Rest) = Later(todo) /\ Later(Rest) \subseteq Later(todo)
  BY <1>1, <1>2, FirstAndRest
<1>4. can \in BOOLEAN
  BY <1>2 DEF Bu!Buildpack, Bu!Possible
<1>5. /\ x \in Bu!Data /\ x.path = d.path /\ x.options = d.options
      /\ x.there => d.there \/ First.do = "setId"
      /\ Bu!SystemManaged(x) <=> Bu!SystemManaged(d)
  BY <1>2 DEF Bu!Data, Bu!SystemManaged
<1>6. y \in Bu!Buildpack
  BY <1>2, <1>3, ResourcesAssumption
  DEF Bu!Effect, Bu!Buildpack, Bu!Data, BuCalls, Bu!BuildpacksAssumption, ResourcesAssumption
<1>7. Typed(Configs["buildpack"], D, O, BuCalls) /\ x \in D /\ y \in O
  BY <1>2, <1>5, <1>6 DEF BuTyped
<1> HIDE DEF y, x, can, D, O
<1>8. /\ Typed(Configs["buildpack"], D, O, BuCalls)' /\ pc = "call"
      /\ (can /\ Answered(y, x)) \/ (pc' = "return" /\ result' = "failed")
  BY <1>1, <1>4, <1>7, StrictCallTyped
<1>9. BuTyped'
  BY <1>8 DEF BuTyped, D, O
<1>10. CASE pc' = "return" /\ result' = "failed"
  BY <1>8, <1>9, <1>10 DEF BuInv, BuPromise, Bu!Truthful, Bu!Told
<1>11. CASE can /\ Answered(y, x)
  <2>1. ASSUME BuLeads(d, cf, todo) PROVE BuLeads(x, y, Rest)
    <3>1. todo \in Seq(BuMaking(d))
      BY <2>1 DEF BuLeads
    <3>2. First \in BuMaking(d) /\ Rest \in Seq(BuMaking(d))
      <4> HIDE DEF BuMaking
      <4> QED
        BY <1>1, <3>1, FirstAndRest
    <3>3. BuMaking(x) = BuMaking(d)
      BY <1>5 DEF BuMaking
    <3>4. \/ First.do = "post" /\ ~cf.there
          \/ First.do # "post" /\ cf.there /\ "post" \notin Does(todo)
      BY <1>3, <1>11, <2>1 DEF BuLeads, can, Bu!Possible
    <3>5. y.there
      BY <1>2, <3>2, <3>4 DEF BuMaking, Bu!Effect, y, Bu!Buildpack
    <3>6. "post" \notin Does(Rest) /\ "post" \notin Later(Rest)
      BY <1>3, <2>1 DEF BuLeads
    <3>7. "put" \in Does(Rest) \/ y.options = x.options
      <4>1. CASE First.do \in {"post", "put"}
        BY <1>2, <1>5, <3>2, <4>1 DEF BuMaking, Bu!Effect, y, Bu!Buildpack
      <4>2. CASE First.do \notin {"post", "put"}
        <5>1. y.options = cf.options
          BY <1>2, <3>2, <4>2 DEF BuMaking, Bu!Effect, y, Bu!Buildpack
        <5> QED
          BY <1>3, <1>5, <2>1, <3>4, <4>2, <5>1 DEF BuLeads
      <4> QED
        BY <4>1, <4>2
    <3>8. \/ "upload" \in Does(Rest) \/ Bu!Filename(x.path) = None
          \/ Bu!Filename(x.path) = y.file
      <4>1. CASE First.do = "upload"
        BY <1>2, <1>5, <3>2, <4>1 DEF BuMaking, Bu!Effect, y, Bu!Buildpack
      <4>2. CASE First.do # "upload" /\ First.do # "post"
        <5>1. y.file = cf.file
          BY <1>2, <3>2, <4>2 DEF BuMaking, Bu!Effect, y, Bu!Buildpack
        <5> QED
          BY <1>3, <1>5, <2>1, <4>2, <5>1 DEF BuLeads
      <4>3. CASE First.do = "post"
        BY <1>3, <1>5, <2>1, <4>3 DEF BuLeads
      <4> QED
        BY <4>1, <4>2, <4>3
    <3> QED
      BY <3>2, <3>3, <3>5, <3>6, <3>7, <3>8 DEF BuLeads
  <2>2. BuPromise'
    BY <1>3, <1>5, <1>8, <1>11, <2>1 DEF BuInv, BuPromise, Answered
  <2> QED
    BY <1>8, <1>9, <1>11, <2>2 DEF BuInv, Bu!Truthful, Bu!Told, Answered
<1> QED
  BY <1>8, <1>9, <1>10, <1>11

(* An empty plan has what was read of the buildpack: a file name of the     *)
(* Cloud Controller is no path of a configuration.                          *)
LEMMA BuRefreshStep == BuInv /\ Bu!Refresh => BuInv' /\ Bu!AsAsked'
<1> SUFFICES ASSUME BuInv, Bu!Refresh PROVE BuInv' /\ Bu!AsAsked'
  OBVIOUS
<1>1. BuTyped /\ cfg \in Configs["buildpack"] /\ tf \in Bu!Data /\ cf \in Bu!Buildpack
  BY DEF BuInv, BuTyped, Typed, Core
<1>2. Bu!Absent \in Bu!Data /\ ~Bu!Absent.there
  BY <1>1, BuPlanned
<1>3. PICK new \in Bu!Data :
        /\ AnyMishap /\ Refreshed(new)
        /\ \/ ~new.there \/ Bu!SystemManaged(new)
           \/ new.options = cf.options /\ Bu!Filename(new.path) \in {None, cf.file}
  <2> DEFINE A == Bu!Absent
             r == Bu!Read
  <2>1. AnyMishap /\ (Refreshed(r) \/ Refreshed(A))
    BY BuCore DEF Bu!Refresh, AnyMishap
  <2>2. /\ r \in Bu!Data
        /\ \/ Bu!SystemManaged(r)
           \/ r.options = cf.options /\ Bu!Filename(r.path) \in {None, cf.file}
    <3>1. CASE Bu!SystemManaged(tf)
      BY <1>1, <3>1 DEF Bu!Read
    <3>2. CASE ~Bu!SystemManaged(tf) /\ tf.path # None /\ Bu!Filename(tf.path) # cf.file
      <4>1. r = [tf EXCEPT !.options = cf.options, !.path = cf.file]
        BY <3>2 DEF Bu!Read
      <4>2. r \in Bu!Data /\ r.options = cf.options /\ r.path = cf.file
        BY <1>1, <4>1 DEF Bu!Data, Bu!Buildpack
      <4>3. cf.file \notin Paths
        BY <1>1, ResourcesAssumption
        DEF ResourcesAssumption, Bu!BuildpacksAssumption, Bu!Buildpack
      <4> QED
        BY <4>2, <4>3 DEF Bu!Filename
    <3>3. CASE ~Bu!SystemManaged(tf) /\ (tf.path = None \/ Bu!Filename(tf.path) = cf.file)
      <4>1. /\ r = [tf EXCEPT !.options = cf.options, !.path = tf.path]
            /\ None \notin Paths
        BY <3>3, ResourcesAssumption
        DEF Bu!Read, ResourcesAssumption, Bu!BuildpacksAssumption
      <4>2. r \in Bu!Data /\ r.options = cf.options /\ r.path = tf.path
        BY <1>1, <4>1 DEF Bu!Data, Bu!Buildpack
      <4> QED
        BY <3>3, <4>1, <4>2 DEF Bu!Filename
    <3> QED
      BY <3>1, <3>2, <3>3
  <2> HIDE DEF A, r
  <2> QED
    BY <1>2, <2>1, <2>2 DEF A
<1>4. BuTyped' /\ pc' = "plan" /\ tf' = new /\ UNCHANGED <<cfg, cf>>
  BY <1>1, <1>3, RefreshTyped DEF BuTyped, Refreshed
<1>5. BuInv'
  BY <1>4 DEF BuInv, BuPromise, Bu!Truthful, Bu!Told
<1>6. Bu!AsAsked'
  <2> SUFFICES ASSUME Bu!InSync', ~Bu!SystemManaged(cfg)
               PROVE  cf.options = cfg.options /\ Bu!Filename(cfg.path) \in {None, cf.file}
    BY <1>4 DEF Bu!AsAsked
  <2>1. new.path = cfg.path /\ new.options = cfg.options /\ new.there
    BY <1>4 DEF Bu!InSync, Bu!Planned
  <2>2. ~Bu!SystemManaged(new)
    BY <2>1 DEF Bu!SystemManaged
  <2> QED
    BY <1>3, <2>1, <2>2
<1> QED
  BY <1>5, <1>6

(* and by the steps that leave an operation that is under way alone. *)
LEMMA BuQuietStep ==
  BuInv /\ (\/ Bu!NothingToDo \/ Bu!Finish \/ Bu!EndOperation(Bu!Absent)
            \/ Bu!EditConfig \/ Bu!OthersChange \/ Bu!Crash(Bu!Absent))
    => BuInv'
<1> SUFFICES ASSUME BuInv,
                    \/ Bu!NothingToDo \/ Bu!Finish \/ Bu!EndOperation(Bu!Absent)
                    \/ Bu!EditConfig \/ Bu!OthersChange \/ Bu!Crash(Bu!Absent)
             PROVE  BuInv'
  OBVIOUS
<1> DEFINE A == Bu!Absent
           D == Bu!Data
           O == Bu!Buildpack
<1>1. BuTyped /\ cfg \in Configs["buildpack"] /\ cf \in O
  BY DEF BuInv, BuTyped, Typed, Core
<1>2. A \in D
  BY <1>1, BuPlanned
<1>3. CanTaint(D)
  BY DEF CanTaint, Bu!Data
<1>4. Bu!OthersChange => \E new \in O : Others(new)
  BY <1>1, BuCore DEF Bu!OthersChange, Bu!Buildpack
<1>5. \/ \E s \in BOOLEAN : Settled(s)
      \/ Finish \/ EndOperation(A) \/ Crash(A) \/ Panics \/ Again
      \/ EditOf(Configs["buildpack"]) \/ \E new \in O : Others(new)
  BY <1>4, BuCore DEF Bu!NothingToDo, Bu!InSync
<1> HIDE DEF A, D, O
<1>6. Typed(Configs["buildpack"], D, O, BuCalls)
  BY <1>1 DEF BuTyped, D, O
<1>7. /\ Typed(Configs["buildpack"], D, O, BuCalls)' /\ pc' # "call"
      /\ pc' = "return" => Finish
  BY <1>2, <1>3, <1>5, <1>6, QuietTyped
<1>8. BuTyped'
  BY <1>7 DEF BuTyped, D, O
<1>9. BuPromise'
  BY <1>7 DEF BuPromise
<1>10. Bu!Truthful'
  <2> SUFFICES ASSUME Bu!Told', ~Bu!SystemManaged(d') PROVE Bu!Truthful'
    BY DEF Bu!Truthful
  <2>1. /\ pc = "call" /\ todo = <<>> /\ op \in {"create", "update"} /\ d.there
        /\ UNCHANGED <<cf, d, tf, op, mishaps>>
        /\ ~Bu!SystemManaged(d)
    BY <1>7 DEF Bu!Told, Finish
  <2>2. BuLeads(d, cf, todo)
    BY <2>1 DEF BuInv, BuPromise
  <2>3. cf.there /\ cf.options = d.options /\ Bu!Filename(d.path) \in {None, cf.file}
    BY <1>1, <2>1, <2>2, Few DEF BuLeads
  <2> QED
    BY <2>1, <2>3 DEF Bu!Truthful
<1> QED
  BY <1>8, <1>9, <1>10 DEF BuInv

(* It holds at the start, *)
LEMMA BuInitInv == Bu!Init => BuInv
<1> SUFFICES ASSUME Bu!Init PROVE BuInv
  OBVIOUS
<1> DEFINE A == Bu!Absent
           D == Bu!Data
           O == Bu!Buildpack
<1>1. /\ cf \in O /\ cfg \in Configs["buildpack"] /\ tf = A /\ d = A /\ pc = "idle"
      /\ op = "none" /\ todo = <<>> /\ result = "none" /\ edits = 0 /\ mishaps = 0
  BY DEF Bu!Init, Bu!Idle
<1>2. A \in D
  BY <1>1, BuPlanned
<1> HIDE DEF A, D, O
<1>3. Typed(Configs["buildpack"], D, O, BuCalls)
  BY <1>1, <1>2, InitTyped
<1>4. BuTyped
  BY <1>3 DEF BuTyped, D, O
<1> QED
  BY <1>1, <1>4 DEF BuInv, BuPromise, Bu!Truthful, Bu!Told

(* it is kept by every step of a buildpack, *)
LEMMA BuStep ==
  BuInv /\ (Bu!Run \/ Bu!Operate \/ Bu!Disturb) => BuInv' /\ (Refreshes => Bu!AsAsked')
<1> SUFFICES ASSUME BuInv, Bu!Run \/ Bu!Operate \/ Bu!Disturb
             PROVE  BuInv' /\ (Refreshes => Bu!AsAsked')
  OBVIOUS
<1>1. BuInv'
  BY BuRefreshStep, BuCreateStep, BuUpdateStep, BuDeletionStep, BuPerformStep, BuQuietStep
  DEF Bu!Run, Bu!Operate, Bu!Disturb
<1>2. ASSUME Refreshes PROVE Bu!Refresh
  BY <1>2, OnlyRefreshes, BuCore
  DEF Refreshes, Bu!Run, Bu!Operate, Bu!Disturb, Bu!NothingToDo, Bu!Create, Bu!Update, Bu!Replace,
      Bu!Perform, Bu!Destroy, Bu!OthersChange
<1>3. Refreshes => Bu!AsAsked'
  BY <1>2, BuRefreshStep
<1> QED
  BY <1>1, <1>3

(* and by a step that changes nothing. *)
LEMMA BuStutter == BuInv /\ UNCHANGED vars => BuInv'
<1> SUFFICES ASSUME BuInv, UNCHANGED vars PROVE BuInv'
  OBVIOUS
<1>1. BuTyped'
  BY StutterTyped DEF BuInv, BuTyped
<1> QED
  BY <1>1 DEF vars, BuInv, BuPromise, Bu!Truthful, Bu!Told

-----------------------------------------------------------------------------
(* Quotas.                                                                  *)
LEMMA QuCore ==
  /\ \A what, arg : Qu!Call(what, arg) = Call(what, arg)
  /\ (Qu!NoMishap <=> NoMishap) /\ (\A where : Qu!Mishap(where) <=> Mishap(where))
  /\ \A new : (Qu!Refreshed(new) <=> Refreshed(new)) /\ (Qu!Others(new) <=> Others(new))
  /\ \A s : Qu!Settled(s) <=> Settled(s)
  /\ \A what, x, calls : Qu!Begin(what, x, calls) <=> Begin(what, x, calls)
  /\ \A what, x : Qu!GivesUp(what, x) <=> GivesUp(what, x)
  /\ \A calls : Qu!Removed(calls) <=> Removed(calls)
  /\ \A new, x, possible, dropped :
       Qu!Calling(new, x, possible, dropped) <=> Calling(new, x, possible, dropped)
  /\ \A x : (Qu!EndOperation(x) <=> EndOperation(x)) /\ (Qu!Crash(x) <=> Crash(x))
  /\ (Qu!Finish <=> Finish) /\ (Qu!EditConfig <=> EditOf(Configs["quota"]))
  /\ Qu!Told <=> Told
  /\ Qu!CoreOK <=> Core(Configs["quota"])
  /\ (Qu!Panics <=> Panics) /\ (Qu!Again <=> Again)
BY DEF Qu!Call, Qu!NoMishap, Qu!Mishap, Qu!Answers, Qu!Answer, Qu!Done,
       Qu!Refreshed, Qu!Settled, Qu!Begin, Qu!GivesUp, Qu!Calling, Qu!Finish,
       Qu!EndOperation, Qu!Crash, Qu!EditConfig, Qu!Others, Qu!Removed, Qu!Idle,
       Qu!Told, Qu!CoreOK, Qu!Panics, Qu!Again, Call, NoMishap, Mishap, Answers,
       Answer, Done, Refreshed, Settled, Begin, GivesUp, Calling, Finish,
       EndOperation, Crash, Others, Removed, Idle, Told, Panics, Again, EditOf,
       Core

QuCalls == {c \in [do : {"post", "find", "put", "delete"}, arg : Qu!Memory] :
               c.do \in {"post", "put"} => c.arg \in Written}

QuMaking(x) == {c \in QuCalls : c.do # "delete" /\ (c.do \in {"post", "put"} => c.arg = x.memory)}

(* The calls q make of the quotas y what the resource data x say; a Create  *)
(* leaves the memory of a quota that it found.                              *)
QuLeads(x, y, q, what) ==
  /\ q \in Seq(QuMaking(x)) /\ "post" \notin Later(q)
  /\ "post" \in Does(q) => what = "create"
  /\ "post" \in Does(q) \/ y[x.scope].there
  /\ what = "update" => "put" \in Does(q) \/ y[x.scope].memory = Qu!Megabytes(x.memory)

QuTyped == Typed(Configs["quota"], Qu!Data, Qu!Quotas, QuCalls)
QuPromise ==
  pc = "call" /\ op \in {"create", "update"} /\ (d.there \/ "find" \in Does(todo))
    => QuLeads(d, cf, todo, op)
QuInv == QuTyped /\ QuPromise /\ Qu!Truthful

(* What a plan asks for, and what Terraform keeps of what is gone, for a    *)
(* quota, are resource data.                                                *)
LEMMA QuPlanned ==
  ASSUME cfg \in Configs["quota"]
  PROVE  /\ Qu!Planned(TRUE) \in Qu!Data /\ Qu!Absent \in Qu!Data
         /\ cfg \in Qu!Config
         /\ Qu!Planned(TRUE).scope = cfg.scope /\ Qu!Planned(TRUE).memory = cfg.memory
         /\ Qu!Absent.scope = cfg.scope /\ Qu!Absent.memory = cfg.memory
         /\ ~Qu!Absent.there
<1>1. cfg \in Qu!Config
  BY ResourcesAssumption DEF Qu!QuotasAssumption, ResourcesAssumption
<1> QED
  BY <1>1 DEF Qu!Config, Qu!Data, Qu!Planned, Qu!Absent, Qu!Memory

(* Every call of a quota that carries its work out is one of its calls. *)
LEMMA QuMakes ==
  ASSUME cfg \in Qu!Config, NEW x, x.memory = cfg.memory
  PROVE  /\ \A what \in {"post", "find", "put"} : Call(what, cfg.memory) \in QuMaking(x)
         /\ \A q \in Seq(QuMaking(x)) : q \in Seq(QuCalls)
<1>1. \A what \in {"post", "find", "put"} : Call(what, cfg.memory) \in QuMaking(x)
  BY DEF QuMaking, QuCalls, Call, Qu!Config, Qu!Memory
<1>2. QuMaking(x) \subseteq QuCalls
  BY DEF QuMaking
<1> HIDE DEF QuMaking, QuCalls
<1> QED
  BY <1>1, <1>2, SeqOfMore

(* An operation on a quota whose calls lead to what it was asked begins     *)
(* with the invariant.                                                      *)
LEMMA QuBegins ==
  ASSUME QuTyped, NEW what \in {"create", "update"}, NEW x \in Qu!Data,
         NEW calls \in Seq(QuCalls), AnyMishap, Begin(what, x, calls),
         x.there \/ "find" \in Does(calls) => QuLeads(x, cf, calls, what)
  PROVE  QuInv'
<1>1. /\ QuTyped' /\ UNCHANGED <<cf>> /\ pc' = "call" /\ op' = what /\ d' = x
      /\ todo' = calls
  BY BeginTyped DEF QuTyped
<1> QED
  BY <1>1 DEF QuInv, QuPromise, Qu!Truthful, Qu!Told

(* So does one that fails before its first call. *)
LEMMA QuGivesUp ==
  ASSUME QuTyped, NEW what \in {"create", "update"}, NEW x \in Qu!Data,
         AnyMishap, GivesUp(what, x)
  PROVE  QuInv'
<1>1. QuTyped' /\ pc' = "return" /\ result' = "failed"
  BY GivesUpTyped DEF QuTyped
<1> QED
  BY <1>1 DEF QuInv, QuPromise, Qu!Truthful, Qu!Told

(* The invariant of a quota is kept by Create, *)
LEMMA QuCreateStep == QuInv /\ Qu!Create => QuInv'
<1> SUFFICES ASSUME QuInv, Qu!Create PROVE QuInv'
  OBVIOUS
<1>1. QuTyped /\ cfg \in Configs["quota"]
  BY DEF QuInv, QuTyped, Typed, Core
<1> DEFINE P == Qu!Planned(TRUE)
           A == Qu!Absent
           f == Call("post", cfg.memory)
           l == Call("find", cfg.memory)
           e == <<>>
           q == <<f, l>>
<1>2. \/ AnyMishap /\ cf[cfg.scope].there /\ Begin("create", P, e)
      \/ AnyMishap /\ Begin("create", A, q)
  BY QuCore DEF Qu!Create, AnyMishap
<1>3. /\ cfg \in Qu!Config /\ P \in Qu!Data /\ A \in Qu!Data
      /\ P.scope = cfg.scope /\ A.memory = cfg.memory
  BY <1>1, QuPlanned
<1> HIDE DEF P, A
<1>4. f.do = "post" /\ l.do = "find" /\ f \in QuMaking(A) /\ l \in QuMaking(A)
  BY <1>3, QuMakes, CallFields
<1> HIDE DEF f, l
<1>5. CASE AnyMishap /\ cf[cfg.scope].there /\ Begin("create", P, e)
  <2>1. e \in Seq(QuMaking(P)) /\ e \in Seq(QuCalls) /\ Later(e) = {} /\ Does(e) = {}
    BY Few
  <2> HIDE DEF e
  <2>2. QuLeads(P, cf, e, "create")
    BY <1>3, <1>5, <2>1 DEF QuLeads
  <2> QED
    BY <1>1, <1>3, <1>5, <2>1, <2>2, QuBegins
<1>6. CASE AnyMishap /\ Begin("create", A, q)
  <2>1. q \in Seq(QuMaking(A)) /\ Later(q) = {"find"} /\ Does(q) = {"post", "find"}
    BY <1>4, Few
  <2> HIDE DEF q
  <2>2. q \in Seq(QuCalls)
    BY <1>3, <2>1, QuMakes
  <2>3. QuLeads(A, cf, q, "create")
    BY <2>1 DEF QuLeads
  <2> QED
    BY <1>1, <1>3, <1>6, <2>2, <2>3, QuBegins
<1> QED
  BY <1>2, <1>5, <1>6

(* by Update, *)
LEMMA QuUpdateStep == QuInv /\ Qu!Update => QuInv'
<1> SUFFICES ASSUME QuInv, Qu!Update PROVE QuInv'
  OBVIOUS
<1>1. QuTyped /\ cfg \in Configs["quota"]
  BY DEF QuInv, QuTyped, Typed, Core
<1> DEFINE P == Qu!Planned(TRUE)
           A == Qu!Absent
           u == Call("put", cfg.memory)
           e == <<>>
           q == <<u>>
<1>2. \/ AnyMishap /\ cf[cfg.scope].there /\ Begin("update", P, q)
      \/ AnyMishap /\ Begin("update", A, e)
      \/ AnyMishap /\ GivesUp("update", P)
  BY QuCore DEF Qu!Update, AnyMishap
<1>3. /\ cfg \in Qu!Config /\ P \in Qu!Data /\ A \in Qu!Data /\ ~A.there
      /\ P.scope = cfg.scope /\ P.memory = cfg.memory
  BY <1>1, QuPlanned
<1> HIDE DEF P, A
<1>4. u.do = "put" /\ u \in QuMaking(P)
  BY <1>3, QuMakes, CallFields
<1>5. e \in Seq(QuCalls) /\ Does(e) = {}
  BY Few
<1> HIDE DEF u, e
<1>6. CASE AnyMishap /\ cf[cfg.scope].there /\ Begin("update", P, q)
  <2>1. q \in Seq(QuMaking(P)) /\ Later(q) = {} /\ Does(q) = {"put"}
    BY <1>4, Few
  <2> HIDE DEF q
  <2>2. q \in Seq(QuCalls)
    BY <1>3, <2>1, QuMakes
  <2>3. QuLeads(P, cf, q, "update")
    BY <1>3, <1>6, <2>1 DEF QuLeads
  <2> QED
    BY <1>1, <1>3, <1>6, <2>2, <2>3, QuBegins
<1>7. CASE AnyMishap /\ Begin("update", A, e)
  BY <1>1, <1>3, <1>5, <1>7, QuBegins
<1>8. CASE AnyMishap /\ GivesUp("update", P)
  BY <1>1, <1>3, <1>8, QuGivesUp
<1> QED
  BY <1>2, <1>6, <1>7, <1>8

(* by a deletion, in a destroy or a replacement, *)
LEMMA QuDeletionStep == QuInv /\ (Qu!Destroy) => QuInv'
<1> SUFFICES ASSUME QuInv, Qu!Destroy PROVE QuInv'
  OBVIOUS
<1> DEFINE q == Qu!DeleteCalls
<1>1. QuTyped /\ tf \in Qu!Data
  BY DEF QuInv, QuTyped, Typed
<1>2. q \in Seq(QuCalls)
  <2> DEFINE c == Call("delete", tf.memory)
  <2>1. c \in QuCalls
    BY <1>1 DEF QuCalls, Call, Qu!Data
  <2>2. q = <<c>>
    BY QuCore DEF Qu!DeleteCalls
  <2> HIDE DEF c, q, QuCalls
  <2> QED
    BY <2>1, <2>2
<1>3. (AnyMishap /\ Begin("delete", tf, q)) \/ Removed(q)
  BY QuCore DEF Qu!Destroy, AnyMishap
<1> HIDE DEF q
<1>4. QuTyped' /\ pc' = "call" /\ op' = "delete"
  BY <1>1, <1>2, <1>3, BeginTyped DEF QuTyped
<1> QED
  BY <1>4 DEF QuInv, QuPromise, Qu!Truthful, Qu!Told

(* by each call and each of its answers, *)
LEMMA QuPerformStep == QuInv /\ Qu!Perform => QuInv'
<1> SUFFICES ASSUME QuInv, Qu!Perform PROVE QuInv'
  OBVIOUS
<1> DEFINE y == Qu!Effect(First)
           x == [d EXCEPT !.there = d.there \/ First.do = "find"]
           can == cf[d.scope].there <=> First.do # "post"
           D == Qu!Data
           O == Qu!Quotas
<1>1. Calling(y, x, can, FALSE) /\ todo # <<>>
  BY QuCore DEF Qu!Perform, First
<1>2. QuTyped /\ cf \in Qu!Quotas /\ d \in Qu!Data /\ todo \in Seq(QuCalls)
  BY DEF QuInv, QuTyped, Typed
<1>3. /\ First \in QuCalls /\ Does(todo) = {First.do} \cup Does(Rest)
      /\ Does(Rest) = Later(todo) /\ Later(Rest) \subseteq Later(todo)
  BY <1>1, <1>2, FirstAndRest
<1>4. can \in BOOLEAN
  BY <1>2 DEF Qu!Quotas
<1>5. /\ x \in Qu!Data /\ x.scope = d.scope /\ x.memory = d.memory
      /\ x.there => d.there \/ First.do = "find"
  BY <1>2 DEF Qu!Data
<1>6. y \in Qu!Quotas
  <2>1. d.scope \in Qu!Scopes
    BY <1>2 DEF Qu!Data
  <2>2. First.do \in {"post", "put"} => Qu!Megabytes(First.arg) \in Amounts
    BY <1>3, ResourcesAssumption DEF ResourcesAssumption, Qu!QuotasAssumption, QuCalls
  <2>3. CASE First.do \in {"post", "put"}
    <3>1. y = [cf EXCEPT ![d.scope] = [there |-> TRUE, memory |-> Qu!Megabytes(First.arg)]]
      BY <2>3 DEF Qu!Effect
    <3> QED
      BY <1>2, <2>1, <2>2, <2>3, <3>1 DEF Qu!Quotas
  <2>4. CASE First.do = "delete"
    <3>1. y = [cf EXCEPT ![d.scope] = [cf[d.scope] EXCEPT !.there = FALSE]]
      BY <2>4 DEF Qu!Effect
    <3>2. [cf[d.scope] EXCEPT !.there = FALSE] \in [there : BOOLEAN, memory : Amounts]
      BY <1>2, <2>1 DEF Qu!Quotas
    <3> QED
      BY <1>2, <2>1, <3>1, <3>2 DEF Qu!Quotas
  <2>5. CASE First.do \notin {"post", "put", "delete"}
    BY <1>2, <2>5 DEF Qu!Effect
  <2> QED
    BY <2>3, <2>4, <2>5
<1>7. Typed(Configs["quota"], D, O, QuCalls) /\ x \in D /\ y \in O
  BY <1>2, <1>5, <1>6 DEF QuTyped
<1> HIDE DEF y, x, can, D, O
<1>8. /\ Typed(Configs["quota"], D, O, QuCalls)' /\ pc = "call"
      /\ (can /\ Answered(y, x)) \/ (pc' = "return" /\ result' = "failed")
  BY <1>1, <1>4, <1>7, StrictCallTyped
<1>9. QuTyped'
  BY <1>8 DEF QuTyped, D, O
<1>10. CASE pc' = "return" /\ result' = "failed"
  BY <1>8, <1>9, <1>10 DEF QuInv, QuPromise, Qu!Truthful, Qu!Told
<1>11. CASE can /\ Answered(y, x)
  <2>1. ASSUME QuLeads(d, cf, todo, op) PROVE QuLeads(x, y, Rest, op)
    <3>1. todo \in Seq(QuMaking(d))
      BY <2>1 DEF QuLeads
    <3>2. First \in QuMaking(d) /\ Rest \in Seq(QuMaking(d))
      <4> HIDE DEF QuMaking
      <4> QED
        BY <1>1, <3>1, FirstAndRest
    <3>3. QuMaking(x) = QuMaking(d)
      BY <1>5 DEF QuMaking
    <3>4. \/ First.do = "post" /\ ~cf[d.scope].there
          \/ First.do # "post" /\ cf[d.scope].there /\ "post" \notin Does(todo)
      BY <1>3, <1>11, <2>1 DEF QuLeads, can
    <3>5. "post" \notin Does(Rest) /\ "post" \notin Later(Rest)
      BY <1>3, <2>1 DEF QuLeads
    <3>6. CASE First.do \in {"post", "put"}
      <4>1. y = [cf EXCEPT ![d.scope] = [there |-> TRUE, memory |-> Qu!Megabytes(First.arg)]]
        BY <3>6 DEF y, Qu!Effect
      <4>2. d.scope \in Qu!Scopes
        BY <1>2 DEF Qu!Data
      <4>3. y[d.scope] = [there |-> TRUE, memory |-> Qu!Megabytes(First.arg)]
        BY <1>2, <4>1, <4>2 DEF Qu!Quotas
      <4>4. First.arg = d.memory
        BY <3>2, <3>6 DEF QuMaking
      <4>5. y[x.scope].there /\ y[x.scope].memory = Qu!Megabytes(x.memory)
        BY <1>5, <4>3, <4>4
      <4> QED
        BY <3>2, <3>3, <3>5, <4>5 DEF QuLeads
    <3>7. CASE First.do \notin {"post", "put"}
      <4>1. y = cf
        BY <3>2, <3>7 DEF y, Qu!Effect, QuMaking
      <4>2. /\ cf[d.scope].there
            /\ op = "update" => "put" \in Does(Rest)
                                  \/ cf[d.scope].memory = Qu!Megabytes(d.memory)
        BY <1>3, <2>1, <3>4, <3>7 DEF QuLeads
      <4> QED
        BY <1>5, <3>2, <3>3, <3>5, <4>1, <4>2 DEF QuLeads
    <3> QED
      BY <3>6, <3>7
  <2>2. QuPromise'
    BY <1>3, <1>5, <1>8, <1>11, <2>1 DEF QuInv, QuPromise, Answered
  <2> QED
    BY <1>8, <1>9, <1>11, <2>2 DEF QuInv, Qu!Truthful, Qu!Told, Answered
<1> QED
  BY <1>8, <1>9, <1>10, <1>11

(* An amount in whole units of what it is shown in is the amount shown to   *)
(* within a twentieth: a tenth of a gigabyte is shown, of one at least.     *)
LEMMA ShownNearly ==
  ASSUME NEW mb \in Nat, Qu!Shown(mb).n % 10 = 0
  PROVE  20 * mb \in 19 * Qu!Megabytes(Qu!Shown(mb)) .. 21 * Qu!Megabytes(Qu!Shown(mb))
<1>1. CASE mb < 1024
  <2>1. Qu!Shown(mb) = [n |-> 10 * mb, unit |-> "M"]
    BY <1>1 DEF Qu!Shown
  <2>2. Qu!Megabytes(Qu!Shown(mb)) = ((10 * mb) \div 10) * 1
    BY <2>1 DEF Qu!Megabytes
  <2>3. (10 * mb) \div 10 = mb
    OBVIOUS
  <2> QED
    BY <2>2, <2>3
<1>2. CASE mb >= 1024
  <2> DEFINE q == (10 * mb) \div 1024
             r == (10 * mb) % 1024
             n == Qu!Tenths(mb)
             k == n \div 10
  <2>1. q \in Nat /\ r \in 0 .. 1023 /\ 10 * mb = 1024 * q + r
    OBVIOUS
  <2>2. (n = q /\ r <= 512) \/ (n = q + 1 /\ r >= 512)
    <3>1. n = IF r > 512 \/ (r = 512 /\ q % 2 = 1) THEN q + 1 ELSE q
      BY DEF Qu!Tenths
    <3> HIDE DEF q, r, n
    <3> QED
      BY <2>1, <3>1
  <2>3. Qu!Shown(mb) = [n |-> n, unit |-> "G"]
    BY <1>2 DEF Qu!Shown
  <2>4. Qu!Megabytes(Qu!Shown(mb)) = k * 1024 /\ n % 10 = 0
    BY <2>3 DEF Qu!Megabytes
  <2> HIDE DEF q, r, n
  <2>5. n \in Nat
    BY <2>1, <2>2
  <2>6. k \in Nat /\ n = 10 * k
    BY <2>4, <2>5
  <2> HIDE DEF k
  <2>7. n >= 10
    BY <1>2, <2>1, <2>2
  <2>8. k >= 1
    BY <2>6, <2>7
  <2>9. 10240 * k - 512 <= 10 * mb /\ 10 * mb <= 10240 * k + 512
    BY <2>1, <2>2, <2>6
  <2>10. 19 * (k * 1024) <= 20 * mb /\ 20 * mb <= 21 * (k * 1024)
    BY <2>6, <2>8, <2>9
  <2> QED
    BY <2>4, <2>6, <2>10
<1> QED
  BY <1>1, <1>2

(* An empty plan has the amount that is shown of the quota. *)
LEMMA QuRefreshStep == QuInv /\ Qu!Refresh => QuInv' /\ Qu!AsAsked'
<1> SUFFICES ASSUME QuInv, Qu!Refresh PROVE QuInv' /\ Qu!AsAsked'
  OBVIOUS
<1>1. QuTyped /\ cfg \in Configs["quota"] /\ tf \in Qu!Data /\ cf \in Qu!Quotas
  BY DEF QuInv, QuTyped, Typed, Core
<1>2. Qu!Absent \in Qu!Data /\ ~Qu!Absent.there /\ cfg \in Qu!Config
  BY <1>1, QuPlanned
<1>3. PICK new \in Qu!Data :
        /\ AnyMishap /\ Refreshed(new)
        /\ new.there => /\ cf[new.scope].there
                        /\ new.memory = Qu!Shown(cf[new.scope].memory)
  <2> DEFINE A == Qu!Absent
             r == Qu!Read
  <2>1. NoMishap /\ ((cf[tf.scope].there /\ Refreshed(r)) \/ Refreshed(A))
    BY QuCore DEF Qu!Refresh, Qu!Gone
  <2>2. /\ r \in Qu!Data /\ r.scope = tf.scope
        /\ r.memory = Qu!Shown(cf[tf.scope].memory)
    <3>1. cf[tf.scope].memory \in Amounts
      BY <1>1 DEF Qu!Data, Qu!Quotas
    <3>2. Qu!Shown(cf[tf.scope].memory) \in Qu!Memory
      BY <3>1 DEF Qu!Memory
    <3> QED
      BY <1>1, <3>2 DEF Qu!Read, Qu!Data
  <2> HIDE DEF A, r
  <2> QED
    BY <1>2, <2>1, <2>2 DEF AnyMishap, A
<1>4. QuTyped' /\ pc' = "plan" /\ tf' = new /\ UNCHANGED <<cfg, cf>>
  BY <1>1, <1>3, RefreshTyped DEF QuTyped, Refreshed
<1>5. QuInv'
  BY <1>4 DEF QuInv, QuPromise, Qu!Truthful, Qu!Told
<1>6. Qu!AsAsked'
  <2> DEFINE actual == cf[cfg.scope].memory
  <2> SUFFICES ASSUME Qu!InSync'
               PROVE  /\ cf[cfg.scope].there
                      /\ 20 * actual \in 19 * Qu!Megabytes(cfg.memory) ..
                                           21 * Qu!Megabytes(cfg.memory)
    BY <1>4 DEF Qu!AsAsked
  <2>1. new.scope = cfg.scope /\ new.memory = cfg.memory /\ new.there
    BY <1>4 DEF Qu!InSync, Qu!Planned
  <2>2. cf[cfg.scope].there /\ cfg.memory = Qu!Shown(actual)
    BY <1>3, <2>1
  <2>3. cfg.memory.n % 10 = 0
    BY <1>2, ResourcesAssumption DEF ResourcesAssumption, Qu!QuotasAssumption, Qu!Config
  <2>4. actual \in Nat
    <3>1. Amounts \subseteq Nat
      BY ResourcesAssumption DEF ResourcesAssumption, Qu!QuotasAssumption
    <3>2. cfg.scope \in Qu!Scopes
      BY <1>2, ResourcesAssumption DEF ResourcesAssumption, Qu!QuotasAssumption, Qu!Config
    <3>3. actual \in Amounts
      BY <1>1, <3>2 DEF Qu!Quotas
    <3> QED
      BY <3>1, <3>3
  <2> HIDE DEF actual
  <2> QED
    BY <2>2, <2>3, <2>4, ShownNearly
<1> QED
  BY <1>5, <1>6

(* and by the steps that leave an operation that is under way alone. *)
LEMMA QuQuietStep ==
  QuInv /\ (\/ Qu!NothingToDo \/ Qu!Finish \/ Qu!EndOperation(Qu!Absent)
            \/ Qu!EditConfig \/ Qu!OthersChange \/ Qu!Crash(Qu!Absent) \/ Qu!ExistsPanics \/ Qu!Again)
    => QuInv'
<1> SUFFICES ASSUME QuInv,
                    \/ Qu!NothingToDo \/ Qu!Finish \/ Qu!EndOperation(Qu!Absent)
                    \/ Qu!EditConfig \/ Qu!OthersChange \/ Qu!Crash(Qu!Absent) \/ Qu!ExistsPanics \/ Qu!Again
             PROVE  QuInv'
  OBVIOUS
<1> DEFINE A == Qu!Absent
           D == Qu!Data
           O == Qu!Quotas
<1>1. QuTyped /\ cfg \in Configs["quota"] /\ cf \in O
  BY DEF QuInv, QuTyped, Typed, Core
<1>2. A \in D
  BY <1>1, QuPlanned
<1>3. CanTaint(D)
  BY DEF CanTaint, Qu!Data
<1>4. Qu!OthersChange => \E new \in O : Others(new)
  BY <1>1, QuCore DEF Qu!OthersChange, Qu!Quotas
<1>5. \/ \E s \in BOOLEAN : Settled(s)
      \/ Finish \/ EndOperation(A) \/ Crash(A) \/ Panics \/ Again
      \/ EditOf(Configs["quota"]) \/ \E new \in O : Others(new)
  BY <1>4, QuCore DEF Qu!NothingToDo, Qu!InSync, Qu!ExistsPanics
<1> HIDE DEF A, D, O
<1>6. Typed(Configs["quota"], D, O, QuCalls)
  BY <1>1 DEF QuTyped, D, O
<1>7. /\ Typed(Configs["quota"], D, O, QuCalls)' /\ pc' # "call"
      /\ pc' = "return" => Finish
  BY <1>2, <1>3, <1>5, <1>6, QuietTyped
<1>8. QuTyped'
  BY <1>7 DEF QuTyped, D, O
<1>9. QuPromise'
  BY <1>7 DEF QuPromise
<1>10. Qu!Truthful'
  <2> SUFFICES ASSUME Qu!Told' PROVE Qu!Truthful'
    BY DEF Qu!Truthful
  <2>1. /\ pc = "call" /\ todo = <<>> /\ op \in {"create", "update"} /\ d.there
        /\ UNCHANGED <<cf, d, tf, op, mishaps>>
    BY <1>7 DEF Qu!Told, Finish
  <2>2. QuLeads(d, cf, todo, op)
    BY <2>1 DEF QuInv, QuPromise
  <2>3. cf[d.scope].there /\ (op = "update" => cf[d.scope].memory = Qu!Megabytes(d.memory))
    BY <1>1, <2>1, <2>2, Few DEF QuLeads
  <2> QED
    BY <2>1, <2>3 DEF Qu!Truthful
<1> QED
  BY <1>8, <1>9, <1>10 DEF QuInv

(* It holds at the start, *)
LEMMA QuInitInv == Qu!Init => QuInv
<1> SUFFICES ASSUME Qu!Init PROVE QuInv
  OBVIOUS
<1> DEFINE A == Qu!Absent
           D == Qu!Data
           O == Qu!Quotas
<1>1. /\ cf \in O /\ cfg \in Configs["quota"] /\ tf = A /\ d = A /\ pc = "idle"
      /\ op = "none" /\ todo = <<>> /\ result = "none" /\ edits = 0 /\ mishaps = 0
  BY DEF Qu!Init, Qu!Idle
<1>2. A \in D
  BY <1>1, QuPlanned
<1> HIDE DEF A, D, O
<1>3. Typed(Configs["quota"], D, O, QuCalls)
  BY <1>1, <1>2, InitTyped
<1>4. QuTyped
  BY <1>3 DEF QuTyped, D, O
<1> QED
  BY <1>1, <1>4 DEF QuInv, QuPromise, Qu!Truthful, Qu!Told

(* it is kept by every step of a quota, *)
LEMMA QuStep ==
  QuInv /\ (Qu!Run \/ Qu!Operate \/ Qu!Disturb) => QuInv' /\ (Refreshes => Qu!AsAsked')
<1> SUFFICES ASSUME QuInv, Qu!Run \/ Qu!Operate \/ Qu!Disturb
             PROVE  QuInv' /\ (Refreshes => Qu!AsAsked')
  OBVIOUS
<1>1. QuInv'
  BY QuRefreshStep, QuCreateStep, QuUpdateStep, QuDeletionStep, QuPerformStep, QuQuietStep
  DEF Qu!Run, Qu!Operate, Qu!Disturb
<1>2. ASSUME Refreshes PROVE Qu!Refresh
  BY <1>2, OnlyRefreshes, QuCore
  DEF Refreshes, Qu!Run, Qu!Operate, Qu!Disturb, Qu!NothingToDo, Qu!Create, Qu!Update, Qu!ExistsPanics,
      Qu!Perform, Qu!Destroy, Qu!OthersChange
<1>3. Refreshes => Qu!AsAsked'
  BY <1>2, QuRefreshStep
<1> QED
  BY <1>1, <1>3

(* and by a step that changes nothing. *)
LEMMA QuStutter == QuInv /\ UNCHANGED vars => QuInv'
<1> SUFFICES ASSUME QuInv, UNCHANGED vars PROVE QuInv'
  OBVIOUS
<1>1. QuTyped'
  BY StutterTyped DEF QuInv, QuTyped
<1> QED
  BY <1>1 DEF vars, QuInv, QuPromise, Qu!Truthful, Qu!Told

-----------------------------------------------------------------------------
(* Isolation segments.                                                      *)
LEMMA IsCore ==
  /\ \A what, arg : Is!Call(what, arg) = Call(what, arg)
  /\ (Is!NoMishap <=> NoMishap) /\ (\A where : Is!Mishap(where) <=> Mishap(where))
  /\ \A new : (Is!Refreshed(new) <=> Refreshed(new)) /\ (Is!Others(new) <=> Others(new))
  /\ \A s : Is!Settled(s) <=> Settled(s)
  /\ \A what, x, calls : Is!Begin(what, x, calls) <=> Begin(what, x, calls)
  /\ \A what, x : Is!GivesUp(what, x) <=> GivesUp(what, x)
  /\ \A calls : Is!Removed(calls) <=> Removed(calls)
  /\ \A new, x, possible, dropped :
       Is!Calling(new, x, possible, dropped) <=> Calling(new, x, possible, dropped)
  /\ \A x : (Is!EndOperation(x) <=> EndOperation(x)) /\ (Is!Crash(x) <=> Crash(x))
  /\ (Is!Finish <=> Finish) /\ (Is!EditConfig <=> EditOf(Configs["segment"]))
  /\ Is!Told <=> Told
  /\ Is!CoreOK <=> Core(Configs["segment"])
BY DEF Is!Call, Is!NoMishap, Is!Mishap, Is!Answers, Is!Answer, Is!Done,
       Is!Refreshed, Is!Settled, Is!Begin, Is!GivesUp, Is!Calling, Is!Finish,
       Is!EndOperation, Is!Crash, Is!EditConfig, Is!Others, Is!Removed, Is!Idle,
       Is!Told, Is!CoreOK, Call, NoMishap, Mishap, Answers, Answer, Done,
       Refreshed, Settled, Begin, GivesUp, Calling, Finish, EndOperation, Crash,
       Others, Removed, Idle, Told, EditOf, Core

(* What the modules for sequences and sets define is the same here. *)
LEMMA IsLists ==
  /\ \A S : Is!IsFiniteSet(S) <=> IsFiniteSet(S)
  /\ \A S : Is!Orders(S) = Orders(S)
  /\ \A what, S : Is!Each(what, S) = Each(what, S)
  /\ \A A, B : Is!InTurn(A, B) = InTurn(A, B)
<1>1. \A S : Is!Cardinality(S) = Cardinality(S)
  BY DEF Is!Cardinality, Cardinality
<1>2. \A S : Is!IsFiniteSet(S) <=> IsFiniteSet(S)
  BY DEF Is!IsFiniteSet, IsFiniteSet
<1>3. \A S : Is!Orders(S) = Orders(S)
  BY <1>1 DEF Is!Orders, Orders
<1>4. \A what, S : Is!Each(what, S) = Each(what, S)
  BY <1>3 DEF Is!Each, Each, Is!Call, Call
<1>5. \A A, B : Is!InTurn(A, B) = InTurn(A, B)
  BY DEF Is!InTurn, InTurn
<1> QED
  BY <1>2, <1>3, <1>4, <1>5

IsCalls == {c \in [do : {"post", "entitle", "revoke", "delete"}, arg : Orgs \cup SUBSET Orgs] :
               (c.do = "entitle" => c.arg \in SUBSET Orgs) /\ (c.do = "revoke" => c.arg \in Orgs)}

(* What an operation takes the organizations entitled to be, and its calls  *)
(* from there to what the resource data x say.                              *)
IsBefore(what) == IF what = "update" THEN tf.orgs ELSE {}
IsMaking(x, b) == {c \in IsCalls : /\ c.do # "delete"
                                   /\ c.do = "entitle" => c.arg = x.orgs \ b
                                   /\ c.do = "revoke" => c.arg \in b \ x.orgs}

(* The calls q entitle to the segment y those that the resource data x have *)
(* and b does not, and revoke those that b has and x does not.              *)
IsLeads(x, y, q, b) ==
  /\ q \in Seq(IsMaking(x, b)) /\ "post" \notin Later(q)
  /\ "post" \in Does(q) => b = {}
  /\ "post" \in Does(q) \/ y.there
  /\ "entitle" \in Does(q) \/ x.orgs \ b = {} \/ ("post" \notin Does(q) /\ x.orgs \ b \subseteq y.orgs)
  /\ \A o \in b \ x.orgs : Call("revoke", o) \in ToSet(q) \/ o \notin y.orgs

IsTyped == Typed(Configs["segment"], Is!Data, Is!Segment, IsCalls)
IsPromise ==
  pc = "call" /\ op \in {"create", "update"} /\ (d.there \/ todo # <<>>)
    => IsLeads(d, cf, todo, IsBefore(op))
IsInv == IsTyped /\ IsPromise /\ Is!Truthful

(* What a plan asks for, and what Terraform keeps of what is gone, for an   *)
(* isolation segment, are resource data.                                    *)
LEMMA IsPlanned ==
  ASSUME cfg \in Configs["segment"]
  PROVE  /\ Is!Planned(TRUE) \in Is!Data /\ Is!Absent \in Is!Data
         /\ cfg \in SUBSET Orgs
         /\ Is!Planned(TRUE).orgs = cfg /\ Is!Absent.orgs = cfg /\ ~Is!Absent.there
<1>1. cfg \in SUBSET Orgs
  BY ResourcesAssumption DEF Is!IsolationSegmentsAssumption, ResourcesAssumption, Is!Config
<1> QED
  BY <1>1 DEF Is!Data, Is!Planned, Is!Absent

(* Every call of an isolation segment that carries its work out is one of   *)
(* its calls.                                                               *)
LEMMA IsMakes ==
  ASSUME NEW x, NEW b
  PROVE  \A q \in Seq(IsMaking(x, b)) : q \in Seq(IsCalls)
<1>1. IsMaking(x, b) \subseteq IsCalls
  BY DEF IsMaking
<1> HIDE DEF IsMaking, IsCalls
<1> QED
  BY <1>1, SeqOfMore

(* One call for each that is revoked, one for all that are entitled (131).  *)
LEMMA IsToOrg ==
  ASSUME NEW b \in SUBSET Orgs, cfg \in SUBSET Orgs, NEW x, x.orgs = cfg,
         NEW q \in Is!ToOrg(b, cfg)
  PROVE  /\ q \in Seq(IsMaking(x, b)) /\ Does(q) \subseteq {"entitle", "revoke"}
         /\ "entitle" \in Does(q) \/ x.orgs \ b = {}
         /\ \A o \in b \ x.orgs : Call("revoke", o) \in ToSet(q)
<1> DEFINE T == IsMaking(x, b)
           n == Call("entitle", cfg \ b)
           e == IF cfg \subseteq b THEN <<>> ELSE <<n>>
<1>1. PICK r \in Each("revoke", b \ cfg) : q = r \o e
  BY IsLists DEF Is!ToOrg, Is!Call, Call
<1>2. IsFiniteSet(b \ cfg)
  <2>1. IsFiniteSet(Orgs)
    BY IsLists, ResourcesAssumption DEF Is!IsolationSegmentsAssumption, ResourcesAssumption
  <2> QED
    BY <2>1, FS_Subset
<1>3. /\ n \in T /\ n.do = "entitle"
      /\ \A o \in b \ cfg : Call("revoke", o) \in T
  BY DEF IsMaking, IsCalls, Call
<1> HIDE DEF T, n
<1>4. (e = <<n>> \/ e = <<>>) /\ (e = <<>> => cfg \ b = {})
  OBVIOUS
<1> HIDE DEF e
<1>5. /\ r \in Seq(T) /\ ToSet(r) = {Call("revoke", o) : o \in b \ cfg}
      /\ Does(r) \subseteq {"revoke"}
  <2> DEFINE B == b \ cfg
             what == "revoke"
  <2>1. /\ IsFiniteSet(B) /\ r \in Each(what, B)
        /\ \A o \in B : Call(what, o) \in T
    BY <1>1, <1>2, <1>3
  <2> HIDE DEF B, what
  <2>2. /\ r \in Seq(T) /\ ToSet(r) = {Call(what, o) : o \in B}
        /\ Does(r) \subseteq {what}
    BY <2>1, EachOf
  <2> QED
    BY <2>2 DEF B, what
<1>6. /\ e \in Seq(T) /\ Does(e) \subseteq {"entitle"}
      /\ "entitle" \in Does(e) \/ cfg \ b = {}
  <2>1. CASE e = <<n>>
    BY <1>3, <2>1, Few
  <2>2. CASE e = <<>>
    BY <1>4, <2>2, Few
  <2> QED
    BY <1>4, <2>1, <2>2
<1> DEFINE s == r \o e
<1>7. s \in Seq(T) /\ Does(s) = Does(r) \cup Does(e) /\ ToSet(s) = ToSet(r) \cup ToSet(e)
  BY <1>5, <1>6, Cat
<1>8. s = q
  BY <1>1
<1> HIDE DEF s
<1>9. \A o \in b \ cfg : Call("revoke", o) \in ToSet(q)
  BY <1>5, <1>7, <1>8
<1> QED
  BY <1>5, <1>6, <1>7, <1>8, <1>9 DEF T

(* An operation on an isolation segment whose calls lead to what it was     *)
(* asked begins with the invariant.                                         *)
LEMMA IsBegins ==
  ASSUME IsTyped, NEW what \in {"create", "update"}, NEW x \in Is!Data,
         NEW calls \in Seq(IsCalls), AnyMishap, Begin(what, x, calls),
         x.there \/ calls # <<>> => IsLeads(x, cf, calls, IsBefore(what))
  PROVE  IsInv'
<1>1. /\ IsTyped' /\ UNCHANGED <<cf, tf>> /\ pc' = "call" /\ op' = what /\ d' = x
      /\ todo' = calls
  BY BeginTyped DEF IsTyped
<1> QED
  BY <1>1 DEF IsInv, IsPromise, IsBefore, Is!Truthful, Is!Told

(* So does one that fails before its first call. *)
LEMMA IsGivesUp ==
  ASSUME IsTyped, NEW what \in {"create", "update"}, NEW x \in Is!Data,
         AnyMishap, GivesUp(what, x)
  PROVE  IsInv'
<1>1. IsTyped' /\ pc' = "return" /\ result' = "failed"
  BY GivesUpTyped DEF IsTyped
<1> QED
  BY <1>1 DEF IsInv, IsPromise, Is!Truthful, Is!Told

(* The invariant of an isolation segment is kept by Create, *)
LEMMA IsCreateStep == IsInv /\ Is!Create => IsInv'
<1> SUFFICES ASSUME IsInv, Is!Create PROVE IsInv'
  OBVIOUS
<1>1. IsTyped /\ cfg \in Configs["segment"]
  BY DEF IsInv, IsTyped, Typed, Core
<1> DEFINE P == Is!Planned(TRUE)
           A == Is!Absent
           f == Call("post", cfg)
           b == {}
           p == <<f>>
<1>2. PICK s \in Is!ToOrg(b, cfg) :
        \/ AnyMishap /\ cf.there /\ Begin("create", P, s)
        \/ AnyMishap /\ Begin("create", A, p \o s)
  BY IsCore DEF Is!Create, AnyMishap
<1>3. /\ cfg \in SUBSET Orgs /\ P \in Is!Data /\ A \in Is!Data
      /\ P.orgs = cfg /\ A.orgs = cfg /\ b \in SUBSET Orgs /\ IsBefore("create") = b
  BY <1>1, IsPlanned DEF IsBefore
<1> HIDE DEF P, A
<1>4. f.do = "post" /\ f \in IsMaking(A, b)
  BY <1>3 DEF IsMaking, IsCalls, Call
<1>5. \A o : o \notin b
  OBVIOUS
<1> HIDE DEF f, b
<1>6. CASE AnyMishap /\ cf.there /\ Begin("create", P, s)
  <2>1. /\ s \in Seq(IsMaking(P, b)) /\ Does(s) \subseteq {"entitle", "revoke"}
        /\ "entitle" \in Does(s) \/ P.orgs \ b = {}
    BY <1>2, <1>3, IsToOrg
  <2>2. s \in Seq(IsCalls)
    BY <2>1, IsMakes
  <2>3. "post" \notin Does(s) /\ "post" \notin Later(s)
    BY <2>1, LaterToo
  <2>4. IsLeads(P, cf, s, b)
    BY <1>5, <1>6, <2>1, <2>3 DEF IsLeads
  <2> QED
    BY <1>1, <1>3, <1>6, <2>2, <2>4, IsBegins
<1>7. CASE AnyMishap /\ Begin("create", A, p \o s)
  <2>1. /\ s \in Seq(IsMaking(A, b)) /\ Does(s) \subseteq {"entitle", "revoke"}
        /\ "entitle" \in Does(s) \/ A.orgs \ b = {}
    BY <1>2, <1>3, IsToOrg
  <2> DEFINE q == p \o s
  <2>2. p \in Seq(IsMaking(A, b)) /\ Does(p) = {"post"} /\ Later(p) = {}
    BY <1>4, Few
  <2> HIDE DEF p
  <2>3. /\ q \in Seq(IsMaking(A, b)) /\ Does(q) = Does(p) \cup Does(s)
        /\ Later(q) \subseteq Later(p) \cup Does(s)
    BY <2>1, <2>2, Cat
  <2>4. AnyMishap /\ Begin("create", A, q)
    BY <1>7
  <2> HIDE DEF q
  <2>5. q \in Seq(IsCalls)
    BY <2>3, IsMakes
  <2>6. b = {}
    BY DEF b
  <2>7. IsLeads(A, cf, q, b)
    BY <1>5, <2>1, <2>2, <2>3, <2>6 DEF IsLeads
  <2> QED
    BY <1>1, <1>3, <2>4, <2>5, <2>7, IsBegins
<1> QED
  BY <1>2, <1>6, <1>7

(* by Update, *)
LEMMA IsUpdateStep == IsInv /\ Is!Update => IsInv'
<1> SUFFICES ASSUME IsInv, Is!Update PROVE IsInv'
  OBVIOUS
<1>1. IsTyped /\ cfg \in Configs["segment"] /\ tf \in Is!Data
  BY DEF IsInv, IsTyped, Typed, Core
<1> DEFINE P == Is!Planned(TRUE)
           A == Is!Absent
           b == tf.orgs
           e == <<>>
<1>2. \/ cf.there /\ AnyMishap /\ \E s \in Is!ToOrg(b, cfg) : Begin("update", P, s)
      \/ AnyMishap /\ Begin("update", A, e)
      \/ AnyMishap /\ GivesUp("update", P)
  BY IsCore DEF Is!Update, Is!Current, AnyMishap
<1>3. /\ cfg \in SUBSET Orgs /\ P \in Is!Data /\ A \in Is!Data /\ ~A.there
      /\ P.orgs = cfg /\ b \in SUBSET Orgs /\ IsBefore("update") = b
  BY <1>1, IsPlanned DEF IsBefore, Is!Data
<1> HIDE DEF P, A, b
<1>4. e \in Seq(IsCalls) /\ e = <<>>
  OBVIOUS
<1> HIDE DEF e
<1>5. CASE cf.there /\ AnyMishap /\ \E s \in Is!ToOrg(b, cfg) : Begin("update", P, s)
  <2>1. PICK s \in Is!ToOrg(b, cfg) : Begin("update", P, s)
    BY <1>5
  <2>2. /\ s \in Seq(IsMaking(P, b)) /\ Does(s) \subseteq {"entitle", "revoke"}
        /\ "entitle" \in Does(s) \/ P.orgs \ b = {}
        /\ \A o \in b \ P.orgs : Call("revoke", o) \in ToSet(s)
    BY <1>3, <2>1, IsToOrg
  <2>3. s \in Seq(IsCalls)
    BY <2>2, IsMakes
  <2>4. "post" \notin Does(s) /\ "post" \notin Later(s)
    BY <2>2, LaterToo
  <2>5. IsLeads(P, cf, s, b)
    BY <1>5, <2>2, <2>4 DEF IsLeads
  <2> QED
    BY <1>1, <1>3, <1>5, <2>1, <2>3, <2>5, IsBegins
<1>6. CASE AnyMishap /\ Begin("update", A, e)
  BY <1>1, <1>3, <1>4, <1>6, IsBegins
<1>7. CASE AnyMishap /\ GivesUp("update", P)
  BY <1>1, <1>3, <1>7, IsGivesUp
<1> QED
  BY <1>2, <1>5, <1>6, <1>7

(* by a deletion, in a destroy or a replacement, *)
LEMMA IsDeletionStep == IsInv /\ (Is!Replace \/ Is!Destroy) => IsInv'
<1> SUFFICES ASSUME IsInv, Is!Replace \/ Is!Destroy PROVE IsInv'
  OBVIOUS
<1> DEFINE q == Is!DeleteCalls
<1>1. IsTyped /\ tf \in Is!Data
  BY DEF IsInv, IsTyped, Typed
<1>2. q \in Seq(IsCalls)
  <2> DEFINE n == {}
             c == Call("delete", n)
  <2>1. c \in IsCalls
    BY DEF IsCalls, Call
  <2>2. q = <<c>>
    BY IsCore DEF Is!DeleteCalls
  <2> HIDE DEF c, q, IsCalls
  <2> QED
    BY <2>1, <2>2
<1>3. (AnyMishap /\ Begin("delete", tf, q)) \/ Removed(q)
  BY IsCore DEF Is!Replace, Is!Destroy, AnyMishap
<1> HIDE DEF q
<1>4. IsTyped' /\ pc' = "call" /\ op' = "delete"
  BY <1>1, <1>2, <1>3, BeginTyped DEF IsTyped
<1> QED
  BY <1>4 DEF IsInv, IsPromise, Is!Truthful, Is!Told

(* by each call and each of its answers, *)
LEMMA IsPerformStep == IsInv /\ Is!Perform => IsInv'
<1> SUFFICES ASSUME IsInv, Is!Perform PROVE IsInv'
  OBVIOUS
<1> DEFINE y == Is!Effect(First)
           x == [d EXCEPT !.there = TRUE]
           can == Is!Possible(First)
           D == Is!Data
           O == Is!Segment
<1>1. Calling(y, x, can, FALSE) /\ todo # <<>>
  BY IsCore DEF Is!Perform, First
<1>2. IsTyped /\ cf \in Is!Segment /\ d \in Is!Data /\ todo \in Seq(IsCalls)
  BY DEF IsInv, IsTyped, Typed
<1>3. /\ First \in IsCalls /\ Does(todo) = {First.do} \cup Does(Rest)
      /\ Does(Rest) = Later(todo) /\ Later(Rest) \subseteq Later(todo)
  BY <1>1, <1>2, FirstAndRest
<1>4. can \in BOOLEAN /\ (First.do # "post" => (can <=> cf.there))
  BY <1>2 DEF Is!Segment, Is!Possible
<1>5. x \in Is!Data /\ x.orgs = d.orgs
  BY <1>2 DEF Is!Data
<1>6. y \in Is!Segment
  BY <1>2, <1>3, ResourcesAssumption
  DEF Is!Effect, Is!Segment, Is!Data, IsCalls, Is!IsolationSegmentsAssumption, ResourcesAssumption
<1>7. Typed(Configs["segment"], D, O, IsCalls) /\ x \in D /\ y \in O
  BY <1>2, <1>5, <1>6 DEF IsTyped
<1> HIDE DEF y, x, can, D, O
<1>8. /\ Typed(Configs["segment"], D, O, IsCalls)' /\ pc = "call"
      /\ (can /\ Answered(y, x)) \/ (pc' = "return" /\ result' = "failed")
  BY <1>1, <1>4, <1>7, StrictCallTyped
<1>9. IsTyped'
  BY <1>8 DEF IsTyped, D, O
<1>10. CASE pc' = "return" /\ result' = "failed"
  BY <1>8, <1>9, <1>10 DEF IsInv, IsPromise, Is!Truthful, Is!Told
<1>11. CASE can /\ Answered(y, x)
  <2> DEFINE b == IsBefore(op)
  <2>1. ASSUME IsLeads(d, cf, todo, b) PROVE IsLeads(x, y, Rest, b)
    <3> HIDE DEF b
    <3>1. todo \in Seq(IsMaking(d, b))
      BY <2>1 DEF IsLeads
    <3>2. First \in IsMaking(d, b) /\ Rest \in Seq(IsMaking(d, b))
      <4> HIDE DEF IsMaking
      <4> QED
        BY <1>1, <3>1, FirstAndRest
    <3>3. IsMaking(x, b) = IsMaking(d, b)
      BY <1>5 DEF IsMaking
    <3>4. \/ First.do = "post" /\ b = {}
          \/ First.do # "post" /\ cf.there /\ "post" \notin Does(todo)
      BY <1>3, <1>4, <1>11, <2>1 DEF IsLeads
    <3>5. "post" \notin Does(Rest) /\ "post" \notin Later(Rest)
      BY <1>3, <2>1 DEF IsLeads
    <3>6. ToSet(todo) = {First} \cup ToSet(Rest)
      BY <1>1, <3>1, FirstAndRest
    <3>7. CASE First.do = "post"
      <4>1. y = [there |-> TRUE, own |-> TRUE, orgs |-> {}]
        BY <3>7 DEF y, Is!Effect
      <4>2. "entitle" \in Does(Rest) \/ x.orgs \ b = {}
        BY <1>3, <1>5, <2>1, <3>7 DEF IsLeads
      <4>3. b = {}
        BY <3>4, <3>7
      <4> QED
        BY <3>2, <3>3, <3>5, <4>1, <4>2, <4>3 DEF IsLeads
    <3>8. CASE First.do = "entitle"
      <4>1. First.arg = d.orgs \ b /\ cf.there
        BY <3>2, <3>4, <3>8 DEF IsMaking
      <4>2. y = [cf EXCEPT !.orgs = cf.orgs \cup First.arg]
        BY <3>8 DEF y, Is!Effect
      <4>3. y.there /\ y.orgs = cf.orgs \cup (x.orgs \ b)
        BY <1>2, <1>5, <4>1, <4>2 DEF Is!Segment
      <4>4. \A o \in b \ x.orgs : Call("revoke", o) \in ToSet(Rest) \/ o \notin y.orgs
        <5> SUFFICES ASSUME NEW o \in b \ x.orgs, Call("revoke", o) \notin ToSet(Rest)
                     PROVE  o \notin y.orgs
          OBVIOUS
        <5>1. Call("revoke", o) # First
          BY <3>8, CallFields
        <5>2. o \notin cf.orgs
          BY <1>5, <2>1, <3>6, <5>1 DEF IsLeads
        <5> QED
          BY <4>3, <5>2
      <4> QED
        BY <3>2, <3>3, <3>5, <4>3, <4>4 DEF IsLeads
    <3>9. CASE First.do = "revoke"
      <4>1. First.arg \in b \ d.orgs /\ cf.there
        BY <3>2, <3>4, <3>9 DEF IsMaking
      <4>2. y = [cf EXCEPT !.orgs = cf.orgs \ {First.arg}]
        BY <3>9 DEF y, Is!Effect
      <4>3. y.there /\ y.orgs = cf.orgs \ {First.arg}
        BY <1>2, <4>1, <4>2 DEF Is!Segment
      <4>4. \/ "entitle" \in Does(Rest) \/ x.orgs \ b = {}
            \/ x.orgs \ b \subseteq y.orgs
        <5>1. "entitle" \in Does(Rest) \/ x.orgs \ b = {} \/ x.orgs \ b \subseteq cf.orgs
          BY <1>3, <1>5, <2>1, <3>9 DEF IsLeads
        <5> QED
          BY <1>5, <4>1, <4>3, <5>1
      <4>5. \A o \in b \ x.orgs : Call("revoke", o) \in ToSet(Rest) \/ o \notin y.orgs
        <5> SUFFICES ASSUME NEW o \in b \ x.orgs, Call("revoke", o) \notin ToSet(Rest)
                     PROVE  o \notin y.orgs
          OBVIOUS
        <5>1. Call("revoke", o) = First => First.arg = o
          BY CallFields
        <5>2. o \notin cf.orgs \/ Call("revoke", o) = First
          BY <1>5, <2>1, <3>6 DEF IsLeads
        <5> QED
          BY <4>3, <5>1, <5>2
      <4> QED
        BY <3>2, <3>3, <3>5, <4>3, <4>4, <4>5 DEF IsLeads
    <3> QED
      BY <3>2, <3>7, <3>8, <3>9 DEF IsMaking, IsCalls
  <2>2. IsPromise'
    BY <1>1, <1>3, <1>5, <1>8, <1>11, <2>1 DEF IsInv, IsPromise, IsBefore, Answered
  <2> QED
    BY <1>8, <1>9, <1>11, <2>2 DEF IsInv, Is!Truthful, Is!Told, Answered
<1> QED
  BY <1>8, <1>9, <1>10, <1>11

(* As long as nobody edits and nothing fails, the state that is kept says   *)
(* what is asked for and what there is: an operation creates, or deletes    *)
(* the segment that was taken, of another name or entitled half way.        *)
IsSteady ==
  edits = 0 /\ mishaps = 0 =>
    /\ tf.there /\ ~tf.tainted /\ cf.there => tf.orgs = cfg /\ cfg \subseteq cf.orgs
    /\ pc = "plan" /\ tf.there => cf.there
    /\ pc \in {"call", "return"} => op = "delete" \/ (op = "create" /\ ~tf.there /\ d.orgs = cfg)
    /\ pc = "call" /\ op = "delete" => todo \in {<<>>, Is!DeleteCalls}
    /\ pc = "return" => result \in {"ok", "failed"}

(* An empty plan has what is kept of the segment. *)
LEMMA IsRefreshStep == IsInv /\ IsSteady /\ Is!Refresh => IsInv' /\ Is!AsAsked'
<1> SUFFICES ASSUME IsInv, IsSteady, Is!Refresh PROVE IsInv' /\ Is!AsAsked'
  OBVIOUS
<1>1. IsTyped /\ cfg \in Configs["segment"] /\ tf \in Is!Data
  BY DEF IsInv, IsTyped, Typed, Core
<1>2. Is!Absent \in Is!Data /\ ~Is!Absent.there
  BY <1>1, IsPlanned
<1>3. PICK new \in Is!Data :
        /\ NoMishap /\ Refreshed(new)
        /\ new.there => /\ tf.there /\ cf.there /\ new.own = cf.own
                        /\ new.tainted = tf.tainted
  <2> DEFINE A == Is!Absent
             r == Is!Read
  <2>1. NoMishap /\ ((tf.there /\ cf.there /\ Refreshed(r)) \/ Refreshed(A))
    BY IsCore DEF Is!Refresh
  <2>2. r \in Is!Data /\ r.own = cf.own /\ r.tainted = tf.tainted
    <3>1. cf \in Is!Segment
      BY <1>1 DEF IsTyped, Typed
    <3> QED
      BY <1>1, <3>1 DEF Is!Read, Is!Data, Is!Segment
  <2> HIDE DEF A, r
  <2> QED
    BY <1>2, <2>1, <2>2 DEF A
<1>4. /\ IsTyped' /\ pc' = "plan" /\ tf' = new /\ UNCHANGED <<cfg, cf, edits, mishaps>>
  BY <1>1, <1>3, RefreshTyped DEF IsTyped, Refreshed, AnyMishap, NoMishap
<1>5. IsInv'
  BY <1>4 DEF IsInv, IsPromise, Is!Truthful, Is!Told
<1>6. Is!AsAsked'
  <2> SUFFICES ASSUME Is!InSync'
               PROVE  /\ cf.own
                      /\ edits = 0 /\ mishaps = 0 => cf.there /\ cfg \subseteq cf.orgs
    BY <1>4 DEF Is!AsAsked
  <2>1. new.there /\ ~new.tainted /\ new.own
    BY <1>4 DEF Is!InSync, Is!Planned
  <2> QED
    BY <1>3, <2>1 DEF IsSteady
<1> QED
  BY <1>5, <1>6

(* and by the steps that leave an operation that is under way alone. *)
LEMMA IsQuietStep ==
  IsInv /\ (\/ Is!NothingToDo \/ Is!Finish \/ Is!EndOperation(Is!Absent)
            \/ Is!EditConfig \/ Is!OthersChange \/ Is!Crash(Is!Absent))
    => IsInv'
<1> SUFFICES ASSUME IsInv,
                    \/ Is!NothingToDo \/ Is!Finish \/ Is!EndOperation(Is!Absent)
                    \/ Is!EditConfig \/ Is!OthersChange \/ Is!Crash(Is!Absent)
             PROVE  IsInv'
  OBVIOUS
<1> DEFINE A == Is!Absent
           D == Is!Data
           O == Is!Segment
<1>1. IsTyped /\ cfg \in Configs["segment"] /\ cf \in O
  BY DEF IsInv, IsTyped, Typed, Core
<1>2. A \in D
  BY <1>1, IsPlanned
<1>3. CanTaint(D)
  BY DEF CanTaint, Is!Data
<1>4. Is!OthersChange => \E new \in O : Others(new)
  BY <1>1, IsCore DEF Is!OthersChange, Is!Segment
<1>5. \/ \E s \in BOOLEAN : Settled(s)
      \/ Finish \/ EndOperation(A) \/ Crash(A) \/ Panics \/ Again
      \/ EditOf(Configs["segment"]) \/ \E new \in O : Others(new)
  BY <1>4, IsCore DEF Is!NothingToDo, Is!InSync
<1> HIDE DEF A, D, O
<1>6. Typed(Configs["segment"], D, O, IsCalls)
  BY <1>1 DEF IsTyped, D, O
<1>7. /\ Typed(Configs["segment"], D, O, IsCalls)' /\ pc' # "call"
      /\ pc' = "return" => Finish
  BY <1>2, <1>3, <1>5, <1>6, QuietTyped
<1>8. IsTyped'
  BY <1>7 DEF IsTyped, D, O
<1>9. IsPromise'
  BY <1>7 DEF IsPromise
<1>10. Is!Truthful'
  <2> SUFFICES ASSUME Is!Told' PROVE Is!Truthful'
    BY DEF Is!Truthful
  <2>1. /\ pc = "call" /\ todo = <<>> /\ op \in {"create", "update"} /\ d.there
        /\ UNCHANGED <<cf, d, tf, op, mishaps>>
    BY <1>7 DEF Is!Told, Finish
  <2>2. IsLeads(d, cf, todo, IsBefore(op))
    BY <2>1 DEF IsInv, IsPromise
  <2>3. /\ cf.there /\ (op = "create" => d.orgs \subseteq cf.orgs)
        /\ op = "update" => /\ d.orgs \ tf.orgs \subseteq cf.orgs
                            /\ (tf.orgs \ d.orgs) \cap cf.orgs = {}
    BY <1>1, <2>1, <2>2, Few DEF IsLeads, IsBefore
  <2> QED
    BY <2>1, <2>3 DEF Is!Truthful
<1> QED
  BY <1>8, <1>9, <1>10 DEF IsInv

(* Every step of a segment keeps IsSteady.                                  *)
LEMMA IsSteadyStep ==
  IsInv /\ IsSteady /\ (Is!Run \/ Is!Operate \/ Is!Disturb) => IsSteady'
<1> SUFFICES ASSUME IsInv, IsSteady, Is!Run \/ Is!Operate \/ Is!Disturb,
                    edits' = 0, mishaps' = 0
             PROVE  IsSteady'
  BY DEF IsSteady
<1>1. /\ IsTyped /\ cfg \in Configs["segment"] /\ tf \in Is!Data /\ d \in Is!Data
      /\ edits \in Nat /\ mishaps \in Nat /\ todo \in Seq(IsCalls)
  BY TerraformAssumption DEF TerraformAssumption, IsInv, IsTyped, Typed, Core
<1> DEFINE A == Is!Absent
           P == Is!Planned(TRUE)
<1>2. A.orgs = cfg /\ ~A.there /\ P.orgs = cfg
  BY <1>1, IsPlanned
<1>3. tf.there /\ ~tf.tainted /\ tf.own /\ tf.orgs = cfg => Is!InSync
  BY <1>1 DEF Is!InSync, Is!Planned, Is!Data
<1> HIDE DEF A, P
<1>4. CASE Is!Refresh
  <2>1. NoMishap /\ ((tf.there /\ cf.there /\ Refreshed(Is!Read)) \/ Refreshed(A))
    BY <1>4, IsCore DEF Is!Refresh, A
  <2>2. /\ pc' = "plan" /\ UNCHANGED <<cfg, cf, edits, mishaps>>
        /\ (tf.there /\ cf.there /\ tf' = Is!Read) \/ tf' = A
    BY <2>1 DEF Refreshed, NoMishap
  <2>3. Is!Read.orgs = tf.orgs /\ Is!Read.tainted = tf.tainted
    BY <1>1 DEF Is!Read, Is!Data
  <2> QED
    BY <1>2, <2>2, <2>3 DEF IsSteady
<1>5. CASE Is!NothingToDo
  <2>1. pc' = "idle" /\ UNCHANGED <<cfg, cf, tf, edits, mishaps>>
    BY <1>5, IsCore DEF Is!NothingToDo, Settled
  <2> QED
    BY <2>1 DEF IsSteady
<1>6. CASE Is!Create
  <2>1. /\ ~tf.there
        /\ \E x \in {P, A} : \E q : Begin("create", x, q)
    BY <1>6, IsCore DEF Is!Create, P, A
  <2>2. /\ pc' = "call" /\ op' = "create" /\ d' \in {P, A}
        /\ UNCHANGED <<cfg, cf, tf>>
    BY <2>1 DEF Begin
  <2>3. d'.orgs = cfg
    BY <1>2, <2>2
  <2> QED
    BY <2>1, <2>2, <2>3 DEF IsSteady
<1>7. CASE Is!Update
  <2>1. /\ pc = "plan" /\ tf.there /\ ~tf.tainted /\ tf.own /\ ~Is!InSync
        /\ edits = 0 /\ mishaps \in {mishaps', mishaps' - 1}
    <3>1. tf.there /\ ~tf.tainted /\ tf.own /\ ~Is!InSync
      BY <1>7 DEF Is!Update, Is!ToReplace
    <3>2. AnyMishap /\ \E x, q : Begin("update", x, q) \/ GivesUp("update", x)
      BY <1>7, IsCore DEF Is!Update, AnyMishap
    <3>3. edits' = edits /\ pc = "plan"
      BY <3>2 DEF Begin, GivesUp
    <3> QED
      BY <1>1, <3>1, <3>2, <3>3 DEF AnyMishap, NoMishap, Mishap
  <2>2. mishaps = 0
    BY <1>1, <2>1
  <2> QED
    BY <1>3, <2>1, <2>2 DEF IsSteady
<1>8. CASE Is!Replace
  <2>1. NoMishap /\ Begin("delete", tf, Is!DeleteCalls)
    BY <1>8, IsCore DEF Is!Replace
  <2>2. /\ pc' = "call" /\ op' = "delete" /\ todo' = Is!DeleteCalls
        /\ UNCHANGED <<cfg, cf, tf, edits, mishaps>>
    BY <2>1 DEF Begin, NoMishap
  <2>3. Is!DeleteCalls' = Is!DeleteCalls
    BY IsCore DEF Is!DeleteCalls, Is!Call
  <2> QED
    BY <2>2, <2>3 DEF IsSteady
<1>9. CASE Is!Perform
  <2> DEFINE y == Is!Effect(First)
             x == [d EXCEPT !.there = TRUE]
             can == Is!Possible(First)
             no == FALSE
             e == <<>>
  <2>1. Calling(y, x, can, no)
    BY <1>9, IsCore DEF Is!Perform, First
  <2>2. x.orgs = d.orgs /\ ~no /\ (First.do = "delete" => ~y.there)
    BY <1>1 DEF Is!Data, Is!Effect
  <2> HIDE DEF y, x, can, no
  <2>3. PICK a \in Answers :
          /\ Answer(a, Head(todo).do, can)
          /\ d' = (IF a = "ok" THEN x ELSE d) /\ cf' \in {cf, y}
          /\ \/ todo' = Tail(todo) /\ UNCHANGED <<pc, result>>
             \/ todo' = e /\ pc' = "return" /\ result' = "failed"
    BY <2>1 DEF Calling
  <2>4. pc = "call" /\ todo # <<>> /\ UNCHANGED <<cfg, tf, op, edits>>
    BY <2>1 DEF Calling
  <2>5. mishaps = 0
    BY <1>1, <2>3 DEF Answer, NoMishap, Mishap
  <2>6. d'.orgs = d.orgs
    BY <2>2, <2>3
  <2>7. op = "delete" => ~y.there /\ todo' = <<>>
    <3>1. op = "delete" => todo = Is!DeleteCalls
      BY <2>4, <2>5 DEF IsSteady
    <3>2. Is!DeleteCalls = <<Call("delete", {})>>
      BY IsCore DEF Is!DeleteCalls
    <3>3. op = "delete" => First.do = "delete" /\ Tail(todo) = <<>>
      <4> DEFINE c == Call("delete", {})
      <4>1. c.do = "delete"
        BY CallFields
      <4> HIDE DEF c
      <4>2. Head(<<c>>) = c /\ Tail(<<c>>) = <<>>
        OBVIOUS
      <4> QED
        BY <3>1, <3>2, <4>1, <4>2 DEF First, c
    <3> QED
      BY <2>2, <2>3, <3>3
  <2> QED
    BY <2>3, <2>4, <2>5, <2>6, <2>7 DEF IsSteady
<1>10. CASE Is!Finish
  <2>1. /\ pc = "call" /\ pc' = "return" /\ result' = "ok"
        /\ UNCHANGED <<cfg, cf, tf, d, op, edits, mishaps>>
    BY <1>10, IsCore DEF Finish
  <2> QED
    BY <2>1 DEF IsSteady
<1>11. CASE Is!EndOperation(A)
  <2>1. EndOperation(A)
    BY <1>11, IsCore
  <2>2. /\ pc = "return" /\ pc' = "idle" /\ UNCHANGED <<cfg, cf, edits, mishaps>>
    BY <2>1 DEF EndOperation
  <2>3. op = "delete" \/ (op = "create" /\ d.orgs = cfg)
    BY <2>2 DEF IsSteady
  <2>4. CASE op = "create" /\ d.orgs = cfg /\ d.there
    <3>1. tf' = [d EXCEPT !.tainted = op = "create" /\ result = "failed"]
      BY <2>1, <2>4 DEF EndOperation
    <3>2. tf'.orgs = d.orgs /\ (tf'.tainted <=> result = "failed")
      BY <1>1, <2>4, <3>1 DEF Is!Data
    <3>3. result = "ok" => cf.there /\ d.orgs \subseteq cf.orgs
      BY <2>2, <2>4 DEF IsInv, Is!Truthful, Is!Told
    <3> QED
      BY <2>2, <2>4, <3>2, <3>3 DEF IsSteady
  <2>5. CASE op = "create" /\ ~d.there
    <3>1. tf' = A
      BY <2>1, <2>5 DEF EndOperation
    <3> QED
      BY <1>2, <2>2, <3>1 DEF IsSteady
  <2>6. CASE op = "delete"
    <3>1. tf' \in {A, tf}
      BY <2>1, <2>6 DEF EndOperation
    <3> QED
      BY <1>2, <2>2, <2>6, <3>1 DEF IsSteady
  <2> QED
    BY <2>3, <2>4, <2>5, <2>6
<1>12. CASE Is!EditConfig \/ Is!OthersChange \/ Is!Destroy
  <2>1. edits' = edits + 1
    BY <1>12, IsCore DEF Is!OthersChange, Is!Destroy, EditOf, Others, Removed
  <2> QED
    BY <1>1, <2>1
<1>13. CASE Is!Crash(A)
  <2>1. mishaps' = mishaps + 1
    BY <1>13, IsCore DEF Crash, Mishap
  <2> QED
    BY <1>1, <2>1
<1> QED
  BY <1>4, <1>5, <1>6, <1>7, <1>8, <1>9, <1>10, <1>11, <1>12, <1>13
  DEF Is!Run, Is!Operate, Is!Disturb, A

(* It holds at the start, *)
LEMMA IsInitInv == Is!Init => IsInv /\ IsSteady
<1> SUFFICES ASSUME Is!Init PROVE IsInv /\ IsSteady
  OBVIOUS
<1> DEFINE A == Is!Absent
           D == Is!Data
           O == Is!Segment
<1>1. /\ cf \in O /\ cfg \in Configs["segment"] /\ tf = A /\ d = A /\ pc = "idle"
      /\ op = "none" /\ todo = <<>> /\ result = "none" /\ edits = 0 /\ mishaps = 0
  BY DEF Is!Init, Is!Idle
<1>2. A \in D
  BY <1>1, IsPlanned
<1> HIDE DEF A, D, O
<1>3. Typed(Configs["segment"], D, O, IsCalls)
  BY <1>1, <1>2, InitTyped
<1>4. IsTyped
  BY <1>3 DEF IsTyped, D, O
<1>5. IsSteady
  BY <1>1, <1>2, IsPlanned DEF IsSteady, A
<1> QED
  BY <1>1, <1>4, <1>5 DEF IsInv, IsPromise, Is!Truthful, Is!Told

(* it is kept by every step of an isolation segment, *)
LEMMA IsStep ==
  IsInv /\ IsSteady /\ (Is!Run \/ Is!Operate \/ Is!Disturb)
    => IsInv' /\ IsSteady' /\ (Refreshes => Is!AsAsked')
<1> SUFFICES ASSUME IsInv, IsSteady, Is!Run \/ Is!Operate \/ Is!Disturb
             PROVE  IsInv' /\ IsSteady' /\ (Refreshes => Is!AsAsked')
  OBVIOUS
<1>1. IsInv'
  BY IsRefreshStep, IsCreateStep, IsUpdateStep, IsDeletionStep, IsPerformStep, IsQuietStep
  DEF Is!Run, Is!Operate, Is!Disturb
<1>2. ASSUME Refreshes PROVE Is!Refresh
  BY <1>2, OnlyRefreshes, IsCore
  DEF Refreshes, Is!Run, Is!Operate, Is!Disturb, Is!NothingToDo, Is!Create, Is!Update, Is!Replace,
      Is!Perform, Is!Destroy, Is!OthersChange
<1>3. Refreshes => Is!AsAsked'
  BY <1>2, IsRefreshStep
<1> QED
  BY <1>1, <1>3, IsSteadyStep

(* and by a step that changes nothing. *)
LEMMA IsStutter == IsInv /\ IsSteady /\ UNCHANGED vars => IsInv' /\ IsSteady'
<1> SUFFICES ASSUME IsInv, IsSteady, UNCHANGED vars PROVE IsInv' /\ IsSteady'
  OBVIOUS
<1>1. IsTyped'
  BY StutterTyped DEF IsInv, IsTyped
<1> QED
  BY <1>1 DEF vars, IsSteady, IsInv, IsPromise, Is!Truthful, Is!Told, IsBefore

-----------------------------------------------------------------------------
(* The segment of a space.                                                 *)
LEMMA SsCore ==
  /\ \A what, arg : Ss!Call(what, arg) = Call(what, arg)
  /\ (Ss!NoMishap <=> NoMishap) /\ (\A where : Ss!Mishap(where) <=> Mishap(where))
  /\ \A new : (Ss!Refreshed(new) <=> Refreshed(new)) /\ (Ss!Others(new) <=> Others(new))
  /\ \A s : Ss!Settled(s) <=> Settled(s)
  /\ \A what, x, calls : Ss!Begin(what, x, calls) <=> Begin(what, x, calls)
  /\ \A what, x : Ss!GivesUp(what, x) <=> GivesUp(what, x)
  /\ \A calls : Ss!Removed(calls) <=> Removed(calls)
  /\ \A new, x, possible, dropped :
       Ss!Calling(new, x, possible, dropped) <=> Calling(new, x, possible, dropped)
  /\ \A x : (Ss!EndOperation(x) <=> EndOperation(x)) /\ (Ss!Crash(x) <=> Crash(x))
  /\ (Ss!Finish <=> Finish) /\ (Ss!EditConfig <=> EditOf(Configs["segment_space"]))
  /\ Ss!Told <=> Told
  /\ Ss!CoreOK <=> Core(Configs["segment_space"])
BY DEF Ss!Call, Ss!NoMishap, Ss!Mishap, Ss!Answers, Ss!Answer, Ss!Done,
       Ss!Refreshed, Ss!Settled, Ss!Begin, Ss!GivesUp, Ss!Calling, Ss!Finish,
       Ss!EndOperation, Ss!Crash, Ss!EditConfig, Ss!Others, Ss!Removed, Ss!Idle,
       Ss!Told, Ss!CoreOK, Call, NoMishap, Mishap, Answers, Answer, Done,
       Refreshed, Settled, Begin, GivesUp, Calling, Finish, EndOperation, Crash,
       Others, Removed, Idle, Told, EditOf, Core

SsCalls == [do : {"set"}, arg : Segments \cup {None}]

(* The calls q give the space with the segment y what x says. *)
SsLeads(x, y, q) ==
  q \in Seq({c \in SsCalls : c.arg = x.segment}) /\ ("set" \in Does(q) \/ y = x.segment)

SsTyped == Typed(Configs["segment_space"], Ss!Data, Segments \cup {None}, SsCalls)
SsPromise == pc = "call" /\ op \in {"create", "update"} => SsLeads(d, cf, todo)
SsInv == SsTyped /\ SsPromise /\ Ss!Truthful

(* What a plan asks for, and what Terraform keeps of what is gone, for a    *)
(* space of a segment, are resource data.                                   *)
LEMMA SsPlanned ==
  ASSUME cfg \in Configs["segment_space"]
  PROVE  /\ Ss!Planned(TRUE) \in Ss!Data /\ Ss!Absent \in Ss!Data
         /\ cfg \in Segments /\ Ss!Planned(TRUE).segment = cfg /\ ~Ss!Absent.there
BY ResourcesAssumption
DEF ResourcesAssumption, Ss!SegmentSpacesAssumption, Ss!Data, Ss!Planned, Ss!Absent

(* An operation on a space of a segment whose calls lead to what it was     *)
(* asked begins with the invariant.                                         *)
LEMMA SsBegins ==
  ASSUME SsTyped, NEW what \in {"create", "update"}, NEW x \in Ss!Data,
         NEW calls \in Seq(SsCalls), AnyMishap, Begin(what, x, calls),
         TRUE => SsLeads(x, cf, calls)
  PROVE  SsInv'
<1>1. /\ SsTyped' /\ UNCHANGED <<cf>> /\ pc' = "call" /\ op' = what /\ d' = x
      /\ todo' = calls
  BY BeginTyped DEF SsTyped
<1> QED
  BY <1>1 DEF SsInv, SsPromise, Ss!Truthful, Ss!Told

(* The invariant of a space of a segment is kept by Create, *)
LEMMA SsCreateStep == SsInv /\ Ss!Create => SsInv'
<1> SUFFICES ASSUME SsInv, Ss!Create PROVE SsInv'
  OBVIOUS
<1>1. SsTyped /\ cfg \in Configs["segment_space"]
  BY DEF SsInv, SsTyped, Typed, Core
<1> DEFINE P == Ss!Planned(TRUE)
           c == Call("set", cfg)
           q == <<c>>
<1>2. AnyMishap /\ Begin("create", P, q)
  BY SsCore DEF Ss!Create, AnyMishap
<1>3. P \in Ss!Data /\ P.segment = cfg /\ c \in SsCalls /\ c.do = "set" /\ c.arg = P.segment
  BY <1>1, SsPlanned DEF SsCalls, Call
<1> HIDE DEF P, c
<1>4. q \in Seq(SsCalls) /\ q \in Seq({b \in SsCalls : b.arg = P.segment}) /\ Does(q) = {"set"}
  BY <1>3, Few
<1> HIDE DEF q
<1>5. SsLeads(P, cf, q)
  BY <1>4 DEF SsLeads
<1> QED
  BY <1>1, <1>2, <1>3, <1>4, <1>5, SsBegins

(* by a deletion, in a destroy or a replacement, *)
LEMMA SsDeletionStep == SsInv /\ (Ss!Replace \/ Ss!Destroy) => SsInv'
<1> SUFFICES ASSUME SsInv, Ss!Replace \/ Ss!Destroy PROVE SsInv'
  OBVIOUS
<1> DEFINE q == Ss!DeleteCalls
<1>1. SsTyped /\ tf \in Ss!Data
  BY DEF SsInv, SsTyped, Typed
<1>2. q \in Seq(SsCalls)
  <2>1. Call("set", None) \in SsCalls
    BY DEF SsCalls, Call
  <2> QED
    BY <2>1, SsCore DEF Ss!DeleteCalls
<1>3. (AnyMishap /\ Begin("delete", tf, q)) \/ Removed(q)
  BY SsCore DEF Ss!Replace, Ss!Destroy, AnyMishap
<1> HIDE DEF q
<1>4. SsTyped' /\ pc' = "call" /\ op' = "delete"
  BY <1>1, <1>2, <1>3, BeginTyped DEF SsTyped
<1> QED
  BY <1>4 DEF SsInv, SsPromise, Ss!Truthful, Ss!Told

(* by each call and each of its answers, *)
LEMMA SsPerformStep == SsInv /\ Ss!Perform => SsInv'
<1> SUFFICES ASSUME SsInv, Ss!Perform PROVE SsInv'
  OBVIOUS
<1> DEFINE y == First.arg
           x == d
           can == TRUE
           D == Ss!Data
           O == (Segments \cup {None})
<1>1. Calling(y, x, can, FALSE) /\ todo # <<>>
  BY SsCore DEF Ss!Perform, First
<1>2. SsTyped /\ cf \in (Segments \cup {None}) /\ d \in Ss!Data /\ todo \in Seq(SsCalls)
  BY DEF SsInv, SsTyped, Typed
<1>3. /\ First \in SsCalls /\ Does(todo) = {First.do} \cup Does(Rest)
      /\ Does(Rest) = Later(todo) /\ Later(Rest) \subseteq Later(todo)
  BY <1>1, <1>2, FirstAndRest
<1>4. can \in BOOLEAN
  OBVIOUS
<1>5. x \in Ss!Data /\ x = d
  BY <1>2 DEF Ss!Data
<1>6. y \in (Segments \cup {None})
  BY <1>2, <1>3, ResourcesAssumption
  DEF SsCalls, Ss!SegmentSpacesAssumption, ResourcesAssumption
<1>7. Typed(Configs["segment_space"], D, O, SsCalls) /\ x \in D /\ y \in O
  BY <1>2, <1>5, <1>6 DEF SsTyped
<1> HIDE DEF y, x, can, D, O
<1>8. /\ Typed(Configs["segment_space"], D, O, SsCalls)' /\ pc = "call"
      /\ (can /\ Answered(y, x)) \/ (pc' = "return" /\ result' = "failed")
  BY <1>1, <1>4, <1>7, StrictCallTyped
<1>9. SsTyped'
  BY <1>8 DEF SsTyped, D, O
<1>10. CASE pc' = "return" /\ result' = "failed"
  BY <1>8, <1>9, <1>10 DEF SsInv, SsPromise, Ss!Truthful, Ss!Told
<1>11. CASE can /\ Answered(y, x)
  <2>1. ASSUME SsLeads(d, cf, todo) PROVE SsLeads(x, y, Rest)
    <3> DEFINE M == {c \in SsCalls : c.arg = d.segment}
    <3>1. todo \in Seq(M)
      BY <2>1 DEF SsLeads
    <3>2. First \in M /\ Rest \in Seq(M)
      <4> HIDE DEF M
      <4> QED
        BY <1>1, <3>1, FirstAndRest
    <3> QED
      BY <1>5, <3>2 DEF SsLeads, y
  <2>2. SsPromise'
    BY <1>3, <1>5, <1>8, <1>11, <2>1 DEF SsInv, SsPromise, Answered
  <2> QED
    BY <1>8, <1>9, <1>11, <2>2 DEF SsInv, Ss!Truthful, Ss!Told, Answered
<1> QED
  BY <1>8, <1>9, <1>10, <1>11

(* An empty plan has the segment that was read. *)
LEMMA SsRefreshStep == SsInv /\ Ss!Refresh => SsInv' /\ Ss!AsAsked'
<1> SUFFICES ASSUME SsInv, Ss!Refresh PROVE SsInv' /\ Ss!AsAsked'
  OBVIOUS
<1>1. SsTyped /\ cfg \in Configs["segment_space"] /\ tf \in Ss!Data
  BY DEF SsInv, SsTyped, Typed, Core
<1>2. Ss!Absent \in Ss!Data /\ ~Ss!Absent.there
  BY <1>1, SsPlanned
<1>3. PICK new \in Ss!Data :
        AnyMishap /\ Refreshed(new) /\ (new.there => new.segment = cf)
  <2> DEFINE A == Ss!Absent
  <2>1. NoMishap /\ ((Refreshed(tf) /\ cf = tf.segment) \/ Refreshed(A))
    BY SsCore DEF Ss!Refresh, Ss!Exists
  <2> HIDE DEF A
  <2> QED
    BY <1>1, <1>2, <2>1 DEF AnyMishap, A
<1>4. SsTyped' /\ pc' = "plan" /\ tf' = new /\ UNCHANGED <<cfg, cf>>
  BY <1>1, <1>3, RefreshTyped DEF SsTyped, Refreshed
<1>5. SsInv'
  BY <1>4 DEF SsInv, SsPromise, Ss!Truthful, Ss!Told
<1>6. Ss!AsAsked'
  BY <1>3, <1>4 DEF Ss!AsAsked, Ss!InSync, Ss!Planned
<1> QED
  BY <1>5, <1>6

(* and by the steps that leave an operation that is under way alone. *)
LEMMA SsQuietStep ==
  SsInv /\ (\/ Ss!NothingToDo \/ Ss!Finish \/ Ss!EndOperation(Ss!Absent)
            \/ Ss!EditConfig \/ Ss!OthersChange \/ Ss!Crash(Ss!Absent))
    => SsInv'
<1> SUFFICES ASSUME SsInv,
                    \/ Ss!NothingToDo \/ Ss!Finish \/ Ss!EndOperation(Ss!Absent)
                    \/ Ss!EditConfig \/ Ss!OthersChange \/ Ss!Crash(Ss!Absent)
             PROVE  SsInv'
  OBVIOUS
<1> DEFINE A == Ss!Absent
           D == Ss!Data
           O == (Segments \cup {None})
<1>1. SsTyped /\ cfg \in Configs["segment_space"] /\ cf \in O
  BY DEF SsInv, SsTyped, Typed, Core
<1>2. A \in D
  BY <1>1, SsPlanned
<1>3. CanTaint(D)
  BY DEF CanTaint, Ss!Data
<1>4. Ss!OthersChange => \E new \in O : Others(new)
  BY <1>1, SsCore DEF Ss!OthersChange
<1>5. \/ \E s \in BOOLEAN : Settled(s)
      \/ Finish \/ EndOperation(A) \/ Crash(A) \/ Panics \/ Again
      \/ EditOf(Configs["segment_space"]) \/ \E new \in O : Others(new)
  BY <1>4, SsCore DEF Ss!NothingToDo, Ss!InSync
<1> HIDE DEF A, D, O
<1>6. Typed(Configs["segment_space"], D, O, SsCalls)
  BY <1>1 DEF SsTyped, D, O
<1>7. /\ Typed(Configs["segment_space"], D, O, SsCalls)' /\ pc' # "call"
      /\ pc' = "return" => Finish
  BY <1>2, <1>3, <1>5, <1>6, QuietTyped
<1>8. SsTyped'
  BY <1>7 DEF SsTyped, D, O
<1>9. SsPromise'
  BY <1>7 DEF SsPromise
<1>10. Ss!Truthful'
  <2> SUFFICES ASSUME Ss!Told' PROVE Ss!Truthful'
    BY DEF Ss!Truthful
  <2>1. /\ pc = "call" /\ todo = <<>> /\ op \in {"create", "update"} /\ d.there
        /\ UNCHANGED <<cf, d, tf, op, mishaps>>
    BY <1>7 DEF Ss!Told, Finish
  <2>2. SsLeads(d, cf, todo)
    BY <2>1 DEF SsInv, SsPromise
  <2>3. cf = d.segment
    BY <1>1, <2>1, <2>2, Few DEF SsLeads
  <2> QED
    BY <2>1, <2>3 DEF Ss!Truthful
<1> QED
  BY <1>8, <1>9, <1>10 DEF SsInv

(* It holds at the start, *)
LEMMA SsInitInv == Ss!Init => SsInv
<1> SUFFICES ASSUME Ss!Init PROVE SsInv
  OBVIOUS
<1> DEFINE A == Ss!Absent
           D == Ss!Data
           O == (Segments \cup {None})
<1>1. /\ cf \in O /\ cfg \in Configs["segment_space"] /\ tf = A /\ d = A /\ pc = "idle"
      /\ op = "none" /\ todo = <<>> /\ result = "none" /\ edits = 0 /\ mishaps = 0
  BY DEF Ss!Init, Ss!Idle
<1>2. A \in D
  BY <1>1, SsPlanned
<1> HIDE DEF A, D, O
<1>3. Typed(Configs["segment_space"], D, O, SsCalls)
  BY <1>1, <1>2, InitTyped
<1>4. SsTyped
  BY <1>3 DEF SsTyped, D, O
<1> QED
  BY <1>1, <1>4 DEF SsInv, SsPromise, Ss!Truthful, Ss!Told

(* it is kept by every step of a space of a segment, *)
LEMMA SsStep ==
  SsInv /\ (Ss!Run \/ Ss!Operate \/ Ss!Disturb) => SsInv' /\ (Refreshes => Ss!AsAsked')
<1> SUFFICES ASSUME SsInv, Ss!Run \/ Ss!Operate \/ Ss!Disturb
             PROVE  SsInv' /\ (Refreshes => Ss!AsAsked')
  OBVIOUS
<1>1. SsInv'
  BY SsRefreshStep, SsCreateStep, SsDeletionStep, SsPerformStep, SsQuietStep
  DEF Ss!Run, Ss!Operate, Ss!Disturb
<1>2. ASSUME Refreshes PROVE Ss!Refresh
  BY <1>2, OnlyRefreshes, SsCore
  DEF Refreshes, Ss!Run, Ss!Operate, Ss!Disturb, Ss!NothingToDo, Ss!Create, Ss!Replace,
      Ss!Perform, Ss!Destroy, Ss!OthersChange
<1>3. Refreshes => Ss!AsAsked'
  BY <1>2, SsRefreshStep
<1> QED
  BY <1>1, <1>3

(* and by a step that changes nothing. *)
LEMMA SsStutter == SsInv /\ UNCHANGED vars => SsInv'
<1> SUFFICES ASSUME SsInv, UNCHANGED vars PROVE SsInv'
  OBVIOUS
<1>1. SsTyped'
  BY StutterTyped DEF SsInv, SsTyped
<1> QED
  BY <1>1 DEF vars, SsInv, SsPromise, Ss!Truthful, Ss!Told

-----------------------------------------------------------------------------
(* The resources side by side.                                              *)
(* What each resource keeps of its types is its type invariant.             *)
LEMMA AreTyped ==
  /\ OrTyped => Or!TypeOK
  /\ SpTyped => Sp!TypeOK
  /\ SgTyped => Sg!TypeOK
  /\ DoTyped => Do!TypeOK
  /\ RoTyped => Ro!TypeOK
  /\ EnTyped => En!TypeOK
  /\ FfTyped => Ff!TypeOK
  /\ QuTyped => Qu!TypeOK
  /\ BuTyped => Bu!TypeOK
  /\ IsTyped => Is!TypeOK
  /\ SsTyped => Ss!TypeOK
<1>1. OrTyped => Or!TypeOK
  BY OrCore DEF OrTyped, Typed, Or!TypeOK
<1>2. ASSUME SpTyped PROVE Sp!TypeOK
  <2> DEFINE T == [do : {"post", "setId", "ssh", "trySsh", "bind", "unbind", "assign", "unassign", "delete"},
         arg : Groups \cup SpaceQuotas \cup {None} \cup BOOLEAN]
  <2>1. SpCalls \subseteq T
    BY DEF SpCalls
  <2>2. todo \in Seq(SpCalls)
    BY <1>2 DEF SpTyped, Typed
  <2> HIDE DEF T
  <2>3. todo \in Seq(T)
    BY <2>1, <2>2, SeqOfMore
  <2> QED
    BY <1>2, <2>3, SpCore DEF T, SpTyped, Typed, Sp!TypeOK
<1>3. ASSUME SgTyped PROVE Sg!TypeOK
  <2> DEFINE T == [do : {"post", "find", "rules", "tryRules", "list", "staging", "running", "delete"},
         arg : Rules \cup BOOLEAN]
  <2>1. SgCalls \subseteq T
    BY DEF SgCalls
  <2>2. todo \in Seq(SgCalls)
    BY <1>3 DEF SgTyped, Typed
  <2> HIDE DEF T
  <2>3. todo \in Seq(T)
    BY <2>1, <2>2, SeqOfMore
  <2> QED
    BY <1>3, <2>3, SgCore DEF T, SgTyped, Typed, Sg!TypeOK
<1>4. ASSUME DoTyped PROVE Do!TypeOK
  <2> DEFINE T == [do : {"post", "setId", "get", "list", "share", "unshare", "nothing", "forget", "delete"},
         arg : Orgs \cup {None}]
  <2>1. DoCalls \subseteq T
    BY DEF DoCalls
  <2>2. todo \in Seq(DoCalls)
    BY <1>4 DEF DoTyped, Typed
  <2> HIDE DEF T
  <2>3. todo \in Seq(T)
    BY <2>1, <2>2, SeqOfMore
  <2> QED
    BY <1>4, <2>3, DoCore DEF T, DoTyped, Typed, Do!TypeOK, DoData, DoPlatform
<1>5. ASSUME RoTyped PROVE Ro!TypeOK
  <2> DEFINE T == [do : {"post", "getService", "bind", "unbind", "delete"}, arg : RouteServices \cup {None}]
  <2>1. RoCalls \subseteq T
    BY DEF RoCalls
  <2>2. todo \in Seq(RoCalls)
    BY <1>5 DEF RoTyped, Typed
  <2> HIDE DEF T
  <2>3. todo \in Seq(T)
    BY <2>1, <2>2, SeqOfMore
  <2> QED
    BY <1>5, <2>3, RoCore DEF T, RoTyped, Typed, Ro!TypeOK
<1>6. EnTyped => En!TypeOK
  BY EnCore DEF EnTyped, Typed, En!TypeOK, EnCalls
<1>7. FfTyped => Ff!TypeOK
  BY FfCore DEF FfTyped, Typed, Ff!TypeOK, FfPlatform, FfCalls
<1>8. ASSUME QuTyped PROVE Qu!TypeOK
  <2> DEFINE T == [do : {"post", "find", "put", "delete"}, arg : Qu!Memory]
  <2>1. QuCalls \subseteq T
    BY DEF QuCalls
  <2>2. todo \in Seq(QuCalls)
    BY <1>8 DEF QuTyped, Typed
  <2> HIDE DEF T
  <2>3. todo \in Seq(T)
    BY <2>1, <2>2, SeqOfMore
  <2> QED
    BY <1>8, <2>3, QuCore DEF T, QuTyped, Typed, Qu!TypeOK
<1>9. ASSUME BuTyped PROVE Bu!TypeOK
  <2> DEFINE T == [do : {"post", "setId", "nothing", "get", "put", "zip", "upload", "delete"},
         arg : Options \cup Bu!Files \cup {None}]
  <2>1. BuCalls \subseteq T
    BY DEF BuCalls
  <2>2. todo \in Seq(BuCalls)
    BY <1>9 DEF BuTyped, Typed
  <2> HIDE DEF T
  <2>3. todo \in Seq(T)
    BY <2>1, <2>2, SeqOfMore
  <2> QED
    BY <1>9, <2>3, BuCore DEF T, BuTyped, Typed, Bu!TypeOK
<1>10. ASSUME IsTyped PROVE Is!TypeOK
  <2> DEFINE T == [do : {"post", "entitle", "revoke", "delete"}, arg : Orgs \cup SUBSET Orgs]
  <2>1. IsCalls \subseteq T
    BY DEF IsCalls
  <2>2. todo \in Seq(IsCalls)
    BY <1>10 DEF IsTyped, Typed
  <2> HIDE DEF T
  <2>3. todo \in Seq(T)
    BY <2>1, <2>2, SeqOfMore
  <2> QED
    BY <1>10, <2>3, IsCore DEF T, IsTyped, Typed, Is!TypeOK
<1>11. SsTyped => Ss!TypeOK
  BY SsCore DEF SsTyped, Typed, Ss!TypeOK, SsCalls
<1> QED
  BY <1>1, <1>2, <1>3, <1>4, <1>5, <1>6, <1>7, <1>8, <1>9, <1>10, <1>11

(* Each resource keeps its own promises; a segment is as good as the plan.  *)
Inv ==
  /\ kind = "organization"   => OrInv
  /\ kind = "space"          => SpInv /\ SpSteady
  /\ kind = "security_group" => SgInv
  /\ kind = "domain"         => DoInv
  /\ kind = "route"          => RoInv /\ RoSteady
  /\ kind = "env_var_group"  => EnInv
  /\ kind = "feature_flags"  => FfInv
  /\ kind = "quota"          => QuInv
  /\ kind = "buildpack"      => BuInv
  /\ kind = "segment"        => IsInv /\ IsSteady
  /\ kind = "segment_space"  => SsInv

(* The invariant holds at the start,                                        *)
LEMMA InitInv == Init => Inv
BY OrInitInv, SpInitInv, SgInitInv, DoInitInv, RoInitInv, EnInitInv,
   FfInitInv, QuInitInv, BuInitInv, IsInitInv, SsInitInv
DEF Init, Inv

(* What the properties of steps say of one. *)
PlanIsTrue ==
  /\ kind = "organization"   => Or!OnlyDefaultHides'
  /\ kind = "space"          => Sp!AsAsked'
  /\ kind = "security_group" => Sg!AsAsked'
  /\ kind = "domain"         => Do!AsAsked'
  /\ kind = "route"          => Ro!AsAsked'
  /\ kind = "env_var_group"  => En!OnlyStagedValuesHide'
  /\ kind = "feature_flags"  => Ff!AsAsked'
  /\ kind = "quota"          => Qu!AsAsked'
  /\ kind = "buildpack"      => Bu!AsAsked'
  /\ kind = "segment"        => Is!AsAsked'
  /\ kind = "segment_space"  => Ss!AsAsked'

StepIsGood ==
  /\ Inv' /\ (Refreshes => PlanIsTrue)
  /\ kind = "space" /\ pc = "call" => Sp!KeepsGroups
  /\ kind = "domain" /\ pc = "call" => Do!KeepsShares

(* every step of any of them keeps it and is good,                          *)
LEMMA EachStep == Inv /\ Next => StepIsGood
<1> SUFFICES ASSUME Inv, Next PROVE StepIsGood
  OBVIOUS
<1>1. kind' = kind
  BY DEF Next, Run, Operate, Disturb
<1>2. CASE kind = "organization" /\ (Or!Run \/ Or!Operate \/ Or!Disturb)
  <2>1. OrInv
    BY <1>2 DEF Inv
  <2>2. OrInv' /\ (Refreshes => Or!OnlyDefaultHides')
    BY <1>2, <2>1, OrStep
  <2> QED
    BY <1>1, <1>2, <2>2 DEF StepIsGood, Inv, PlanIsTrue
<1>3. CASE kind = "space" /\ (Sp!Run \/ Sp!Operate \/ Sp!Disturb)
  <2>1. SpInv /\ SpSteady
    BY <1>3 DEF Inv
  <2>2. /\ SpInv' /\ SpSteady' /\ (Refreshes => Sp!AsAsked')
        /\ pc = "call" => Sp!KeepsGroups
    BY <1>3, <2>1, SpStep
  <2> QED
    BY <1>1, <1>3, <2>2 DEF StepIsGood, Inv, PlanIsTrue
<1>4. CASE kind = "security_group" /\ (Sg!Run \/ Sg!Operate \/ Sg!Disturb)
  <2>1. SgInv
    BY <1>4 DEF Inv
  <2>2. SgInv' /\ (Refreshes => Sg!AsAsked')
    BY <1>4, <2>1, SgStep
  <2> QED
    BY <1>1, <1>4, <2>2 DEF StepIsGood, Inv, PlanIsTrue
<1>5. CASE kind = "domain" /\ (Do!Run \/ Do!Operate \/ Do!Disturb)
  <2>1. DoInv
    BY <1>5 DEF Inv
  <2>2. /\ DoInv' /\ (Refreshes => Do!AsAsked')
        /\ pc = "call" => Do!KeepsShares
    BY <1>5, <2>1, DoStep
  <2> QED
    BY <1>1, <1>5, <2>2 DEF StepIsGood, Inv, PlanIsTrue
<1>6. CASE kind = "route" /\ (Ro!Run \/ Ro!Operate \/ Ro!Disturb)
  <2>1. RoInv /\ RoSteady
    BY <1>6 DEF Inv
  <2>2. RoInv' /\ RoSteady' /\ (Refreshes => Ro!AsAsked')
    BY <1>6, <2>1, RoStep
  <2> QED
    BY <1>1, <1>6, <2>2 DEF StepIsGood, Inv, PlanIsTrue
<1>7. CASE kind = "env_var_group" /\ (En!Run \/ En!Operate \/ En!Disturb)
  <2>1. EnInv
    BY <1>7 DEF Inv
  <2>2. EnInv' /\ (Refreshes => En!OnlyStagedValuesHide')
    BY <1>7, <2>1, EnStep
  <2> QED
    BY <1>1, <1>7, <2>2 DEF StepIsGood, Inv, PlanIsTrue
<1>8. CASE kind = "feature_flags" /\ (Ff!Run \/ Ff!Operate \/ Ff!Disturb)
  <2>1. FfInv
    BY <1>8 DEF Inv
  <2>2. FfInv' /\ (Refreshes => Ff!AsAsked')
    BY <1>8, <2>1, FfStep
  <2> QED
    BY <1>1, <1>8, <2>2 DEF StepIsGood, Inv, PlanIsTrue
<1>9. CASE kind = "quota" /\ (Qu!Run \/ Qu!Operate \/ Qu!Disturb)
  <2>1. QuInv
    BY <1>9 DEF Inv
  <2>2. QuInv' /\ (Refreshes => Qu!AsAsked')
    BY <1>9, <2>1, QuStep
  <2> QED
    BY <1>1, <1>9, <2>2 DEF StepIsGood, Inv, PlanIsTrue
<1>10. CASE kind = "buildpack" /\ (Bu!Run \/ Bu!Operate \/ Bu!Disturb)
  <2>1. BuInv
    BY <1>10 DEF Inv
  <2>2. BuInv' /\ (Refreshes => Bu!AsAsked')
    BY <1>10, <2>1, BuStep
  <2> QED
    BY <1>1, <1>10, <2>2 DEF StepIsGood, Inv, PlanIsTrue
<1>11. CASE kind = "segment" /\ (Is!Run \/ Is!Operate \/ Is!Disturb)
  <2>1. IsInv /\ IsSteady
    BY <1>11 DEF Inv
  <2>2. IsInv' /\ IsSteady' /\ (Refreshes => Is!AsAsked')
    BY <1>11, <2>1, IsStep
  <2> QED
    BY <1>1, <1>11, <2>2 DEF StepIsGood, Inv, PlanIsTrue
<1>12. CASE kind = "segment_space" /\ (Ss!Run \/ Ss!Operate \/ Ss!Disturb)
  <2>1. SsInv
    BY <1>12 DEF Inv
  <2>2. SsInv' /\ (Refreshes => Ss!AsAsked')
    BY <1>12, <2>1, SsStep
  <2> QED
    BY <1>1, <1>12, <2>2 DEF StepIsGood, Inv, PlanIsTrue
<1> QED
  BY <1>2, <1>3, <1>4, <1>5, <1>6, <1>7, <1>8, <1>9, <1>10, <1>11, <1>12
  DEF Next, Run, Operate, Disturb

(* and so does a step that changes nothing:                                 *)
LEMMA NoStep == Inv /\ UNCHANGED all => Inv'
<1> SUFFICES ASSUME Inv, UNCHANGED all PROVE Inv'
  OBVIOUS
<1>1. kind' = kind /\ UNCHANGED vars
  BY DEF all
<1>2. OrInv => OrInv'
  BY <1>1, OrStutter
<1>3. SpInv /\ SpSteady => SpInv' /\ SpSteady'
  BY <1>1, SpStutter
<1>4. SgInv => SgInv'
  BY <1>1, SgStutter
<1>5. DoInv => DoInv'
  BY <1>1, DoStutter
<1>6. RoInv /\ RoSteady => RoInv' /\ RoSteady'
  BY <1>1, RoStutter
<1>7. EnInv => EnInv'
  BY <1>1, EnStutter
<1>8. FfInv => FfInv'
  BY <1>1, FfStutter
<1>9. QuInv => QuInv'
  BY <1>1, QuStutter
<1>10. BuInv => BuInv'
  BY <1>1, BuStutter
<1>11. IsInv /\ IsSteady => IsInv' /\ IsSteady'
  BY <1>1, IsStutter
<1>12. SsInv => SsInv'
  BY <1>1, SsStutter
<1> QED
  BY <1>1, <1>2, <1>3, <1>4, <1>5, <1>6, <1>7, <1>8, <1>9, <1>10, <1>11, <1>12 DEF Inv

(* it always holds.                                                         *)
LEMMA InvHolds == Spec => []Inv
<1>1. Inv /\ [Next]_all => Inv'
  BY EachStep, NoStep DEF StepIsGood
<1> QED
  BY InitInv, <1>1, PTL DEF Spec

-----------------------------------------------------------------------------
(* The types, for any names, quotas, groups, flags and configurations.      *)
THEOREM TypesHold == Spec => []TypeOK
<1>1. Inv => TypeOK
  BY AreTyped DEF Inv, TypeOK, OrInv, SpInv, SgInv, DoInv, RoInv, EnInv, FfInv, QuInv, BuInv, IsInv, SsInv
<1> QED
  BY InvHolds, <1>1, PTL

(* A Create or an Update that succeeded made of its object what Terraform   *)
(* remembers, whatever the object was and whatever failed before, but for   *)
(* what each resource's Truthful excepts: an Update takes the name and the  *)
(* organization of a space (spaces.go:152-184), or the parameters of a      *)
(* route service alone (routes.go:149-152), into the state and sends        *)
(* neither; a Create may have taken the segment of another name             *)
(* (isolation_segments.go:157-170).                                         *)
THEOREM SuccessHolds == Spec => []SuccessIsTrue
<1>1. Inv => SuccessIsTrue
  BY DEF Inv, SuccessIsTrue, OrInv, SpInv, SgInv, DoInv, RoInv, EnInv, FfInv, QuInv, BuInv, IsInv, SsInv
<1> QED
  BY InvHolds, <1>1, PTL

(* An empty plan is true of every resource, but for what its AsAsked        *)
(* excepts: after an edit or a rename it says nothing of the name and the   *)
(* organization of a space (spaces.go:125-151), nor after an edit of the    *)
(* parameters of a route service (routes.go:149-152), and nothing of the    *)
(* organizations of a segment (isolation_segments.go:109).                  *)
THEOREM PlansHold == Spec => PlansAreTrue
<1>1. Inv /\ [Next]_all =>
  [Refreshes =>
       /\ kind = "organization"   => Or!OnlyDefaultHides'
       /\ kind = "space"          => Sp!AsAsked'
       /\ kind = "security_group" => Sg!AsAsked'
       /\ kind = "domain"         => Do!AsAsked'
       /\ kind = "route"          => Ro!AsAsked'
       /\ kind = "env_var_group"  => En!OnlyStagedValuesHide'
       /\ kind = "feature_flags"  => Ff!AsAsked'
       /\ kind = "quota"          => Qu!AsAsked'
       /\ kind = "buildpack"      => Bu!AsAsked'
       /\ kind = "segment"        => Is!AsAsked'
       /\ kind = "segment_space"  => Ss!AsAsked']_all
  BY EachStep DEF StepIsGood, PlanIsTrue
<1> QED
  BY InvHolds, <1>1, PTL DEF Spec, PlansAreTrue

(* An update of a space lifts no group that stays asked for, and none that  *)
(* others bound when the groups change (spaces.go:82, 171).                 *)
THEOREM GroupsAreKept == Spec => SpaceKeepsGroups
<1>1. Inv /\ [Next]_all => [kind = "space" /\ pc = "call" => Sp!KeepsGroups]_all
  BY EachStep DEF StepIsGood
<1> QED
  BY InvHolds, <1>1, PTL DEF Spec, SpaceKeepsGroups

(* An operation takes a domain from no organization that it is asked to     *)
(* share it with (domains.go:98-114).                                       *)
THEOREM SharesAreKept == Spec => DomainKeepsShares
<1>1. Inv /\ [Next]_all => [kind = "domain" /\ pc = "call" => Do!KeepsShares]_all
  BY EachStep DEF StepIsGood
<1> QED
  BY InvHolds, <1>1, PTL DEF Spec, DomainKeepsShares

=============================================================================
