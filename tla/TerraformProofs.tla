-------------------------- MODULE TerraformProofs ---------------------------
(***************************************************************************)
(* Lemmas about what the resources of one object have in common: lists of   *)
(* calls, and what each step of Terraform's core does to the types and to   *)
(* what is still to do, whatever the resource.                              *)
(***************************************************************************)
EXTENDS Terraform, FiniteSetTheorems, TLAPS

-----------------------------------------------------------------------------
(* Lists of calls: what they do, which they are, and what they do behind the *)
(* first of them.                                                           *)
Does(s)  == {s[i].do : i \in DOMAIN s}
ToSet(s) == {s[i] : i \in DOMAIN s}
Later(s) == {s[i].do : i \in DOMAIN s \ {1}}

(* A sequence over a set is one over each larger set. *)
LEMMA SeqOfMore ==
  ASSUME NEW S, NEW T, S \subseteq T, NEW s \in Seq(S)
  PROVE  s \in Seq(T)
OBVIOUS

(* The fields of a call. *)
LEMMA CallFields == \A what, arg : Call(what, arg).do = what /\ Call(what, arg).arg = arg
BY DEF Call

(* What the first call of a list and the calls behind it do. *)
LEMMA HeadAndTail ==
  ASSUME NEW T, NEW s \in Seq(T), s # <<>>
  PROVE  /\ Head(s) \in T /\ Tail(s) \in Seq(T)
         /\ ToSet(s) = {Head(s)} \cup ToSet(Tail(s))
         /\ Does(s) = {Head(s).do} \cup Does(Tail(s))
         /\ Does(Tail(s)) = Later(s) /\ Later(Tail(s)) \subseteq Later(s)
<1>1. Head(s) \in T /\ Tail(s) \in Seq(T) /\ Head(s) = s[1] /\ 1 \in DOMAIN s
  OBVIOUS
<1> DEFINE t == Tail(s)
<1>2. /\ \A i \in DOMAIN t : \E j \in DOMAIN s \ {1} : t[i] = s[j]
      /\ \A j \in DOMAIN s \ {1} : \E i \in DOMAIN t : t[i] = s[j]
  <2>1. /\ Len(s) \in Nat \ {0} /\ Len(t) = Len(s) - 1
        /\ DOMAIN s = 1 .. Len(s) /\ DOMAIN t = 1 .. Len(t)
    OBVIOUS
  <2>2. \A i \in DOMAIN t : t[i] = s[i + 1]
    OBVIOUS
  <2> HIDE DEF t
  <2>3. \A i \in DOMAIN t : i + 1 \in DOMAIN s \ {1}
    BY <2>1
  <2>4. \A j \in DOMAIN s \ {1} : j - 1 \in DOMAIN t /\ (j - 1) + 1 = j
    BY <2>1
  <2> QED
    BY <2>2, <2>3, <2>4
<1> HIDE DEF t
<1>3. Does(t) = Later(s)
  BY <1>2 DEF Does, Later
<1>4. Does(s) = {Head(s).do} \cup Later(s)
  BY <1>1 DEF Does, Later
<1>5. Later(t) \subseteq Does(t)
  BY DEF Later, Does
<1>6. ToSet(s) = {Head(s)} \cup ToSet(t)
  BY <1>1, <1>2 DEF ToSet
<1> QED
  BY <1>1, <1>3, <1>4, <1>5, <1>6 DEF t

(* Lists of none, one, two and three calls. *)
LEMMA Few ==
  /\ Does(<<>>) = {} /\ Later(<<>>) = {} /\ ToSet(<<>>) = {}
  /\ \A c : Does(<<c>>) = {c.do} /\ Later(<<c>>) = {} /\ ToSet(<<c>>) = {c}
  /\ \A b, c : Does(<<b, c>>) = {b.do, c.do} /\ Later(<<b, c>>) = {c.do}
  /\ \A a, b, c : /\ Does(<<a, b, c>>) = {a.do, b.do, c.do}
                 /\ Later(<<a, b, c>>) = {b.do, c.do}
<1>1. /\ \A c : DOMAIN <<c>> = {1}
      /\ \A b, c : DOMAIN <<b, c>> = {1, 2}
      /\ \A a, b, c : DOMAIN <<a, b, c>> = {1, 2, 3}
  OBVIOUS
<1> QED
  BY <1>1 DEF Does, Later, ToSet

(* What is done behind the first call is done. *)
LEMMA LaterToo == \A s : Later(s) \subseteq Does(s)
BY DEF Does, Later

(* A call that is made is among what is done. *)
LEMMA Called == \A s : \A c \in ToSet(s) : c.do \in Does(s)
BY DEF ToSet, Does

(* A call that is made or not. *)
LEMMA Perhaps ==
  ASSUME NEW T, NEW c, NEW s, (s = <<c>> /\ c \in T) \/ s = <<>>
  PROVE  /\ s \in Seq(T) /\ Does(s) \subseteq {c.do} /\ Later(s) = {}
         /\ s # <<>> => Does(s) = {c.do}
<1>1. CASE s = <<c>> /\ c \in T
  BY <1>1, Few
<1>2. CASE s = <<>>
  BY <1>2, Few
<1> QED
  BY <1>1, <1>2

(* One list of calls behind another. *)
LEMMA Cat ==
  ASSUME NEW T, NEW a \in Seq(T), NEW b \in Seq(T)
  PROVE  /\ a \o b \in Seq(T) /\ ToSet(a \o b) = ToSet(a) \cup ToSet(b)
         /\ Does(a \o b) = Does(a) \cup Does(b)
         /\ Later(a \o b) \subseteq Later(a) \cup Does(b)
<1>1. a \o b \in Seq(T)
  OBVIOUS
<1> DEFINE s == a \o b
<1>2. /\ Len(a) \in Nat /\ Len(b) \in Nat /\ DOMAIN a = 1 .. Len(a) /\ DOMAIN b = 1 .. Len(b)
      /\ DOMAIN s = 1 .. Len(a) + Len(b)
      /\ \A i \in DOMAIN s : s[i] = IF i <= Len(a) THEN a[i] ELSE b[i - Len(a)]
  OBVIOUS
<1> HIDE DEF s
<1>3. \A i \in DOMAIN a : i \in DOMAIN s /\ s[i] = a[i]
  BY <1>2
<1>4. \A i \in DOMAIN b : \E j \in DOMAIN s : s[j] = b[i]
  <2> SUFFICES ASSUME NEW i \in DOMAIN b PROVE \E j \in DOMAIN s : s[j] = b[i]
    OBVIOUS
  <2>1. /\ i + Len(a) \in DOMAIN s /\ ~(i + Len(a) <= Len(a)) /\ (i + Len(a)) - Len(a) = i
    BY <1>2
  <2> QED
    BY <1>2, <2>1
<1>5. \A j \in DOMAIN s : \/ j \in DOMAIN a /\ s[j] = a[j]
                          \/ j - Len(a) \in DOMAIN b /\ s[j] = b[j - Len(a)]
  BY <1>2
<1>6. ToSet(s) = ToSet(a) \cup ToSet(b)
  BY <1>3, <1>4, <1>5 DEF ToSet
<1>7. Does(s) = Does(a) \cup Does(b)
  BY <1>3, <1>4, <1>5 DEF Does
<1>8. Later(s) \subseteq Later(a) \cup Does(b)
  BY <1>5 DEF Later, Does
<1> QED
  BY <1>1, <1>6, <1>7, <1>8 DEF s

(* What is done behind a call "w" of a list. *)
After(s, w)  == {j \in DOMAIN s : \E k \in 1 .. j - 1 : s[k].do = w}
Behind(s, w) == {s[i].do : i \in After(s, w)}

(* What is done behind the calls w is done. *)
LEMMA BehindDoes == \A s, w : Behind(s, w) \subseteq Does(s)
BY DEF Behind, After, Does

(* Less is behind the calls w once the first call was made, and all of the  *)
(* rest is when that was a w.                                               *)
LEMMA BehindTail ==
  ASSUME NEW T, NEW s \in Seq(T), s # <<>>, NEW w
  PROVE  /\ Behind(Tail(s), w) \subseteq Behind(s, w)
         /\ Head(s).do = w => Does(Tail(s)) \subseteq Behind(s, w)
<1> DEFINE t == Tail(s)
<1>1. /\ Len(s) \in Nat \ {0} /\ Len(t) = Len(s) - 1
      /\ DOMAIN s = 1 .. Len(s) /\ DOMAIN t = 1 .. Len(t) /\ Head(s) = s[1]
  OBVIOUS
<1>2. \A i \in DOMAIN t : t[i] = s[i + 1]
  OBVIOUS
<1> HIDE DEF t
<1>3. \A i \in DOMAIN t : i + 1 \in DOMAIN s /\ i \in Nat
  BY <1>1
<1>4. Behind(t, w) \subseteq Behind(s, w)
  <2> SUFFICES ASSUME NEW i \in DOMAIN t, NEW k \in 1 .. i - 1, t[k].do = w
               PROVE  t[i].do \in Behind(s, w)
    BY DEF Behind, After
  <2>1. k \in DOMAIN t /\ k + 1 \in 1 .. (i + 1) - 1
    BY <1>1
  <2>2. s[k + 1].do = w /\ s[i + 1].do = t[i].do /\ i + 1 \in DOMAIN s
    BY <1>2, <1>3, <2>1
  <2> QED
    BY <2>1, <2>2 DEF Behind, After
<1>5. ASSUME Head(s).do = w PROVE Does(t) \subseteq Behind(s, w)
  <2> SUFFICES ASSUME NEW i \in DOMAIN t PROVE t[i].do \in Behind(s, w)
    BY DEF Does
  <2>1. 1 \in 1 .. (i + 1) - 1 /\ s[1].do = w /\ i + 1 \in DOMAIN s /\ s[i + 1] = t[i]
    BY <1>1, <1>2, <1>3, <1>5
  <2> QED
    BY <2>1 DEF Behind, After
<1> QED
  BY <1>4, <1>5 DEF t

(* Nothing is behind a call that is not made. *)
LEMMA BehindNothing ==
  ASSUME NEW T, NEW s \in Seq(T), NEW w, w \notin Does(s)
  PROVE  Behind(s, w) = {}
<1>1. \A j \in DOMAIN s : \A k \in 1 .. j - 1 : k \in DOMAIN s
  OBVIOUS
<1> QED
  BY <1>1 DEF Behind, After, Does

(* A list without w adds nothing behind w; a list of one call has only what *)
(* follows it behind that call.                                             *)
LEMMA BehindCat ==
  ASSUME NEW T, NEW a \in Seq(T), NEW b \in Seq(T), NEW w
  PROVE  /\ w \notin Does(a) => Behind(a \o b, w) \subseteq Behind(b, w)
         /\ \A x \in T : Behind(<<x>> \o b, w) \subseteq Does(b)
<1>1. ASSUME NEW c \in Seq(T), NEW e \in Seq(T)
      PROVE  /\ w \notin Does(c) => Behind(c \o e, w) \subseteq Behind(e, w)
             /\ Len(c) = 1 => Behind(c \o e, w) \subseteq Does(e)
  <2> DEFINE s == c \o e
  <2>1. /\ Len(c) \in Nat /\ Len(e) \in Nat
        /\ DOMAIN c = 1 .. Len(c) /\ DOMAIN e = 1 .. Len(e) /\ DOMAIN s = 1 .. Len(c) + Len(e)
        /\ \A i \in DOMAIN s : s[i] = IF i <= Len(c) THEN c[i] ELSE e[i - Len(c)]
    OBVIOUS
  <2> HIDE DEF s
  <2>2. ASSUME NEW i \in DOMAIN s, NEW k \in 1 .. i - 1, s[k].do = w, w \notin Does(c)
        PROVE  s[i].do \in Behind(e, w)
    <3>1. k \in DOMAIN s /\ k \notin DOMAIN c
      <4>1. k \in DOMAIN s
        BY <2>1
      <4>2. k \in DOMAIN c => s[k] = c[k]
        BY <2>1
      <4> QED
        BY <2>2, <4>1, <4>2 DEF Does
    <3>2. /\ k - Len(c) \in 1 .. (i - Len(c)) - 1 /\ i - Len(c) \in DOMAIN e
          /\ ~(k <= Len(c)) /\ ~(i <= Len(c))
      BY <2>1, <3>1
    <3>3. s[k] = e[k - Len(c)] /\ s[i] = e[i - Len(c)]
      BY <2>1, <3>1, <3>2
    <3> QED
      BY <2>2, <3>2, <3>3 DEF Behind, After
  <2>3. ASSUME NEW i \in DOMAIN s, NEW k \in 1 .. i - 1, Len(c) = 1
        PROVE  s[i].do \in Does(e)
    <3>1. i - 1 \in DOMAIN e /\ ~(i <= 1)
      BY <2>1, <2>3
    <3>2. s[i] = e[i - 1]
      BY <2>1, <2>3, <3>1
    <3> QED
      BY <3>1, <3>2 DEF Does
  <2>4. w \notin Does(c) => Behind(s, w) \subseteq Behind(e, w)
    <3> SUFFICES ASSUME w \notin Does(c), NEW i \in DOMAIN s, NEW k \in 1 .. i - 1, s[k].do = w
                 PROVE  s[i].do \in Behind(e, w)
      BY DEF Behind, After
    <3> QED
      BY <2>2
  <2>5. Len(c) = 1 => Behind(s, w) \subseteq Does(e)
    <3> SUFFICES ASSUME Len(c) = 1, NEW i \in DOMAIN s, NEW k \in 1 .. i - 1, s[k].do = w
                 PROVE  s[i].do \in Does(e)
      BY DEF Behind, After
    <3> QED
      BY <2>3
  <2> QED
    BY <2>4, <2>5 DEF s
<1>2. \A x \in T : <<x>> \in Seq(T) /\ Len(<<x>>) = 1
  OBVIOUS
<1> QED
  BY <1>1, <1>2

(* One call for each member of a finite set, and one list behind another.   *)
LEMMA EachOf ==
  ASSUME NEW S, IsFiniteSet(S), NEW what, NEW T, \A x \in S : Call(what, x) \in T,
         NEW e \in Each(what, S)
  PROVE  /\ e \in Seq(T) /\ ToSet(e) = {Call(what, x) : x \in S}
         /\ Does(e) \subseteq {what}
<1>1. PICK q \in Orders(S) : e = [i \in DOMAIN q |-> Call(what, q[i])]
  BY DEF Each
<1> DEFINE n == Cardinality(S)
<1>2. n \in Nat
  BY FS_CardinalityType
<1>3. q \in [1 .. n -> S] /\ \A i, j \in 1 .. n : i # j => q[i] # q[j]
  BY DEF Orders
<1>4. e \in [1 .. n -> T]
  BY <1>1, <1>3
<1>5. \A x \in S : \E i \in 1 .. n : q[i] = x
  <2>1. IsFiniteSet(1 .. n) /\ Cardinality(1 .. n) = n
    BY <1>2, FS_Interval
  <2>2. q \in Injection(1 .. n, S)
    BY <1>3 DEF Injection, IsInjective
  <2> HIDE DEF n
  <2>3. q \in Surjection(1 .. n, S)
    BY <2>1, <2>2, FS_Injection DEF n
  <2> QED
    BY <2>3 DEF Surjection
<1>6. ToSet(e) = {Call(what, x) : x \in S}
  BY <1>1, <1>3, <1>5 DEF ToSet
<1>7. Does(e) \subseteq {what}
  BY <1>1, <1>3 DEF Does, Call
<1> QED
  BY <1>2, <1>4, <1>6, <1>7

(* A list of calls made in turn has two parts. *)
LEMMA InTurnOf ==
  ASSUME NEW A, NEW B, NEW e \in InTurn(A, B)
  PROVE  \E a \in A, b \in B : e = a \o b
BY DEF InTurn

-----------------------------------------------------------------------------
(* What Terraform's core does to the types. "C" are the configurations, "D" *)
(* the resource data, "O" the objects and "T" the calls of a resource.      *)
Core(C) ==
  /\ cfg \in C
  /\ pc \in {"idle", "plan", "call", "return", "panic"}
  /\ op \in {"none", "create", "update", "delete"}
  /\ result \in {"none", "ok", "failed"}
  /\ edits \in 0 .. MaxEdits /\ mishaps \in 0 .. MaxMishaps

Typed(C, D, O, T) == Core(C) /\ cf \in O /\ tf \in D /\ d \in D /\ todo \in Seq(T)

EditOf(C) ==
  /\ pc = "idle" /\ edits < MaxEdits /\ edits' = edits + 1
  /\ cfg' \in C \ {cfg}
  /\ UNCHANGED <<cf, tf, d, pc, op, todo, result, mishaps>>

AnyMishap == NoMishap \/ \E where : Mishap(where)
CanTaint(D) == \A x \in D, t \in BOOLEAN : [x EXCEPT !.tainted = t] \in D

(* Typed holds at the start. *)
LEMMA InitTyped ==
  ASSUME NEW C, NEW D, NEW O, NEW T, cf \in O, cfg \in C, NEW absent \in D,
         cfg \in C /\ tf = absent /\ d = absent /\ pc = "idle" /\ op = "none" /\ todo = <<>>
           /\ result = "none" /\ edits = 0 /\ mishaps = 0
  PROVE  Typed(C, D, O, T)
BY TerraformAssumption DEF Typed, Core, TerraformAssumption

(* A mishap is counted within its bound. *)
LEMMA Counted ==
  ASSUME mishaps \in 0 .. MaxMishaps, AnyMishap
  PROVE  mishaps' \in 0 .. MaxMishaps
BY TerraformAssumption DEF TerraformAssumption, AnyMishap, NoMishap, Mishap

(* A refresh keeps Typed and goes on to the plan. *)
LEMMA RefreshTyped ==
  ASSUME NEW C, NEW D, NEW O, NEW T, Typed(C, D, O, T), NEW new \in D, AnyMishap, Refreshed(new)
  PROVE  Typed(C, D, O, T)' /\ pc' = "plan"
<1>1. mishaps' \in 0 .. MaxMishaps
  BY Counted DEF Typed, Core
<1> QED
  BY <1>1 DEF Typed, Core, Refreshed

(* Steps that neither make a call nor begin an operation.                   *)
LEMMA QuietTyped ==
  ASSUME NEW C, NEW D, NEW O, NEW T, Typed(C, D, O, T), CanTaint(D), NEW absent \in D,
         \/ \E s \in BOOLEAN : Settled(s)
         \/ Finish \/ EndOperation(absent) \/ Crash(absent) \/ Panics \/ Again \/ EditOf(C)
         \/ \E new \in O : Others(new)
  PROVE  /\ Typed(C, D, O, T)' /\ pc' # "call"
         /\ pc' = "return" => Finish
         /\ ~(pc = "idle" /\ pc' = "plan")
<1>1. CASE \/ \E s \in BOOLEAN : Settled(s)
           \/ Finish \/ Panics \/ Again
  BY <1>1 DEF Settled, Finish, Panics, Again, Typed, Core
<1>2. CASE EditOf(C)
  BY <1>2, TerraformAssumption DEF TerraformAssumption, EditOf, Typed, Core
<1>3. CASE \E new \in O : Others(new)
  BY <1>3, TerraformAssumption DEF TerraformAssumption, Others, Typed, Core
<1>4. CASE EndOperation(absent)
  <2>1. [d EXCEPT !.tainted = op = "create" /\ result = "failed"] \in D
    BY DEF Typed, CanTaint
  <2>2. tf' \in D
    BY <1>4, <2>1 DEF EndOperation, Typed, Core
  <2> QED
    BY <1>4, <2>2 DEF EndOperation, Typed, Core
<1>5. CASE Crash(absent)
  <2>1. mishaps' \in 0 .. MaxMishaps
    BY <1>5, Counted DEF Crash, AnyMishap, Typed, Core
  <2> QED
    BY <1>5, <2>1 DEF Crash, Typed, Core
<1> QED
  BY <1>1, <1>2, <1>3, <1>4, <1>5

(* An operation that begins keeps Typed: its calls are still to make. *)
LEMMA BeginTyped ==
  ASSUME NEW C, NEW D, NEW O, NEW T, Typed(C, D, O, T),
         NEW what \in {"create", "update", "delete"}, NEW data \in D, NEW calls \in Seq(T),
         \/ AnyMishap /\ Begin(what, data, calls)
         \/ what = "delete" /\ data = tf /\ Removed(calls)
  PROVE  /\ Typed(C, D, O, T)' /\ UNCHANGED <<cfg, cf, tf, result>>
         /\ pc = "plan" /\ pc' = "call" /\ op' = what /\ d' = data /\ todo' = calls
<1>1. CASE AnyMishap /\ Begin(what, data, calls)
  <2>1. mishaps' \in 0 .. MaxMishaps
    BY <1>1, Counted DEF Typed, Core
  <2> QED
    BY <1>1, <2>1 DEF Begin, Typed, Core
<1>2. CASE data = tf /\ what = "delete" /\ Removed(calls)
  BY <1>2, TerraformAssumption DEF TerraformAssumption, Removed, Typed, Core
<1> QED
  BY <1>1, <1>2

(* An operation that fails before its first call keeps Typed, and says that *)
(* it failed.                                                               *)
LEMMA GivesUpTyped ==
  ASSUME NEW C, NEW D, NEW O, NEW T, Typed(C, D, O, T),
         NEW what \in {"create", "update"}, NEW data \in D, AnyMishap, GivesUp(what, data)
  PROVE  /\ Typed(C, D, O, T)' /\ UNCHANGED <<cfg, cf, tf>>
         /\ pc = "plan" /\ pc' = "return" /\ result' = "failed"
<1>1. mishaps' \in 0 .. MaxMishaps
  BY Counted DEF Typed, Core
<1> QED
  BY <1>1 DEF GivesUp, Typed, Core

(* A call is answered, or it ends the operation, or its error is dropped.   *)
LEMMA CallTyped ==
  ASSUME NEW C, NEW D, NEW O, NEW T, Typed(C, D, O, T), NEW new \in O, NEW learned \in D,
         NEW possible \in BOOLEAN, NEW dropped \in BOOLEAN,
         Calling(new, learned, possible, dropped)
  PROVE  /\ Typed(C, D, O, T)' /\ pc = "call" /\ UNCHANGED <<cfg, tf, op, edits>>
         /\ todo # <<>> /\ Head(todo) \in T
         /\ cf' = cf \/ (possible /\ cf' = new)
         /\ \/ /\ pc' = "call" /\ todo' = Tail(todo) /\ possible /\ cf' = new /\ d' = learned
               /\ mishaps' = mishaps
            \/ /\ pc' = "call" /\ todo' = Tail(todo) /\ dropped /\ d' = d
               /\ possible => mishaps' = mishaps + 1
               /\ ~possible => mishaps' = mishaps /\ cf' = cf
            \/ /\ pc' = "return" /\ result' = "failed" /\ todo' = <<>> /\ d' = d
               /\ possible => mishaps' = mishaps + 1
<1>1. todo \in Seq(T) /\ todo # <<>>
  BY DEF Calling, Typed
<1>2. Head(todo) \in T /\ Tail(todo) \in Seq(T) /\ <<>> \in Seq(T)
  BY <1>1
<1>3. PICK a \in Answers :
        /\ Answer(a, Head(todo).do, possible)
        /\ cf' = (IF a \in Done THEN new ELSE cf)
        /\ d'  = (IF a = "ok" THEN learned ELSE d)
        /\ IF a = "ok" \/ dropped
           THEN todo' = Tail(todo) /\ UNCHANGED <<pc, result>>
           ELSE todo' = <<>> /\ pc' = "return" /\ result' = "failed"
  BY DEF Calling
<1>4. pc = "call" /\ UNCHANGED <<cfg, tf, op, edits>>
  BY DEF Calling
<1>5. /\ mishaps' \in 0 .. MaxMishaps
      /\ a = "ok" => possible /\ mishaps' = mishaps
      /\ a # "ok" => /\ possible => mishaps' = mishaps + 1
                     /\ ~possible => mishaps' = mishaps /\ a = "rejected"
      /\ a \in Done => possible
  BY <1>3, TerraformAssumption DEF TerraformAssumption, Typed, Core, Answer, Done, Mishap, NoMishap
<1>6. Core(C)'
  BY <1>3, <1>4, <1>5 DEF Typed, Core
<1>7. Typed(C, D, O, T)'
  BY <1>2, <1>3, <1>4, <1>6 DEF Typed
<1>8. CASE a = "ok"
  BY <1>1, <1>2, <1>3, <1>4, <1>5, <1>7, <1>8 DEF Done
<1>9. CASE a # "ok" /\ dropped
  BY <1>1, <1>2, <1>3, <1>4, <1>5, <1>7, <1>9 DEF Done
<1>10. CASE a # "ok" /\ ~dropped
  BY <1>1, <1>2, <1>3, <1>4, <1>5, <1>7, <1>10 DEF Done
<1> QED
  BY <1>8, <1>9, <1>10

(* A stuttering step keeps Typed. *)
LEMMA StutterTyped ==
  ASSUME NEW C, NEW D, NEW O, NEW T, Typed(C, D, O, T), UNCHANGED vars
  PROVE  Typed(C, D, O, T)'
BY DEF vars, Typed, Core

(* What a call that is not possible would do does not matter. *)
LEMMA CallingOnly ==
  ASSUME NEW new, NEW other, NEW learned, NEW possible, NEW dropped,
         possible => other = new, Calling(new, learned, possible, dropped)
  PROVE  Calling(other, learned, possible, dropped)
<1>1. PICK a \in Answers :
        /\ Answer(a, Head(todo).do, possible)
        /\ cf' = (IF a \in Done THEN new ELSE cf)
        /\ d'  = (IF a = "ok" THEN learned ELSE d)
        /\ IF a = "ok" \/ dropped
           THEN todo' = Tail(todo) /\ UNCHANGED <<pc, result>>
           ELSE todo' = <<>> /\ pc' = "return" /\ result' = "failed"
  BY DEF Calling
<1>2. a \in Done => possible
  BY <1>1 DEF Answer, Done
<1>3. cf' = (IF a \in Done THEN other ELSE cf)
  BY <1>1, <1>2
<1>4. pc = "call" /\ todo # <<>> /\ UNCHANGED <<cfg, tf, op, edits>>
  BY DEF Calling
<1> QED
  BY <1>1, <1>3, <1>4 DEF Calling

(* The first of the calls to make, and those behind it.                     *)
First == Head(todo)
Rest  == Tail(todo)

(* The call that is made next, and the rest. *)
LEMMA FirstAndRest ==
  ASSUME NEW T, todo \in Seq(T), todo # <<>>
  PROVE  /\ First \in T /\ Rest \in Seq(T) /\ ToSet(todo) = {First} \cup ToSet(Rest)
         /\ Does(todo) = {First.do} \cup Does(Rest) /\ Does(Rest) = Later(todo)
         /\ Later(Rest) \subseteq Later(todo)
BY HeadAndTail DEF First, Rest

(* A call is answered, or it fails and ends the operation.                  *)
Answered(new, learned) ==
  /\ pc' = "call" /\ todo' = Rest /\ cf' = new /\ d' = learned /\ UNCHANGED <<op, tf, mishaps>>

(* A call of which no failure is ignored: it is answered, or the operation  *)
(* fails.                                                                   *)
LEMMA StrictCallTyped ==
  ASSUME NEW C, NEW D, NEW O, NEW T, Typed(C, D, O, T), NEW new \in O, NEW learned \in D,
         NEW possible \in BOOLEAN, Calling(new, learned, possible, FALSE)
  PROVE  /\ Typed(C, D, O, T)' /\ pc = "call"
         /\ (possible /\ Answered(new, learned)) \/ (pc' = "return" /\ result' = "failed")
         /\ cf' = cf \/ (possible /\ cf' = new)
<1> DEFINE no == FALSE
<1>1. no \in BOOLEAN /\ ~no /\ Calling(new, learned, possible, no)
  OBVIOUS
<1> HIDE DEF no
<1> QED
  BY <1>1, CallTyped DEF Rest, Answered

(* The error of a call may be dropped as well. *)
Ignored(new, possible) ==
  /\ pc' = "call" /\ todo' = Rest /\ UNCHANGED <<d, op, tf>>
  /\ cf' = cf \/ (possible /\ cf' = new)
  /\ possible => mishaps' = mishaps + 1

(* A call whose failure may be ignored: it is answered, ignored, or the     *)
(* operation fails.                                                         *)
LEMMA DroppedCallTyped ==
  ASSUME NEW C, NEW D, NEW O, NEW T, Typed(C, D, O, T), NEW new \in O, NEW learned \in D,
         NEW possible \in BOOLEAN, NEW dropped \in BOOLEAN,
         Calling(new, learned, possible, dropped)
  PROVE  /\ Typed(C, D, O, T)' /\ pc = "call"
         /\ \/ possible /\ Answered(new, learned)
            \/ dropped /\ Ignored(new, possible)
            \/ pc' = "return" /\ result' = "failed"
         /\ cf' = cf \/ (possible /\ cf' = new)
BY CallTyped DEF Rest, Answered, Ignored

(* Only a refresh leads from no run of Terraform to a plan. *)
LEMMA OnlyRefreshes ==
  ASSUME pc = "idle", pc' = "plan"
  PROVE  /\ \A what, x, calls : ~Begin(what, x, calls)
         /\ \A what, x : ~GivesUp(what, x)
         /\ \A calls : ~Removed(calls)
         /\ \A new, x, possible, dropped : ~Calling(new, x, possible, dropped)
         /\ \A s : ~Settled(s)
         /\ \A x : ~EndOperation(x) /\ ~Crash(x)
         /\ \A new : ~Others(new)
         /\ \A C : ~EditOf(C)
         /\ ~Finish /\ ~Panics /\ ~Again
BY DEF Begin, GivesUp, Removed, Calling, Settled, EndOperation, Crash, Others, EditOf,
       Finish, Panics, Again

(* During an operation the object is changed by its calls only. *)
LEMMA OnlyCalls ==
  ASSUME pc = "call"
  PROVE  /\ \A what, x, calls : ~Begin(what, x, calls)
         /\ \A what, x : ~GivesUp(what, x)
         /\ \A calls : ~Removed(calls)
         /\ \A s : ~Settled(s)
         /\ \A x : ~EndOperation(x) /\ ~Refreshed(x) /\ ~Others(x)
         /\ \A x : Crash(x) => UNCHANGED cf
         /\ \A C : ~EditOf(C)
         /\ Finish => UNCHANGED cf
BY DEF Begin, GivesUp, Removed, Settled, EndOperation, Refreshed, Others, EditOf, Crash, Finish

=============================================================================
