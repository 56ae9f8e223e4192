--------------------------- MODULE BrokersProofs ----------------------------
(***************************************************************************)
(* Proofs about Brokers, for any services, plans, organizations and         *)
(* configurations: an update never takes away an access that stays asked    *)
(* for, and a password that it changes has reached the broker.              *)
(***************************************************************************)
EXTENDS Brokers, FiniteSetTheorems, TLAPS

(* Behind Sha every operation with a broker has the password it sends. *)
KnowsPassword ==
  /\ tf.there => tf.prev \in Passwords
  /\ pc = "post" => ~d.there
  /\ pc \in {"get", "put", "open", "expose", "change", "return"} /\ d.there
       => d.prev \in Passwords
  /\ pc \in {"get", "put"} => op = "update"
  /\ pc \in {"get", "sha", "put", "expose", "change"} /\ op = "update" =>
       d.there /\ tf.there
  /\ pc \in {"get", "sha"} /\ op = "update" => d.prev = tf.prev
  /\ pc \in {"post", "findAgain", "open"} => op = "create"
  /\ pc = "expose" => op = "update"

(* What changes of a password has been sent when the entries are looked at. *)
PasswordSent ==
  op = "update" /\ (pc \in {"expose", "change"} \/ (pc = "return" /\ result = "ok" /\ d.there))
    /\ d.pass # tf.prev => broker.pass = d.pass

Dest == UNION {Full(e) : e \in d.access}

Updating == op = "update" /\ pc \in {"sha", "put", "expose", "change"}

(* What has become public during an update was to become public.            *)
PublicIsAsked ==
  Updating => \A p \in pub \ seen : \E e \in d.access : Alone(e) /\ e.svc = ServiceOf[p]

(* First the flags are set, of each entry as it says; then grants and       *)
(* revocations are made, and no revocation is of what is asked for.         *)
CallsAreAsked ==
  op = "update" =>
    \A i \in DOMAIN todo : \A c \in todo[i] :
      /\ pc = "expose" =>
           \E e \in d.access : /\ e.svc = ServiceOf[c.plan]
                               /\ c.do = IF Alone(e) THEN "public" ELSE "private"
      /\ pc = "change" => \/ c.do = "grant"
                          \/ c.do = "revoke" /\ <<c.plan, c.org>> \notin Dest

(* A service that is asked for alone is public by the time that something   *)
(* is revoked.                                                              *)
ToBePublic(p) == /\ Clear(ServiceOf[p])
                 /\ \E e \in d.access : Alone(e) /\ e.svc = ServiceOf[p]

PublicFirst ==
  op = "update" /\ pc \in {"expose", "change"} /\ broker.there =>
    \A p \in Plans : ToBePublic(p) =>
      \/ p \in pub
      \/ pc = "expose" /\ \E i \in DOMAIN todo : \E c \in todo[i] : c.do = "public" /\ c.plan = p

IInv == /\ TypeOK /\ todo \in Seq(SUBSET Call) /\ KnowsPassword /\ PasswordSent
        /\ PublicIsAsked /\ CallsAreAsked /\ PublicFirst

-----------------------------------------------------------------------------
(* What the operators on entries return. *)
LEMMA FullType ==
  ASSUME NEW e \in Entry
  PROVE  Full(e) \subseteq Plans \X Orgs
  BY DEF Full, Entry, PlansOf

(* What is retrieved of a service are entries.                              *)
LEMMA RetrievedType ==
  ASSUME vis \subseteq Plans \X Orgs, NEW s \in Offerings, NEW public
  PROVE  Retrieved(s, public) \subseteq Entry
<1> DEFINE everywhere == {p \in PlansOf(s) : {p} \X Orgs \subseteq vis}
           single == {x \in vis : x[1] \in PlansOf(s) \ everywhere}
           whole  == {o \in Orgs : PlansOf(s) \X {o} \subseteq single}
<1>1. everywhere \subseteq Plans /\ whole \subseteq Orgs
  BY DEF PlansOf
<1>2. \A x \in single : x[1] \in Plans /\ x[2] \in Orgs
  OBVIOUS
<1> HIDE DEF everywhere, single, whole
<1>3. {[svc |-> s, plan |-> p, org |-> None] : p \in everywhere} \subseteq Entry
  BY <1>1 DEF Entry
<1>4. {[svc |-> s, plan |-> None, org |-> o] : o \in whole} \subseteq Entry
  BY <1>1 DEF Entry
<1>5. {[svc |-> s, plan |-> x[1], org |-> x[2]] : x \in {y \in single : y[2] \notin whole}}
        \subseteq Entry
  BY <1>2 DEF Entry
<1>6. [svc |-> s, plan |-> None, org |-> None] \in Entry
  BY DEF Entry
<1> QED
  BY <1>3, <1>4, <1>5, <1>6 DEF Retrieved, everywhere, single, whole

(* Types of the calls that are made of pairs,                               *)
LEMMA CallsType ==
  ASSUME NEW what \in {"grant", "revoke"}, NEW pairs \in SUBSET (Plans \X Orgs)
  PROVE  Calls(what, pairs) \in SUBSET Call
  BY DEF Calls, Call

(* and of those an entry leads to: of its own service, public or private.   *)
LEMMA FlagFacts ==
  ASSUME NEW e \in Entry
  PROVE  /\ FlagCalls(e) \in SUBSET Call
         /\ \A c \in FlagCalls(e) : /\ e.svc = ServiceOf[c.plan]
                                    /\ c.do = IF Alone(e) THEN "public" ELSE "private"
         /\ \A p \in PlansOf(e.svc) : Alone(e) =>
              \E c \in FlagCalls(e) : c.do = "public" /\ c.plan = p
<1> DEFINE what == IF Alone(e) THEN "public" ELSE "private"
           pairs == PlansOf(e.svc) \X {None}
<1>1. FlagCalls(e) = {[do |-> what, plan |-> x[1], org |-> x[2]] : x \in pairs}
  BY DEF FlagCalls, Flags, Calls
<1>2. \A x \in pairs : x[1] \in Plans /\ ServiceOf[x[1]] = e.svc /\ x[2] = None
  BY DEF PlansOf
<1>3. \A p \in PlansOf(e.svc) : [do |-> what, plan |-> p, org |-> None] \in FlagCalls(e)
  <2> SUFFICES ASSUME NEW p \in PlansOf(e.svc)
               PROVE  [do |-> what, plan |-> p, org |-> None] \in FlagCalls(e)
    OBVIOUS
  <2>1. <<p, None>> \in pairs /\ <<p, None>>[1] = p /\ <<p, None>>[2] = None
    OBVIOUS
  <2> HIDE DEF pairs, what
  <2> QED
    BY <1>1, <2>1
<1>4. FlagCalls(e) \in SUBSET Call
  BY <1>1, <1>2 DEF Call
<1>5. \A c \in FlagCalls(e) : e.svc = ServiceOf[c.plan] /\ c.do = what
  <2> HIDE DEF pairs, what
  <2> QED
    BY <1>1, <1>2
<1> QED
  BY <1>3, <1>4, <1>5

(* Every entry comes somewhere in the order that the code goes through.     *)
LEMMA OrderFacts ==
  ASSUME NEW S \in SUBSET Entry, NEW q \in SetToSeqs(S)
  PROVE  /\ Cardinality(S) \in Nat /\ q \in [1 .. Cardinality(S) -> S]
         /\ \A e \in S : \E i \in 1 .. Cardinality(S) : q[i] = e
<1> DEFINE n == Cardinality(S)
<1>1. IsFiniteSet(S) /\ n \in Nat
  BY BrokersAssumption, FS_Subset, FS_CardinalityType DEF BrokersAssumption
<1>2. q \in [1 .. n -> S] /\ q \in Injection(1 .. n, S)
  BY DEF SetToSeqs, Injection, IsInjective
<1>3. Cardinality(1 .. n) = n
  BY <1>1, FS_Interval
<1>4. q \in Surjection(1 .. n, S)
  BY <1>1, <1>2, <1>3, FS_Injection
<1> QED
  BY <1>1, <1>2, <1>4 DEF Surjection

(* Of a list of sets of calls, one call is made. *)
LEMMA OneCallLess ==
  ASSUME NEW list \in Seq(SUBSET Call), list # <<>>, NEW h \in SUBSET Call
  PROVE  LET new == <<h>> \o Tail(list)
         IN /\ new \in Seq(SUBSET Call) /\ DOMAIN new = DOMAIN list
            /\ new[1] = h /\ \A i \in DOMAIN list \ {1} : new[i] = list[i]
            /\ Tail(list) \in Seq(SUBSET Call) /\ Head(list) = list[1] /\ 1 \in DOMAIN list
            /\ \A i \in DOMAIN Tail(list) : i + 1 \in DOMAIN list /\ Tail(list)[i] = list[i + 1]
            /\ \A i \in DOMAIN list \ {1} : i - 1 \in DOMAIN Tail(list) /\ Tail(list)[i - 1] = list[i]
  OBVIOUS

(* The flags that an Update sets: of every entry, all plans.                *)
LEMMA ExposeFacts ==
  ASSUME d \in Data, Expose
  PROVE  \/ pc' = "return" /\ result' = "ok" /\ todo' = todo
         \/ /\ pc' = "expose" /\ result' = result /\ todo' \in Seq(SUBSET Call)
            /\ \A i \in DOMAIN todo' : \A c \in todo'[i] :
                 \E e \in d.access : /\ e.svc = ServiceOf[c.plan]
                                     /\ c.do = IF Alone(e) THEN "public" ELSE "private"
            /\ \A e \in d.access : Alone(e) =>
                 \A p \in PlansOf(e.svc) :
                   \E i \in DOMAIN todo' : \E c \in todo'[i] : c.do = "public" /\ c.plan = p
<1>1. d.access \in SUBSET Entry
  BY DEF Data
<1>2. CASE d.scoped
  BY <1>2 DEF Expose, Return
<1>3. CASE ~d.scoped
  <2>1. PICK q \in SetToSeqs(d.access) : todo' = [i \in DOMAIN q |-> FlagCalls(q[i])]
    BY <1>3 DEF Expose, Orders
  <2>2. pc' = "expose" /\ result' = result
    BY <1>3 DEF Expose, Go
  <2> DEFINE n == Cardinality(d.access)
  <2>3. /\ n \in Nat /\ q \in [1 .. n -> d.access]
        /\ \A e \in d.access : \E i \in 1 .. n : q[i] = e
    BY <1>1, OrderFacts
  <2>4. DOMAIN todo' = 1 .. n /\ \A i \in 1 .. n : todo'[i] = FlagCalls(q[i])
    BY <2>1, <2>3
  <2>5. \A i \in 1 .. n : todo'[i] \in SUBSET Call
    BY <1>1, <2>3, <2>4, FlagFacts
  <2>6. todo' \in Seq(SUBSET Call)
    BY <2>1, <2>3, <2>4, <2>5
  <2>7. \A i \in DOMAIN todo' : \A c \in todo'[i] :
          \E e \in d.access : /\ e.svc = ServiceOf[c.plan]
                              /\ c.do = IF Alone(e) THEN "public" ELSE "private"
    BY <1>1, <2>3, <2>4, FlagFacts
  <2>8. ASSUME NEW e \in d.access, Alone(e), NEW p \in PlansOf(e.svc)
        PROVE  \E i \in DOMAIN todo' : \E c \in todo'[i] : c.do = "public" /\ c.plan = p
    <3>1. PICK i \in 1 .. n : q[i] = e
      BY <2>3
    <3>2. \E c \in FlagCalls(e) : c.do = "public" /\ c.plan = p
      BY <1>1, <2>8, FlagFacts
    <3> QED
      BY <2>4, <3>1, <3>2
  <2> QED
    BY <2>2, <2>6, <2>7, <2>8
<1> QED
  BY <1>2, <1>3

-----------------------------------------------------------------------------
(* Types of what the actions write. *)
LEMMA MishapType ==
  ASSUME mishaps \in 0 .. MaxMishaps
  PROVE  /\ UNCHANGED mishaps => mishaps' \in 0 .. MaxMishaps
         /\ \A where : Mishap(where) => mishaps' \in 0 .. MaxMishaps
         /\ \A a, where, possible : Answer(a, where, possible) => mishaps' \in 0 .. MaxMishaps
         /\ \A url, sha : CatalogSha1(url, sha) => mishaps' \in 0 .. MaxMishaps
  BY BrokersAssumption DEF BrokersAssumption, Mishap, Answer, CatalogSha1

(* Edits stay in their bound.                                               *)
LEMMA EditType ==
  ASSUME edits \in 0 .. MaxEdits, edits < MaxEdits, edits' = edits + 1
  PROVE  edits' \in 0 .. MaxEdits
  BY BrokersAssumption DEF BrokersAssumption

(* Types of what is planned,                                                *)
LEMMA PlannedType ==
  ASSUME cfg \in Configs, NEW t \in BOOLEAN, NEW p \in Passwords \cup {None},
         NEW s \in Catalogs \cup {NoCatalog}
  PROVE  /\ Planned(t, p, s) \in Data
         /\ Planned(t, p, s).there = t /\ Planned(t, p, s).prev = p
  BY BrokersAssumption DEF BrokersAssumption, Planned, Data, Config

(* of what is not there,                                                    *)
LEMMA AbsentType ==
  ASSUME cfg \in Configs
  PROVE  Absent \in Data /\ ~Absent.there
  BY PlannedType DEF Absent

(* and of what is read.                                                     *)
LEMMA ReadType ==
  ASSUME NEW x \in Data, x.there, x.prev \in Passwords, broker \in Broker,
         NEW access \in SUBSET Entry, NEW sha \in Catalogs \cup {NoCatalog}
  PROVE  /\ Read(x, access, sha) \in Data
         /\ Read(x, access, sha).there /\ Read(x, access, sha).prev = x.prev
  BY DEF Read, Data, Broker

(* Between operations, and in a Create, nothing is said of an update.       *)
LEMMA NoUpdate ==
  ASSUME \/ op' = "create"
         \/ pc' \in {"idle", "plan", "get"}
         \/ pc' = "return" /\ (result' = "failed" \/ ~d'.there)
  PROVE  PasswordSent' /\ PublicIsAsked' /\ CallsAreAsked' /\ PublicFirst'
  BY DEF PasswordSent, PublicIsAsked, Updating, CallsAreAsked, PublicFirst

(* The invariant holds at the start.                                        *)
LEMMA InitInv == Init => IInv
<1> SUFFICES ASSUME Init PROVE IInv
  OBVIOUS
<1>1. tf \in Data /\ d \in Data /\ ~tf.there
  BY AbsentType DEF Init
<1>2. broker \in Broker
  BY DEF Init, Broker
<1>3. TypeOK /\ todo \in Seq(SUBSET Call)
  BY <1>1, <1>2, BrokersAssumption DEF BrokersAssumption, Init, TypeOK
<1>4. KnowsPassword
  BY <1>1 DEF Init, KnowsPassword
<1>5. PasswordSent /\ PublicIsAsked /\ CallsAreAsked /\ PublicFirst
  BY DEF Init, PasswordSent, PublicIsAsked, Updating, CallsAreAsked, PublicFirst
<1> QED
  BY <1>3, <1>4, <1>5 DEF IInv

-----------------------------------------------------------------------------
(* What the operator and others do. *)
LEMMA OthersKeep ==
  ASSUME IInv, EditConfig \/ EditCatalog \/ DeletedByOthers \/ Crash
  PROVE  IInv'
<1> USE DEF world, cf, left, Go
<1>1. CASE EditConfig
  <2>1. /\ pc' = "idle" /\ cfg' \in Configs
        /\ UNCHANGED <<served, broker, pub, vis, tf, pc, op, d, seen, todo, result, mishaps>>
    BY <1>1 DEF EditConfig
  <2>2. edits' \in 0 .. MaxEdits
    BY <1>1, EditType DEF EditConfig, IInv, TypeOK
  <2>3. TypeOK' /\ (todo \in Seq(SUBSET Call))' /\ KnowsPassword'
    BY <2>1, <2>2 DEF IInv, TypeOK, KnowsPassword
  <2> QED
    BY <2>1, <2>3, NoUpdate DEF IInv
<1>2. CASE EditCatalog
  <2>1. UNCHANGED <<cfg, broker, pub, vis, tf, pc, op, d, seen, todo, result, mishaps>>
    BY <1>2 DEF EditCatalog
  <2>2. edits' \in 0 .. MaxEdits /\ served' \in [Urls -> Catalogs]
    BY <1>2, EditType DEF EditCatalog, IInv, TypeOK
  <2>3. TypeOK' /\ (todo \in Seq(SUBSET Call))' /\ KnowsPassword'
    BY <2>1, <2>2 DEF IInv, TypeOK, KnowsPassword
  <2> QED
    BY <2>1, <2>3
    DEF IInv, PasswordSent, PublicIsAsked, Updating, CallsAreAsked, PublicFirst, Dest,
        ToBePublic, Clear
<1>3. CASE DeletedByOthers
  <2>1. /\ UNCHANGED <<served, cfg, tf, pc, op, d, seen, todo, result, mishaps>>
        /\ broker' = [broker EXCEPT !.there = FALSE] /\ pub' = {} /\ vis' = {}
    BY <1>3 DEF DeletedByOthers, Gone
  <2>2. broker' \in Broker /\ ~broker'.there /\ broker'.pass = broker.pass
    BY <2>1 DEF IInv, TypeOK, Broker
  <2>3. edits' \in 0 .. MaxEdits
    BY <1>3, EditType DEF DeletedByOthers, IInv, TypeOK
  <2>4. TypeOK' /\ (todo \in Seq(SUBSET Call))' /\ KnowsPassword'
    BY <2>1, <2>2, <2>3 DEF IInv, TypeOK, KnowsPassword
  <2>5. PasswordSent' /\ PublicIsAsked' /\ PublicFirst'
    BY <2>1, <2>2 DEF IInv, PasswordSent, PublicIsAsked, PublicFirst
  <2>6. CallsAreAsked'
    BY <2>1 DEF IInv, CallsAreAsked, Dest
  <2> QED
    BY <2>4, <2>5, <2>6 DEF IInv
<1>4. CASE Crash
  <2>1. /\ pc' = "idle" /\ todo' = <<>>
        /\ UNCHANGED <<served, cfg, broker, pub, vis, tf, op, d, seen, result, edits>>
    BY <1>4 DEF Crash
  <2>2. mishaps' \in 0 .. MaxMishaps
    BY <1>4, MishapType DEF Crash, IInv, TypeOK
  <2>3. TypeOK' /\ (todo \in Seq(SUBSET Call))' /\ KnowsPassword'
    BY <2>1, <2>2 DEF IInv, TypeOK, KnowsPassword
  <2> QED
    BY <2>1, <2>3, NoUpdate DEF IInv
<1> QED
  BY <1>1, <1>2, <1>3, <1>4

(* A refresh keeps the invariant,                                           *)
LEMMA RefreshKeeps ==
  ASSUME IInv, Refresh
  PROVE  IInv'
<1> USE DEF world, cf, left, Go
<1>1. /\ pc = "idle" /\ pc' = "plan"
      /\ UNCHANGED <<served, cfg, broker, pub, vis, op, d, seen, todo, result, edits>>
  BY DEF Refresh
<1>2. mishaps' \in 0 .. MaxMishaps
  BY MishapType DEF Refresh, IInv, TypeOK
<1>3. tf' \in Data /\ (tf'.there => tf'.prev \in Passwords)
  <2>1. CASE tf.there /\ broker.there
    <3>1. \A S \in SUBSET Offerings : Retrieve(S) \in SUBSET Entry
      BY RetrievedType DEF Retrieve, IInv, TypeOK
    <3>2. /\ tf \in Data /\ tf.prev \in Passwords /\ broker \in Broker
          /\ served[broker.url] \in Catalogs
      BY <2>1 DEF IInv, TypeOK, KnowsPassword, Broker
    <3>3. PICK S \in SUBSET Offerings, sha \in Catalogs \cup {NoCatalog} :
            tf' = Read(tf, Retrieve(S), sha)
      BY <2>1, <3>2 DEF Refresh
    <3> QED
      BY <2>1, <3>1, <3>2, <3>3, ReadType
  <2>2. CASE ~(tf.there /\ broker.there)
    BY <2>2, AbsentType DEF Refresh, IInv, TypeOK
  <2> QED
    BY <2>1, <2>2
<1>4. TypeOK' /\ (todo \in Seq(SUBSET Call))' /\ KnowsPassword'
  BY <1>1, <1>2, <1>3 DEF IInv, TypeOK, KnowsPassword
<1> QED
  BY <1>1, <1>4, NoUpdate DEF IInv

(* so does a deletion,                                                      *)
LEMMA DeleteKeeps ==
  ASSUME IInv, Destroy \/ Replace
  PROVE  IInv'
<1> USE DEF world, cf, left, Go
<1>1. PICK next \in {"idle", "plan"} : Delete(next)
  BY DEF Destroy, Replace
<1>2. edits' \in 0 .. MaxEdits
  BY EditType DEF Destroy, Replace, IInv, TypeOK
<1>3. PICK a \in Answers :
        /\ Answer(a, "delete", broker.there)
        /\ IF a \in {"ok", "lost"} THEN Gone ELSE UNCHANGED cf
        /\ tf' = IF a = "ok" THEN Absent ELSE tf
        /\ Go(IF a = "ok" THEN next ELSE "idle")
  BY <1>1 DEF Delete
<1>4. UNCHANGED <<served, cfg, op, d, seen, todo, result>> /\ pc' \in {"idle", "plan"}
  BY <1>1, <1>3 DEF Delete
<1>5. mishaps' \in 0 .. MaxMishaps
  BY <1>3, MishapType DEF IInv, TypeOK
<1>6. broker' \in Broker /\ pub' \subseteq Plans /\ vis' \subseteq Plans \X Orgs
  BY <1>3 DEF Gone, IInv, TypeOK, Broker
<1>7. tf' \in Data /\ (tf'.there => tf'.prev \in Passwords)
  BY <1>3, AbsentType DEF IInv, TypeOK, KnowsPassword
<1>8. TypeOK' /\ (todo \in Seq(SUBSET Call))' /\ KnowsPassword'
  BY <1>2, <1>4, <1>5, <1>6, <1>7 DEF IInv, TypeOK, KnowsPassword
<1> QED
  BY <1>4, <1>8, NoUpdate DEF IInv

(* A run that ends or begins an operation. *)
LEMMA RunKeeps ==
  ASSUME IInv, NothingToDo \/ Create \/ Update \/ EndOperation
  PROVE  IInv'
<1> USE DEF world, cf, left, Go
<1>1. TypeOK /\ KnowsPassword /\ todo \in Seq(SUBSET Call)
  BY DEF IInv
<1>2. CASE NothingToDo
  <2>1. /\ pc' = "idle"
        /\ UNCHANGED <<served, cfg, broker, pub, vis, tf, op, d, seen, todo, result, edits,
                       mishaps>>
    BY <1>2 DEF NothingToDo
  <2>2. TypeOK' /\ (todo \in Seq(SUBSET Call))' /\ KnowsPassword'
    BY <1>1, <2>1 DEF TypeOK, KnowsPassword
  <2> QED
    BY <2>1, <2>2, NoUpdate DEF IInv
<1>3. CASE Create
  <2>1. /\ op' = "create" /\ pc' \in {"sha", "post"}
        /\ UNCHANGED <<served, cfg, broker, pub, vis, tf, seen, todo, result, edits>>
    BY <1>3 DEF Create
  <2>2. mishaps' \in 0 .. MaxMishaps
    BY <1>1, <1>3, MishapType DEF Create, TypeOK
  <2>3. d' \in Data /\ (pc' = "post" => ~d'.there)
    <3>1. Absent \in Data /\ ~Absent.there
      BY <1>1, AbsentType DEF TypeOK
    <3>2. [Absent EXCEPT !.there = TRUE] \in Data
      BY <3>1 DEF Data
    <3> QED
      BY <1>3, <3>1, <3>2 DEF Create
  <2>4. TypeOK' /\ (todo \in Seq(SUBSET Call))' /\ KnowsPassword'
    BY <1>1, <2>1, <2>2, <2>3 DEF TypeOK, KnowsPassword
  <2> QED
    BY <2>1, <2>4, NoUpdate DEF IInv
<1>4. CASE Update
  <2>1. /\ op' = "update" /\ pc' = "get" /\ tf.there
        /\ d' = Planned(TRUE, tf.prev, tf.sha)
        /\ UNCHANGED <<served, cfg, broker, pub, vis, tf, seen, todo, result, edits, mishaps>>
    BY <1>4 DEF Update
  <2>2. d' \in Data /\ d'.there /\ d'.prev = tf.prev
    <3>1. tf.prev \in Passwords \cup {None} /\ tf.sha \in Catalogs \cup {NoCatalog}
      BY <1>1 DEF TypeOK, Data
    <3> QED
      BY <1>1, <2>1, <3>1, PlannedType DEF TypeOK
  <2>3. TypeOK' /\ (todo \in Seq(SUBSET Call))' /\ KnowsPassword'
    BY <1>1, <2>1, <2>2 DEF TypeOK, KnowsPassword
  <2> QED
    BY <2>1, <2>3, NoUpdate DEF IInv
<1>5. CASE EndOperation
  <2>1. /\ pc = "return" /\ pc' = "idle"
        /\ UNCHANGED <<served, cfg, broker, pub, vis, op, d, seen, todo, result, edits, mishaps>>
    BY <1>5 DEF EndOperation
  <2>2. tf' \in Data /\ (tf'.there => tf'.prev \in Passwords)
    <3>1. CASE d.there
      <4> DEFINE kept == [d EXCEPT !.tainted = op = "create" /\ result = "failed"]
      <4>1. d \in Data /\ d.prev \in Passwords
        BY <1>1, <2>1, <3>1 DEF TypeOK, KnowsPassword
      <4>2. kept \in Data /\ kept.prev = d.prev
        BY <4>1 DEF Data
      <4> QED
        BY <1>5, <3>1, <4>1, <4>2 DEF EndOperation
    <3>2. CASE ~d.there
      BY <1>1, <1>5, <3>2, AbsentType DEF EndOperation, TypeOK
    <3> QED
      BY <3>1, <3>2
  <2>3. TypeOK' /\ (todo \in Seq(SUBSET Call))' /\ KnowsPassword'
    BY <1>1, <2>1, <2>2 DEF TypeOK, KnowsPassword
  <2> QED
    BY <2>1, <2>3, NoUpdate DEF IInv
<1> QED
  BY <1>2, <1>3, <1>4, <1>5

-----------------------------------------------------------------------------
(* The calls of a Create, and what an Update reads first. *)
LEMMA CreateKeeps ==
  ASSUME IInv, Post \/ FindAgain \/ Open
  PROVE  IInv'
<1> USE DEF world, cf, left, Go
<1>1. TypeOK /\ KnowsPassword /\ todo \in Seq(SUBSET Call)
  BY DEF IInv
<1>2. op' = "create" /\ op = "create"
  BY <1>1 DEF Post, FindAgain, Open, KnowsPassword
<1>3. mishaps' \in 0 .. MaxMishaps
  BY <1>1, MishapType DEF Post, FindAgain, Open, TypeOK
<1>4. CASE Post
  <2>1. /\ pc = "post" /\ pc' \in {"findAgain", "return"} /\ result' \in {result, "failed"}
        /\ UNCHANGED <<served, cfg, pub, vis, tf, d, seen, todo, edits>>
    BY <1>4 DEF Post, Return
  <2>2. broker' \in Broker
    <3>1. d.url \in Urls /\ d.pass \in Passwords /\ served[d.url] \in Catalogs
      BY <1>1 DEF TypeOK, Data
    <3>2. [there |-> TRUE, url |-> d.url, pass |-> d.pass, cat |-> served[d.url]] \in Broker
      BY <3>1 DEF Broker
    <3> QED
      BY <1>1, <1>4, <3>2 DEF Post, TypeOK
  <2>3. ~d.there
    BY <1>1, <2>1 DEF KnowsPassword
  <2>4. TypeOK' /\ (todo \in Seq(SUBSET Call))' /\ KnowsPassword'
    BY <1>1, <1>2, <1>3, <2>1, <2>2, <2>3 DEF TypeOK, KnowsPassword
  <2> QED
    BY <1>2, <2>4, NoUpdate DEF IInv
<1>5. CASE FindAgain
  <2>1. /\ pc' = "sha"
        /\ UNCHANGED <<served, cfg, broker, pub, vis, tf, seen, todo, result, edits>>
    BY <1>5 DEF FindAgain
  <2>2. d' \in Data
    <3>1. d \in Data /\ broker.there \in BOOLEAN
      BY <1>1 DEF TypeOK, Broker
    <3>2. [d EXCEPT !.there = broker.there] \in Data
      BY <3>1 DEF Data
    <3> QED
      BY <1>5, <3>1, <3>2 DEF FindAgain
  <2>3. TypeOK' /\ (todo \in Seq(SUBSET Call))' /\ KnowsPassword'
    BY <1>1, <1>2, <1>3, <2>1, <2>2 DEF TypeOK, KnowsPassword
  <2> QED
    BY <1>2, <2>3, NoUpdate DEF IInv
<1>6. CASE Open
  <2>1. /\ pc = "open" /\ pc' \in {"change", "return"} /\ result' \in {result, "failed"}
        /\ UNCHANGED <<served, cfg, broker, pub, vis, tf, d, seen, edits>>
    BY <1>6 DEF Open, Return
  <2>2. todo' \in Seq(SUBSET Call)
    <3>1. CASE todo' = todo
      BY <1>1, <3>1
    <3>2. CASE todo' # todo
      <4>1. PICK q \in SetToSeqs(d.access) : todo' = [i \in DOMAIN q |-> CreateCalls(q[i])]
        BY <1>6, <3>2 DEF Open, Orders
      <4>2. d.access \in SUBSET Entry
        BY <1>1 DEF TypeOK, Data
      <4>3. /\ Cardinality(d.access) \in Nat
            /\ q \in [1 .. Cardinality(d.access) -> d.access]
        BY <4>2, OrderFacts
      <4>4. ASSUME NEW e \in Entry PROVE CreateCalls(e) \in SUBSET Call
        <5>1. CASE Alone(e)
          BY <5>1, FlagFacts DEF CreateCalls, FlagCalls, Alone
        <5>2. Calls("grant", Full(e)) \in SUBSET Call
          BY FullType, CallsType
        <5>3. CASE e.plan # None /\ e.org # None
          <6>1. {<<e.plan, e.org>>} \in SUBSET (Plans \X Orgs)
            BY <5>3 DEF Entry
          <6> QED
            BY <5>3, <6>1, CallsType DEF CreateCalls
        <5>4. CASE ~(e.plan # None /\ e.org # None) /\ ~Alone(e)
          BY <5>2, <5>4 DEF CreateCalls
        <5> QED
          BY <5>1, <5>3, <5>4
      <4>5. \A i \in 1 .. Cardinality(d.access) : CreateCalls(q[i]) \in SUBSET Call
        BY <4>2, <4>3, <4>4
      <4> QED
        BY <4>1, <4>3, <4>5
    <3> QED
      BY <3>1, <3>2
  <2>3. TypeOK' /\ KnowsPassword'
    BY <1>1, <1>2, <1>3, <2>1, <2>2 DEF TypeOK, KnowsPassword
  <2> QED
    BY <1>2, <2>2, <2>3, NoUpdate DEF IInv
<1> QED
  BY <1>4, <1>5, <1>6

(* the lookup of the broker that an update begins with,                     *)
LEMMA GetKeeps ==
  ASSUME IInv, Get
  PROVE  IInv'
<1> USE DEF world, cf, left, Go
<1>1. TypeOK /\ KnowsPassword /\ todo \in Seq(SUBSET Call)
  BY DEF IInv
<1>2. /\ pc = "get" /\ op = "update" /\ op' = "update" /\ d.there /\ d.prev = tf.prev
      /\ UNCHANGED <<served, cfg, broker, pub, vis, tf, todo, edits>>
  BY <1>1 DEF Get, KnowsPassword
<1>3. mishaps' \in 0 .. MaxMishaps
  BY <1>1, MishapType DEF Get, TypeOK
<1>4. \/ pc' = "sha" /\ seen' = pub /\ d' = d /\ result' = result
      \/ /\ pc' = "return" /\ seen' = seen /\ result' \in {"ok", "failed"}
         /\ \/ d' = [d EXCEPT !.there = FALSE]
            \/ d' = d /\ result' = "failed"
  BY DEF Get, Return
<1>5. /\ d' \in Data /\ d'.prev = d.prev
      /\ pc' = "return" => result' = "failed" \/ ~d'.there
  <2>1. d \in Data
    BY <1>1 DEF TypeOK
  <2>2. [d EXCEPT !.there = FALSE] \in Data /\ [d EXCEPT !.there = FALSE].prev = d.prev
        /\ ~[d EXCEPT !.there = FALSE].there
    BY <2>1 DEF Data
  <2> QED
    BY <1>4, <2>1, <2>2
<1>6. TypeOK' /\ (todo \in Seq(SUBSET Call))' /\ KnowsPassword'
  BY <1>1, <1>2, <1>3, <1>4, <1>5 DEF TypeOK, KnowsPassword
<1>7. CASE pc' = "return"
  BY <1>5, <1>6, <1>7, NoUpdate DEF IInv
<1>8. CASE pc' = "sha"
  <2>1. pub' = pub /\ seen' = pub
    BY <1>2, <1>4, <1>8
  <2> QED
    BY <1>6, <1>8, <2>1
    DEF IInv, PasswordSent, PublicIsAsked, CallsAreAsked, PublicFirst
<1> QED
  BY <1>4, <1>7, <1>8

-----------------------------------------------------------------------------
(* The broker is written, and the flags of the entries are set next.        *)
LEMMA ExposeKeeps ==
  ASSUME IInv, TypeOK', KnowsPassword', pc \in {"sha", "put"}, op = "update",
         Expose, UNCHANGED <<op, pub, seen, tf>>,
         d'.access = d.access, d'.there = d.there, d'.pass = d.pass,
         d.pass # tf.prev => broker'.pass = d.pass
  PROVE  IInv'
<1>1. d \in Data
  BY DEF IInv, TypeOK
<1>2. CASE pc' = "return" /\ result' = "ok" /\ todo' = todo
  <2>1. PasswordSent'
    BY DEF PasswordSent
  <2>2. PublicIsAsked' /\ CallsAreAsked' /\ PublicFirst'
    BY <1>2 DEF PublicIsAsked, Updating, CallsAreAsked, PublicFirst
  <2> QED
    BY <1>2, <2>1, <2>2 DEF IInv
<1>3. CASE /\ pc' = "expose" /\ result' = result /\ todo' \in Seq(SUBSET Call)
           /\ \A i \in DOMAIN todo' : \A c \in todo'[i] :
                \E e \in d.access : /\ e.svc = ServiceOf[c.plan]
                                    /\ c.do = IF Alone(e) THEN "public" ELSE "private"
           /\ \A e \in d.access : Alone(e) =>
                \A p \in PlansOf(e.svc) :
                  \E i \in DOMAIN todo' : \E c \in todo'[i] : c.do = "public" /\ c.plan = p
  <2>1. PasswordSent'
    BY DEF PasswordSent
  <2>2. PublicIsAsked'
    <3>1. \A p \in pub \ seen : \E e \in d.access : Alone(e) /\ e.svc = ServiceOf[p]
      BY DEF IInv, PublicIsAsked, Updating
    <3> QED
      BY <3>1 DEF PublicIsAsked
  <2>3. CallsAreAsked'
    BY <1>3 DEF CallsAreAsked
  <2>4. PublicFirst'
    <3> SUFFICES ASSUME NEW p \in Plans, ToBePublic(p)'
                 PROVE  \E i \in DOMAIN todo' : \E c \in todo'[i] : c.do = "public" /\ c.plan = p
      BY <1>3 DEF PublicFirst
    <3>1. PICK e \in d.access : Alone(e) /\ e.svc = ServiceOf[p]
      BY DEF ToBePublic
    <3>2. p \in PlansOf(e.svc)
      BY <3>1 DEF PlansOf
    <3> QED
      BY <1>3, <3>1, <3>2
  <2> QED
    BY <1>3, <2>1, <2>2, <2>3, <2>4 DEF IInv
<1> QED
  BY <1>1, <1>2, <1>3, ExposeFacts

(* the checksum that is asked for,                                          *)
LEMMA ShaKeeps ==
  ASSUME IInv, Sha
  PROVE  IInv'
<1> USE DEF world, cf, left
<1>1. TypeOK /\ KnowsPassword /\ todo \in Seq(SUBSET Call)
  BY DEF IInv
<1>2. PICK sha \in Catalogs \cup {NoCatalog} :
        /\ CatalogSha1(IF op = "create" THEN d.url ELSE broker.url, sha)
        /\ d' = [d EXCEPT !.sha = sha, !.prev = d.pass]
        /\ IF op = "create"
           THEN /\ UNCHANGED todo
                /\ IF d.scoped THEN Return("ok") ELSE Go("open")
           ELSE IF Differs(sha) THEN Go("put") /\ UNCHANGED todo ELSE Expose
  BY DEF Sha
<1>3. pc = "sha" /\ UNCHANGED <<served, cfg, broker, pub, vis, tf, op, seen, edits>>
  BY DEF Sha
<1>4. mishaps' \in 0 .. MaxMishaps
  BY <1>1, <1>2, MishapType DEF TypeOK
<1>5. /\ d' \in Data /\ d'.prev = d.pass /\ d'.prev \in Passwords /\ d'.there = d.there
      /\ d'.access = d.access /\ d'.pass = d.pass
  BY <1>1, <1>2 DEF TypeOK, Data
<1>6. CASE op = "create"
  <2>1. todo' = todo /\ pc' \in {"return", "open"} /\ result' \in {result, "ok"}
    BY <1>2, <1>6 DEF Return, Go
  <2>2. TypeOK' /\ (todo \in Seq(SUBSET Call))' /\ KnowsPassword'
    BY <1>1, <1>3, <1>4, <1>5, <1>6, <2>1 DEF TypeOK, KnowsPassword
  <2> QED
    BY <1>3, <1>6, <2>2, NoUpdate DEF IInv
<1>7. CASE op = "update" /\ Differs(sha)
  <2>1. pc' = "put" /\ result' = result /\ todo' = todo /\ d.there /\ tf.there
    BY <1>1, <1>2, <1>3, <1>7 DEF Go, KnowsPassword
  <2>2. TypeOK' /\ (todo \in Seq(SUBSET Call))' /\ KnowsPassword'
    BY <1>1, <1>3, <1>4, <1>5, <1>7, <2>1 DEF TypeOK, KnowsPassword
  <2>3. PublicIsAsked'
    BY <1>3, <1>5, <1>7 DEF IInv, PublicIsAsked, Updating
  <2> QED
    BY <2>1, <2>2, <2>3 DEF IInv, PasswordSent, CallsAreAsked, PublicFirst
<1>8. CASE op = "update" /\ ~Differs(sha)
  <2>1. Expose /\ d.there /\ tf.there /\ d.prev = tf.prev
    BY <1>1, <1>2, <1>3, <1>8 DEF KnowsPassword
  <2>2. d.pass = tf.prev
    BY <1>8, <2>1 DEF Differs
  <2>3. /\ pc' \in {"return", "expose"} /\ result' \in {result, "ok"}
        /\ todo' \in Seq(SUBSET Call)
    BY <1>1, <2>1, ExposeFacts DEF TypeOK
  <2>4. TypeOK' /\ KnowsPassword'
    BY <1>1, <1>3, <1>4, <1>5, <1>8, <2>1, <2>3 DEF TypeOK, KnowsPassword
  <2> QED
    BY <1>3, <1>5, <1>8, <2>1, <2>2, <2>4, ExposeKeeps
<1> QED
  BY <1>1, <1>6, <1>7, <1>8 DEF TypeOK

(* the request that sends the password,                                     *)
LEMMA PutKeeps ==
  ASSUME IInv, Put
  PROVE  IInv'
<1> USE DEF world, cf, left
<1>1. TypeOK /\ KnowsPassword /\ todo \in Seq(SUBSET Call)
  BY DEF IInv
<1>2. PICK a \in Answers :
        /\ Answer(a, "put", broker.there)
        /\ broker' = IF a \in {"ok", "lost"}
                     THEN [broker EXCEPT !.pass = d.pass, !.cat = served[broker.url]]
                     ELSE broker
        /\ IF a = "ok" THEN Expose ELSE Return("failed") /\ UNCHANGED todo
  BY DEF Put
<1>3. /\ pc = "put" /\ op = "update" /\ d.there /\ tf.there
      /\ UNCHANGED <<served, cfg, pub, vis, tf, op, d, seen, edits>>
  BY <1>1 DEF Put, KnowsPassword
<1>4. mishaps' \in 0 .. MaxMishaps
  BY <1>1, <1>2, MishapType DEF TypeOK
<1>5. broker' \in Broker /\ (a = "ok" => broker'.pass = d.pass)
  <2>1. broker \in Broker /\ d.pass \in Passwords /\ served[broker.url] \in Catalogs
    BY <1>1 DEF TypeOK, Broker, Data
  <2> DEFINE new == [broker EXCEPT !.pass = d.pass, !.cat = served[broker.url]]
  <2>2. new \in Broker /\ new.pass = d.pass
    BY <2>1 DEF Broker
  <2> QED
    BY <1>2, <2>1, <2>2
<1>6. CASE a = "ok"
  <2>1. Expose
    BY <1>2, <1>6
  <2>2. /\ pc' \in {"return", "expose"} /\ result' \in {result, "ok"}
        /\ todo' \in Seq(SUBSET Call)
    BY <1>1, <2>1, ExposeFacts DEF TypeOK
  <2>3. TypeOK' /\ KnowsPassword'
    BY <1>1, <1>3, <1>4, <1>5, <2>2 DEF TypeOK, KnowsPassword
  <2> QED
    BY <1>3, <1>5, <1>6, <2>1, <2>3, ExposeKeeps
<1>7. CASE a # "ok"
  <2>1. pc' = "return" /\ result' = "failed" /\ todo' = todo
    BY <1>2, <1>7 DEF Return
  <2>2. TypeOK' /\ (todo \in Seq(SUBSET Call))' /\ KnowsPassword'
    BY <1>1, <1>3, <1>4, <1>5, <2>1 DEF TypeOK, KnowsPassword
  <2> QED
    BY <2>1, <2>2, NoUpdate DEF IInv
<1> QED
  BY <1>6, <1>7

(* What the calls of a Diff ask for: nothing of what is asked for is        *)
(* revoked.                                                                 *)
LEMMA DiffFacts ==
  ASSUME d \in Data, vis \subseteq Plans \X Orgs,
         NEW source, source = UNION {Full(e) : e \in UNION {Retrieved(s, seen) : s \in Offerings}}
  PROVE  /\ <<Calls("grant", Dest \ source), Calls("revoke", source \ Dest)>> \in Seq(SUBSET Call)
         /\ <<Calls("grant", Dest)>> \in Seq(SUBSET Call)
         /\ \A c \in Calls("grant", Dest \ source) \cup Calls("grant", Dest) : c.do = "grant"
         /\ \A c \in Calls("revoke", source \ Dest) :
              c.do = "revoke" /\ <<c.plan, c.org>> \notin Dest
<1>1. Dest \subseteq Plans \X Orgs
  BY FullType DEF Dest, Data
<1>2. source \subseteq Plans \X Orgs
  BY RetrievedType, FullType
<1>3. /\ Calls("grant", Dest \ source) \in SUBSET Call /\ Calls("grant", Dest) \in SUBSET Call
      /\ Calls("revoke", source \ Dest) \in SUBSET Call
  BY <1>1, <1>2, CallsType
<1>4. ASSUME NEW c \in Calls("revoke", source \ Dest)
      PROVE  c.do = "revoke" /\ <<c.plan, c.org>> \notin Dest
  <2>1. PICK x \in source \ Dest : c = [do |-> "revoke", plan |-> x[1], org |-> x[2]]
    BY DEF Calls
  <2>2. x = <<x[1], x[2]>>
    BY <1>2, <2>1
  <2> QED
    BY <2>1, <2>2
<1>5. \A c \in Calls("grant", Dest \ source) \cup Calls("grant", Dest) : c.do = "grant"
  BY DEF Calls
<1>6. \A S, T \in SUBSET Call : <<S, T>> \in Seq(SUBSET Call) /\ <<S>> \in Seq(SUBSET Call)
  OBVIOUS
<1>7. /\ <<Calls("grant", Dest \ source), Calls("revoke", source \ Dest)>> \in Seq(SUBSET Call)
      /\ <<Calls("grant", Dest)>> \in Seq(SUBSET Call)
  BY <1>3, <1>6
<1> QED
  BY <1>4, <1>5, <1>7

(* the difference of what was read and what is asked for,                   *)
LEMMA DiffKeeps ==
  ASSUME IInv, Diff
  PROVE  IInv'
<1> USE DEF world, cf
<1>1. TypeOK /\ KnowsPassword /\ todo \in Seq(SUBSET Call) /\ d \in Data
      /\ vis \subseteq Plans \X Orgs
  BY DEF IInv, TypeOK
<1>2. /\ pc = "expose" /\ todo = <<>> /\ op = "update"
      /\ UNCHANGED <<served, cfg, broker, pub, vis, tf, op, d, seen, edits>>
  BY <1>1 DEF Diff, KnowsPassword
<1>3. mishaps' \in 0 .. MaxMishaps
  BY <1>1, MishapType DEF Diff, TypeOK
<1> DEFINE source == UNION {Full(e) : e \in UNION {Retrieved(s, seen) : s \in Offerings}}
<1>4. \/ /\ pc' = "change" /\ result' = result
         /\ \/ todo' = <<Calls("grant", Dest \ source), Calls("revoke", source \ Dest)>>
            \/ todo' = <<Calls("grant", Dest)>>
      \/ pc' = "return" /\ result' = "failed" /\ todo' = todo
  BY DEF Diff, Go, Return, Dest
<1> HIDE DEF source
<1>5. /\ <<Calls("grant", Dest \ source), Calls("revoke", source \ Dest)>> \in Seq(SUBSET Call)
      /\ <<Calls("grant", Dest)>> \in Seq(SUBSET Call)
      /\ \A c \in Calls("grant", Dest \ source) \cup Calls("grant", Dest) : c.do = "grant"
      /\ \A c \in Calls("revoke", source \ Dest) :
           c.do = "revoke" /\ <<c.plan, c.org>> \notin Dest
  BY <1>1, DiffFacts DEF source
<1>6. todo' \in Seq(SUBSET Call)
  BY <1>1, <1>4, <1>5
<1>7. TypeOK' /\ KnowsPassword'
  BY <1>1, <1>2, <1>3, <1>4, <1>6 DEF TypeOK, KnowsPassword
<1>8. CASE pc' = "return" /\ result' = "failed"
  BY <1>6, <1>7, <1>8, NoUpdate DEF IInv
<1>9. CASE /\ pc' = "change" /\ result' = result
           /\ \/ todo' = <<Calls("grant", Dest \ source), Calls("revoke", source \ Dest)>>
              \/ todo' = <<Calls("grant", Dest)>>
  <2>1. PasswordSent' /\ PublicIsAsked'
    BY <1>2, <1>9 DEF IInv, PasswordSent, PublicIsAsked, Updating
  <2>2. CallsAreAsked'
    <3>1. ASSUME NEW i \in DOMAIN todo', NEW c \in todo'[i]
          PROVE  \/ c.do = "grant"
                 \/ c.do = "revoke" /\ <<c.plan, c.org>> \notin Dest
      <4>1. \A S, T : \A j \in DOMAIN <<S, T>> : <<S, T>>[j] \in {S, T}
        OBVIOUS
      <4>2. \A S : \A j \in DOMAIN <<S>> : <<S>>[j] = S
        OBVIOUS
      <4>3. \/ c \in Calls("grant", Dest \ source) \cup Calls("grant", Dest)
            \/ c \in Calls("revoke", source \ Dest)
        BY <1>9, <4>1, <4>2
      <4> QED
        BY <1>5, <4>3
    <3>2. Dest' = Dest
      BY <1>2 DEF Dest
    <3> QED
      BY <1>9, <3>1, <3>2 DEF CallsAreAsked
  <2>3. PublicFirst'
    BY <1>2, <1>9 DEF IInv, PublicFirst, ToBePublic, Clear
  <2> QED
    BY <1>6, <1>7, <2>1, <2>2, <2>3 DEF IInv
<1> QED
  BY <1>4, <1>8, <1>9

(* and the return.                                                          *)
LEMMA FinishKeeps ==
  ASSUME IInv, Finish
  PROVE  IInv'
<1> USE DEF world, cf, left
<1>1. /\ pc = "change" /\ todo = <<>> /\ pc' = "return" /\ result' = "ok"
      /\ UNCHANGED <<served, cfg, broker, pub, vis, tf, op, d, seen, todo, edits, mishaps>>
  BY DEF Finish, Return
<1>2. TypeOK' /\ (todo \in Seq(SUBSET Call))' /\ KnowsPassword'
  BY <1>1 DEF IInv, TypeOK, KnowsPassword
<1>3. PasswordSent'
  BY <1>1 DEF IInv, PasswordSent
<1> QED
  BY <1>1, <1>2, <1>3 DEF IInv, PublicIsAsked, Updating, CallsAreAsked, PublicFirst

-----------------------------------------------------------------------------
(* What one call does to what is visible.                                   *)
Made(c, a) ==
  LET done == a \in {"ok", "lost"}
  IN /\ pub' = CASE done /\ c.do = "public"  -> pub \cup {c.plan}
                 [] done /\ c.do = "private" -> pub \ {c.plan}
                 [] OTHER                    -> pub
     /\ vis' = CASE done /\ c.do = "grant"   -> vis \cup {<<c.plan, c.org>>}
                 [] done /\ c.do = "revoke"  -> vis \ {<<c.plan, c.org>>}
                 [] OTHER                    -> vis
     /\ IF a = "ok"
        THEN /\ todo' = <<Head(todo) \ {c}>> \o Tail(todo)
             /\ pc' = pc /\ result' = result
        ELSE todo' = <<>> /\ pc' = "return" /\ result' = "failed"

(* What a call of the access does, or a round of calls that is over.        *)
LEMMA PerformFacts ==
  ASSUME TypeOK, todo \in Seq(SUBSET Call), Perform
  PROVE  /\ pc \in {"expose", "change"} /\ todo # <<>>
         /\ UNCHANGED <<served, cfg, broker, tf, op, d, seen, edits>>
         /\ mishaps' \in 0 .. MaxMishaps
         /\ \/ /\ Head(todo) = {} /\ todo' = Tail(todo)
               /\ UNCHANGED <<pub, vis, pc, result>>
            \/ \E c \in Head(todo), a \in Answers : c \in Call /\ Made(c, a)
<1>1. /\ pc \in {"expose", "change"} /\ todo # <<>>
      /\ UNCHANGED <<served, cfg, broker, tf, op, d, seen, edits>>
  BY DEF Perform, world
<1>2. CASE Head(todo) = {}
  BY <1>1, <1>2 DEF Perform, TypeOK
<1>3. CASE Head(todo) # {}
  <2>1. PICK c \in Head(todo), a \in Answers :
          Made(c, a) /\ Answer(a, c.do, broker.there \/ c.do = "revoke")
    BY <1>3 DEF Perform, Made, Return
  <2>2. mishaps' \in 0 .. MaxMishaps
    BY <2>1, MishapType DEF TypeOK
  <2>3. c \in Call
    BY <1>1
  <2> QED
    BY <1>1, <2>1, <2>2, <2>3
<1> QED
  BY <1>2, <1>3

(* A call that is made keeps the types.                                     *)
LEMMA MadeType ==
  ASSUME TypeOK, todo \in Seq(SUBSET Call), todo # <<>>, pc \in {"expose", "change"},
         NEW c \in Head(todo), c \in Call, NEW a \in Answers, Made(c, a)
  PROVE  /\ pub' \subseteq Plans /\ vis' \subseteq Plans \X Orgs
         /\ todo' \in Seq(SUBSET Call)
         /\ \/ pc' = pc /\ result' = result
            \/ pc' = "return" /\ result' = "failed"
<1>1. /\ c.plan \in Plans /\ c.do \in {"public", "private", "grant", "revoke"}
      /\ c.do \in {"grant", "revoke"} => c.org \in Orgs
  BY DEF Call
<1>2. pub' \subseteq Plans
  BY <1>1 DEF Made, TypeOK
<1>3. vis' \subseteq Plans \X Orgs
  <2>1. CASE a \in {"ok", "lost"} /\ c.do = "grant"
    BY <1>1, <2>1 DEF Made, TypeOK
  <2>2. CASE a \in {"ok", "lost"} /\ c.do = "revoke"
    BY <2>2 DEF Made, TypeOK
  <2>3. CASE ~(a \in {"ok", "lost"} /\ c.do \in {"grant", "revoke"})
    BY <2>3 DEF Made, TypeOK
  <2> QED
    BY <2>1, <2>2, <2>3
<1>4. Head(todo) \ {c} \in SUBSET Call
  BY OneCallLess
<1>5. todo' \in Seq(SUBSET Call)
  <2>1. <<Head(todo) \ {c}>> \o Tail(todo) \in Seq(SUBSET Call)
    <3> DEFINE h == Head(todo) \ {c}
    <3> HIDE DEF h
    <3>1. <<h>> \o Tail(todo) \in Seq(SUBSET Call)
      BY <1>4, OneCallLess DEF h
    <3> QED
      BY <3>1 DEF h
  <2>2. <<>> \in Seq(SUBSET Call)
    OBVIOUS
  <2>3. todo' \in {<<Head(todo) \ {c}>> \o Tail(todo), <<>>}
    BY DEF Made
  <2> QED
    BY <2>1, <2>2, <2>3
<1> QED
  BY <1>2, <1>3, <1>5 DEF Made

(* The calls of the access keep the invariant.                              *)
LEMMA PerformKeeps ==
  ASSUME IInv, Perform
  PROVE  IInv'
<1>1. TypeOK /\ KnowsPassword /\ todo \in Seq(SUBSET Call)
  BY DEF IInv
<1>2. /\ pc \in {"expose", "change"} /\ todo # <<>>
      /\ UNCHANGED <<served, cfg, broker, tf, op, d, seen, edits>>
      /\ mishaps' \in 0 .. MaxMishaps
  BY <1>1, PerformFacts
<1>3. Dest' = Dest /\ (\A p : ToBePublic(p)' <=> ToBePublic(p))
  BY <1>2 DEF Dest, ToBePublic, Clear
<1>4. CASE Head(todo) = {} /\ todo' = Tail(todo) /\ UNCHANGED <<pub, vis, pc, result>>
  <2>1. /\ todo' \in Seq(SUBSET Call) /\ todo[1] = {} /\ 1 \in DOMAIN todo
        /\ \A i \in DOMAIN todo' : i + 1 \in DOMAIN todo /\ todo'[i] = todo[i + 1]
        /\ \A i \in DOMAIN todo \ {1} : i - 1 \in DOMAIN todo' /\ todo'[i - 1] = todo[i]
    <3>1. {} \in SUBSET Call
      OBVIOUS
    <3> QED
      BY <1>1, <1>2, <1>4, <3>1, OneCallLess
  <2>2. TypeOK' /\ KnowsPassword'
    BY <1>1, <1>2, <1>4, <2>1 DEF TypeOK, KnowsPassword
  <2>3. PasswordSent' /\ PublicIsAsked'
    BY <1>2, <1>4 DEF IInv, PasswordSent, PublicIsAsked, Updating
  <2>4. CallsAreAsked'
    <3> SUFFICES ASSUME op = "update", NEW i \in DOMAIN todo', NEW c \in todo'[i]
                 PROVE  /\ pc = "expose" =>
                             \E e \in d.access :
                               /\ e.svc = ServiceOf[c.plan]
                               /\ c.do = IF Alone(e) THEN "public" ELSE "private"
                        /\ pc = "change" => \/ c.do = "grant"
                                            \/ c.do = "revoke" /\ <<c.plan, c.org>> \notin Dest
      BY <1>2, <1>3, <1>4 DEF CallsAreAsked
    <3>1. i + 1 \in DOMAIN todo /\ c \in todo[i + 1]
      BY <2>1
    <3> QED
      BY <3>1 DEF IInv, CallsAreAsked
  <2>5. PublicFirst'
    <3> SUFFICES ASSUME op = "update", broker.there, NEW p \in Plans, ToBePublic(p)
                 PROVE  \/ p \in pub
                        \/ /\ pc = "expose"
                           /\ \E i \in DOMAIN todo' : \E c \in todo'[i] :
                                c.do = "public" /\ c.plan = p
      BY <1>2, <1>3, <1>4 DEF PublicFirst
    <3>1. CASE p \in pub
      BY <3>1
    <3>2. CASE p \notin pub
      <4>1. PICK i \in DOMAIN todo : \E c \in todo[i] : c.do = "public" /\ c.plan = p
        BY <1>2, <3>2 DEF IInv, PublicFirst
      <4>2. i \in DOMAIN todo \ {1}
        BY <2>1, <4>1
      <4> QED
        BY <1>2, <2>1, <3>2, <4>1, <4>2 DEF IInv, PublicFirst
    <3> QED
      BY <3>1, <3>2
  <2> QED
    BY <2>1, <2>2, <2>3, <2>4, <2>5 DEF IInv
<1>5. ASSUME NEW c \in Head(todo), c \in Call, NEW a \in Answers, Made(c, a)
      PROVE  IInv'
  <2>1. /\ pub' \subseteq Plans /\ vis' \subseteq Plans \X Orgs
        /\ todo' \in Seq(SUBSET Call)
        /\ \/ pc' = pc /\ result' = result
           \/ pc' = "return" /\ result' = "failed"
    BY <1>1, <1>2, <1>5, MadeType
  <2>2. TypeOK' /\ KnowsPassword'
    BY <1>1, <1>2, <2>1 DEF TypeOK, KnowsPassword
  <2>3. CASE pc' = "return" /\ result' = "failed"
    BY <2>1, <2>2, <2>3, NoUpdate DEF IInv
  <2>4. CASE op = "create"
    BY <1>2, <2>1, <2>2, <2>4, NoUpdate DEF IInv
  <2>5. CASE op = "update" /\ a = "ok"
    <3>1. /\ pc' = pc /\ result' = result /\ DOMAIN todo' = DOMAIN todo
          /\ todo'[1] = todo[1] \ {c} /\ c \in todo[1] /\ 1 \in DOMAIN todo
          /\ \A i \in DOMAIN todo \ {1} : todo'[i] = todo[i]
      <4>1. Head(todo) \ {c} \in SUBSET Call
        BY <1>1, <1>2, OneCallLess
      <4> QED
        BY <1>1, <1>2, <1>5, <2>5, <4>1, OneCallLess DEF Made
    <3>2. /\ pc = "expose" =>
               \E e \in d.access : /\ e.svc = ServiceOf[c.plan]
                                   /\ c.do = IF Alone(e) THEN "public" ELSE "private"
          /\ pc = "change" => c.do \in {"grant", "revoke"}
      BY <2>5, <3>1 DEF IInv, CallsAreAsked
    <3>3. PasswordSent'
      BY <1>2, <3>1 DEF IInv, PasswordSent
    <3>4. PublicIsAsked'
      <4> SUFFICES ASSUME NEW p \in pub' \ seen
                   PROVE  \E e \in d.access : Alone(e) /\ e.svc = ServiceOf[p]
        BY <1>2 DEF PublicIsAsked
      <4>1. CASE p \in pub
        BY <1>2, <2>5, <4>1 DEF IInv, PublicIsAsked, Updating
      <4>2. CASE p \notin pub
        <5>1. c.do = "public" /\ p = c.plan
          BY <1>5, <4>2 DEF Made
        <5> QED
          BY <1>2, <3>2, <5>1
      <4> QED
        BY <4>1, <4>2
    <3>5. CallsAreAsked'
      <4>1. \A i \in DOMAIN todo' : todo'[i] \subseteq todo[i]
        BY <3>1
      <4> QED
        BY <1>2, <1>3, <3>1, <4>1 DEF IInv, CallsAreAsked
    <3>6. PublicFirst'
      <4> SUFFICES ASSUME broker.there, NEW p \in Plans, ToBePublic(p)
                   PROVE  \/ p \in pub'
                          \/ /\ pc = "expose"
                             /\ \E i \in DOMAIN todo' : \E b \in todo'[i] :
                                  b.do = "public" /\ b.plan = p
        BY <1>2, <1>3, <3>1 DEF PublicFirst
      <4>1. ~(c.do = "private" /\ c.plan = p)
        <5> SUFFICES ASSUME c.do = "private", c.plan = p PROVE FALSE
          OBVIOUS
        <5>1. PICK e \in d.access : e.svc = ServiceOf[p] /\ ~Alone(e)
          BY <1>2, <3>2
        <5>2. PICK f \in d.access : Alone(f) /\ f.svc = ServiceOf[p]
          BY DEF ToBePublic
        <5> QED
          BY <5>1, <5>2 DEF ToBePublic, Clear
      <4>2. CASE p \in pub
        BY <1>5, <4>1, <4>2 DEF Made
      <4>3. CASE p \notin pub
        <5>1. pc = "expose"
          BY <1>2, <2>5, <4>3 DEF IInv, PublicFirst
        <5>2. PICK i \in DOMAIN todo : \E b \in todo[i] : b.do = "public" /\ b.plan = p
          BY <1>2, <2>5, <4>3 DEF IInv, PublicFirst
        <5>3. PICK b \in todo[i] : b.do = "public" /\ b.plan = p
          BY <5>2
        <5>4. CASE b = c
          BY <1>5, <2>5, <5>3, <5>4 DEF Made
        <5>5. CASE b # c
          BY <3>1, <5>1, <5>3, <5>5
        <5> QED
          BY <5>4, <5>5
      <4> QED
        BY <4>2, <4>3
    <3> QED
      BY <2>1, <2>2, <3>3, <3>4, <3>5, <3>6 DEF IInv
  <2>6. CASE a # "ok"
    BY <1>5, <2>3, <2>6 DEF Made
  <2> QED
    BY <1>1, <2>4, <2>5, <2>6 DEF TypeOK
<1> QED
  BY <1>1, <1>4, <1>5, PerformFacts

-----------------------------------------------------------------------------
(* Every step keeps the invariant.                                          *)
LEMMA Inductive == IInv /\ [Next]_vars => IInv'
<1> SUFFICES ASSUME IInv, [Next]_vars PROVE IInv'
  OBVIOUS
<1>1. CASE UNCHANGED vars
  BY <1>1
  DEF vars, IInv, TypeOK, KnowsPassword, PasswordSent, PublicIsAsked, Updating,
      CallsAreAsked, PublicFirst, Dest, ToBePublic, Clear
<1>2. CASE EditConfig \/ EditCatalog \/ DeletedByOthers \/ Crash
  BY <1>2, OthersKeep
<1>3. CASE Refresh
  BY <1>3, RefreshKeeps
<1>4. CASE Destroy \/ Replace
  BY <1>4, DeleteKeeps
<1>5. CASE NothingToDo \/ Create \/ Update \/ EndOperation
  BY <1>5, RunKeeps
<1>6. CASE Post \/ FindAgain \/ Open
  BY <1>6, CreateKeeps
<1>7. CASE Get
  BY <1>7, GetKeeps
<1>8. CASE Sha
  BY <1>8, ShaKeeps
<1>9. CASE Put
  BY <1>9, PutKeeps
<1>10. CASE Diff
  BY <1>10, DiffKeeps
<1>11. CASE Perform
  BY <1>11, PerformKeeps
<1>12. CASE Finish
  BY <1>12, FinishKeeps
<1> QED
  BY <1>1, <1>2, <1>3, <1>4, <1>5, <1>6, <1>7, <1>8, <1>9, <1>10, <1>11, <1>12
  DEF Next, Terraform, Provider, Others

(* The inductive invariant holds in every reachable state.                  *)
THEOREM Invariance == Spec => []IInv
  BY InitInv, Inductive, PTL DEF Spec

(* Every variable of the broker resource keeps its type: the bounds, the    *)
(* entries that are found again and the calls that are made included.       *)
THEOREM TypeCorrect == Spec => []TypeOK
<1>1. IInv => TypeOK
  BY DEF IInv
<1> QED
  BY <1>1, Invariance, PTL

(* A password that a successful update changes is the broker's, although    *)
(* previous_password is overwritten before the request is made              *)
(* (service_broker.go:611-619).                                             *)
THEOREM PasswordReaches == Spec => []PasswordIsSent
<1>1. IInv => PasswordIsSent
  BY DEF IInv, PasswordSent, PasswordIsSent
<1> QED
  BY <1>1, Invariance, PTL

-----------------------------------------------------------------------------
(* A step of an update keeps an access that stays asked for, of a service   *)
(* with no public plan before and with entries that agree.                  *)
LEMMA PerformIsKind ==
  ASSUME IInv, Perform, op = "update", broker.there,
         NEW x \in Access, x \in Wanted(d.access),
         PlansOf(ServiceOf[x[1]]) \cap seen = {}, Clear(ServiceOf[x[1]])
  PROVE  x \in Access'
<1>1. TypeOK /\ todo \in Seq(SUBSET Call)
  BY DEF IInv
<1>2. pc \in {"expose", "change"} /\ todo # <<>>
  BY <1>1, PerformFacts
<1>3. x \in Plans \X Orgs /\ x = <<x[1], x[2]>> /\ x[1] \in Plans /\ x[2] \in Orgs
  BY DEF Access
<1>4. PICK e \in d.access : /\ e.svc = ServiceOf[x[1]]
                            /\ e.plan \in {None, x[1]} /\ e.org \in {None, x[2]}
  BY DEF Wanted
<1>5. CASE UNCHANGED <<pub, vis>>
  BY <1>5 DEF Access
<1>6. ASSUME NEW c \in Head(todo), NEW a \in Answers, c \in Call, Made(c, a)
      PROVE  x \in Access'
  <2>1. c \in todo[1] /\ 1 \in DOMAIN todo
    BY <1>1, <1>2, <1>6
  <2>2. CASE c.do = "private"
    <3>1. PICK f \in d.access : f.svc = ServiceOf[c.plan] /\ ~Alone(f)
      BY <1>2, <2>1, <2>2 DEF IInv, CallsAreAsked
    <3>2. ASSUME x[1] \in pub PROVE c.plan # x[1]
      <4>1. x[1] \in pub \ seen
        BY <1>3, <3>2 DEF PlansOf
      <4>2. PICK g \in d.access : Alone(g) /\ g.svc = ServiceOf[x[1]]
        BY <1>2, <4>1 DEF IInv, PublicIsAsked, Updating
      <4> QED
        BY <3>1, <4>2 DEF Clear
    <3>3. vis' = vis /\ (x[1] \in pub => x[1] \in pub')
      BY <1>6, <2>2, <3>2 DEF Made
    <3> QED
      BY <3>3 DEF Access
  <2>3. CASE c.do = "revoke"
    <3>1. pc = "change" /\ <<c.plan, c.org>> \notin Dest /\ pub' = pub
      BY <1>2, <1>6, <2>1, <2>3 DEF IInv, CallsAreAsked, Made
    <3>2. CASE Alone(e)
      <4>1. ToBePublic(x[1])
        BY <1>4, <3>2 DEF ToBePublic
      <4>2. x[1] \in pub
        BY <1>3, <3>1, <4>1 DEF IInv, PublicFirst
      <4> QED
        BY <1>3, <3>1, <4>2 DEF Access
    <3>3. CASE ~Alone(e)
      <4>1. x \in Full(e)
        BY <1>3, <1>4, <3>3 DEF Full, Alone, PlansOf
      <4>2. x \in Dest
        BY <4>1 DEF Dest
      <4>3. x \in vis => x \in vis'
        BY <1>6, <2>3, <3>1, <4>2 DEF Made
      <4> QED
        BY <3>1, <4>3 DEF Access
    <3> QED
      BY <3>2, <3>3
  <2>4. CASE c.do \in {"public", "grant"}
    <3>1. pub \subseteq pub' /\ vis \subseteq vis'
      BY <1>6, <2>4 DEF Made
    <3> QED
      BY <3>1 DEF Access
  <2> QED
    BY <1>6, <2>2, <2>3, <2>4 DEF Call
<1> QED
  BY <1>1, <1>5, <1>6, PerformFacts

(* An access that is asked for as a whole service survives a step of an     *)
(* update.                                                                  *)
LEMMA StepIsKind ==
  ASSUME IInv, [Next]_vars, op = "update", pc \in {"put", "expose", "change"}, broker'.there,
         NEW x \in Access, x \in Wanted(d.access),
         PlansOf(ServiceOf[x[1]]) \cap seen = {}, Clear(ServiceOf[x[1]])
  PROVE  x \in Access'
<1>1. CASE Perform
  <2>1. broker' = broker
    BY <1>1, PerformFacts DEF IInv
  <2> QED
    BY <1>1, <2>1, PerformIsKind
<1>2. CASE DeletedByOthers
  <2>1. ~broker'.there
    BY <1>2 DEF DeletedByOthers, Gone, IInv, TypeOK, Broker
  <2> QED
    BY <2>1
<1>3. CASE ~Perform /\ ~DeletedByOthers
  <2>1. \A next : ~Delete(next)
    BY DEF Delete
  <2>2. pub' = pub /\ vis' = vis
    BY <1>3, <2>1
    DEF Next, Terraform, Provider, Others, vars, cf, Refresh, NothingToDo, Replace, Create,
        Update, Post, FindAgain, Sha, Open, Get, Put, Diff, Finish, EndOperation, EditConfig,
        EditCatalog, Destroy, Crash
  <2> QED
    BY <2>2 DEF Access
<1> QED
  BY <1>1, <1>2, <1>3

(* An update takes nothing away that is visible and stays asked for,        *)
(* whatever fails and wherever it is interrupted: what is private is made   *)
(* public before anything is revoked, and only what is not asked for is     *)
(* revoked (service_broker.go:412, 647, 658).                               *)
THEOREM AccessIsKept == Spec => KeepsAccess
<1> DEFINE Kind ==
      op = "update" /\ pc \in {"put", "expose", "change"} /\ broker'.there
        => \A x \in Access \cap Wanted(d.access) :
             LET s == ServiceOf[x[1]]
             IN PlansOf(s) \cap seen = {} /\ Clear(s) => x \in Access'
<1>1. IInv /\ [Next]_vars => [Kind]_vars
  <2> SUFFICES ASSUME IInv, [Next]_vars PROVE Kind
    OBVIOUS
  <2> QED
    BY StepIsKind
<1> HIDE DEF Kind
<1>2. Spec => [][Kind]_vars
  BY <1>1, Invariance, PTL DEF Spec
<1> QED
  BY <1>2 DEF KeepsAccess, Kind

-----------------------------------------------------------------------------
(* Between a refresh and the operation that follows it the entries of the   *)
(* state are those of some services, all of them or the ones that were read *)
(* before an error: while the broker is there nobody changes what they were *)
(* found from.                                                              *)
AccessIsRead ==
  pc = "plan" /\ tf.there /\ broker.there
    => tf.scoped \/ \E S \in SUBSET Offerings : tf.access = Retrieve(S)

(* What a refresh has read is what there is.                                *)
LEMMA RefreshReads == IInv /\ Refresh => AccessIsRead'
<1> SUFFICES ASSUME IInv, Refresh, tf'.there, broker'.there
             PROVE  tf'.scoped \/ \E S \in SUBSET Offerings : tf'.access = Retrieve(S)'
  BY DEF AccessIsRead
<1>1. tf \in Data /\ UNCHANGED <<broker, pub, vis>>
  BY DEF IInv, TypeOK, Refresh, cf
<1>2. tf.there /\ broker.there
  BY <1>1, AbsentType DEF Refresh, Absent, Planned
<1>3. PICK S \in SUBSET Offerings, sha \in Catalogs \cup {NoCatalog} :
        tf' = Read(tf, Retrieve(S), sha)
  <2>1. ASSUME NEW S \in SUBSET Offerings \ {Offerings},
               tf' = Read(tf, Retrieve(S), served[broker.url])
        PROVE  served[broker.url] \in Catalogs
    BY DEF IInv, TypeOK, Broker
  <2> QED
    BY <1>2, <2>1 DEF Refresh
<1>4. \A T \in SUBSET Offerings : Retrieve(T)' = Retrieve(T)
  BY <1>1 DEF Retrieve, Retrieved
<1>5. tf'.access = IF tf.scoped THEN tf.access ELSE Retrieve(S)
  BY <1>1, <1>3 DEF Read, Data
<1>6. tf'.scoped = tf.scoped
  BY <1>1, <1>3 DEF Read, Data
<1> QED
  BY <1>4, <1>5, <1>6

(* Nobody else changes the state, the broker or what is visible and is at a *)
(* plan afterwards.                                                         *)
LEMMA OthersRead == IInv /\ AccessIsRead /\ [Next]_vars /\ ~Refresh => AccessIsRead'
<1> SUFFICES ASSUME IInv, AccessIsRead, [Next]_vars, ~Refresh,
                    pc' = "plan", tf'.there, broker'.there
             PROVE  AccessIsRead'
  BY DEF AccessIsRead
<1>1. \A next : Delete(next) => ~tf'.there \/ pc' = "idle"
  BY DEF Delete, Go, Absent, Planned
<1>2. ~DeletedByOthers
  BY DEF DeletedByOthers, Gone, IInv, TypeOK, Broker
<1>3. pc = "plan" /\ UNCHANGED <<broker, pub, vis, tf>>
  <2>1. CASE UNCHANGED vars
    BY <2>1 DEF vars, cf
  <2>2. ~Replace /\ ~Destroy
    BY <1>1 DEF Replace, Destroy
  <2>3. CASE EditCatalog
    BY <2>3 DEF EditCatalog, cf
  <2>4. ~Perform
    BY DEF Perform, Return
  <2>5. ~NothingToDo /\ ~Create /\ ~Update /\ ~Crash /\ ~EndOperation /\ ~Finish /\ ~EditConfig
    BY DEF NothingToDo, Create, Update, Crash, EndOperation, Finish, EditConfig, Go, Return
  <2>6. ~Post /\ ~FindAgain /\ ~Open /\ ~Get /\ ~Diff
    BY DEF Post, FindAgain, Open, Get, Diff, Go, Return
  <2>7. ~Sha /\ ~Put
    BY DEF Sha, Put, Expose, Go, Return
  <2> QED
    BY <1>2, <2>1, <2>2, <2>3, <2>4, <2>5, <2>6, <2>7 DEF Next, Terraform, Provider, Others
<1>4. \A T \in SUBSET Offerings : Retrieve(T)' = Retrieve(T)
  BY <1>3 DEF Retrieve, Retrieved
<1> QED
  BY <1>3, <1>4 DEF AccessIsRead

(* The entries of a service that is not read as public and whose plans are  *)
(* not all visible everywhere say exactly where its plans are visible:      *)
(* plans that are visible in all organizations, organizations that see all  *)
(* the others, and pairs of the rest.                                       *)
LEMMA RetrievedIsTrue ==
  ASSUME BrokersAssumption, vis \subseteq Plans \X Orgs, NEW s \in Offerings,
         [svc |-> s, plan |-> None, org |-> None] \notin Retrieved(s, pub),
         NEW x \in PlansOf(s) \X Orgs
  PROVE  x \in Access <=> \E e \in Retrieved(s, pub) : /\ e.plan \in {None, x[1]}
                                                       /\ e.org \in {None, x[2]}
<1> DEFINE everywhere == {p \in PlansOf(s) : {p} \X Orgs \subseteq vis}
           single == {y \in vis : y[1] \in PlansOf(s) \ everywhere}
           whole  == {o \in Orgs : PlansOf(s) \X {o} \subseteq single}
           A == {[svc |-> s, plan |-> p, org |-> None] : p \in everywhere}
           B == {[svc |-> s, plan |-> None, org |-> o] : o \in whole}
           C == {[svc |-> s, plan |-> y[1], org |-> y[2]] :
                   y \in {z \in single : z[2] \notin whole}}
<1>1. PlansOf(s) \cap pub = {} /\ Retrieved(s, pub) = A \cup B \cup C
  BY DEF Retrieved
<1>2. x = <<x[1], x[2]>> /\ x[1] \in PlansOf(s) /\ x[2] \in Orgs /\ PlansOf(s) \subseteq Plans
  BY DEF PlansOf
<1>3. None \notin Plans \cup Orgs
  BY DEF BrokersAssumption
<1>4. x \in Access <=> x \in vis
  BY <1>1, <1>2 DEF Access
<1>5. ASSUME x \in vis
      PROVE  \E e \in A \cup B \cup C : e.plan \in {None, x[1]} /\ e.org \in {None, x[2]}
  <2>1. CASE x[1] \in everywhere
    <3>1. [svc |-> s, plan |-> x[1], org |-> None] \in A
      BY <2>1
    <3> HIDE DEF A, B, C
    <3> QED
      BY <3>1
  <2>2. CASE x[1] \notin everywhere /\ x[2] \in whole
    <3>1. [svc |-> s, plan |-> None, org |-> x[2]] \in B
      BY <2>2
    <3> HIDE DEF A, B, C
    <3> QED
      BY <3>1
  <2>3. CASE x[1] \notin everywhere /\ x[2] \notin whole
    <3>1. x \in {z \in single : z[2] \notin whole}
      BY <1>2, <1>5, <2>3
    <3>2. [svc |-> s, plan |-> x[1], org |-> x[2]] \in C
      BY <3>1
    <3> HIDE DEF A, B, C
    <3> QED
      BY <3>2
  <2> QED
    BY <2>1, <2>2, <2>3
<1>6. ASSUME NEW e \in A \cup B \cup C, e.plan \in {None, x[1]}, e.org \in {None, x[2]}
      PROVE  x \in vis
  <2>1. CASE e \in A
    <3>1. PICK p \in everywhere : e = [svc |-> s, plan |-> p, org |-> None]
      BY <2>1
    <3>2. p = x[1]
      BY <1>2, <1>3, <1>6, <3>1
    <3> QED
      BY <1>2, <3>1, <3>2
  <2>2. CASE e \in B
    <3>1. PICK o \in whole : e = [svc |-> s, plan |-> None, org |-> o]
      BY <2>2
    <3>2. o = x[2]
      BY <1>3, <1>6, <3>1
    <3> QED
      BY <1>2, <3>1, <3>2
  <2>3. CASE e \in C
    <3>1. PICK y \in vis : /\ y[1] \in PlansOf(s)
                           /\ e = [svc |-> s, plan |-> y[1], org |-> y[2]]
      BY <2>3
    <3>2. y = <<y[1], y[2]>> /\ y[2] \in Orgs
      BY <3>1
    <3>3. y[1] = x[1] /\ y[2] = x[2]
      BY <1>2, <1>3, <1>6, <3>1, <3>2
    <3> QED
      BY <1>2, <3>1, <3>2, <3>3
  <2> QED
    BY <1>6, <2>1, <2>2, <2>3
<1> HIDE DEF A, B, C
<1> QED
  BY <1>1, <1>4, <1>5, <1>6

(* A plan that is empty behind a refresh was computed from entries that are *)
(* the configuration's.                                                     *)
LEMMA ReadIsTrue == BrokersAssumption /\ IInv /\ AccessIsRead => AccessIsTrue
<1> SUFFICES ASSUME BrokersAssumption, IInv, AccessIsRead, pc = "plan", InSync, broker.there,
                    NEW s \in Offerings, Restricted(s), NEW x \in PlansOf(s) \X Orgs
             PROVE  x \in Access <=> x \in Wanted(cfg.access)
  BY DEF AccessIsTrue
<1>1. tf.there /\ tf.access = cfg.access /\ tf.scoped = cfg.scoped
  BY DEF InSync, Planned
<1>2. cfg \in Configs /\ vis \subseteq Plans \X Orgs
  BY DEF IInv, TypeOK
<1>3. ~tf.scoped
  BY <1>1, <1>2 DEF Restricted, BrokersAssumption
<1>4. PICK S \in SUBSET Offerings : cfg.access = Retrieve(S)
  BY <1>1, <1>3 DEF AccessIsRead
<1>5. \A t \in Offerings : \A e \in Retrieved(t, pub) : e.svc = t
  BY DEF Retrieved
<1>6. \A e : e \in cfg.access /\ e.svc = s <=> s \in S /\ e \in Retrieved(s, pub)
  BY <1>4, <1>5 DEF Retrieve
<1>7. s \in S /\ [svc |-> s, plan |-> None, org |-> None] \notin Retrieved(s, pub)
  BY <1>6 DEF Restricted, Alone
<1>8. x \in Access <=> \E e \in Retrieved(s, pub) : /\ e.plan \in {None, x[1]}
                                                    /\ e.org \in {None, x[2]}
  BY <1>2, <1>7, RetrievedIsTrue
<1>9. x \in Plans \X Orgs /\ ServiceOf[x[1]] = s
  BY DEF PlansOf
<1> QED
  BY <1>6, <1>7, <1>8, <1>9 DEF Wanted

(* An empty plan is right about who sees a service that the configuration   *)
(* names with a plan or an organization, whatever failed or was killed      *)
(* before: what is visible is folded into entries, and entries say what is  *)
(* visible (service_broker.go:154, 584).                                    *)
THEOREM EmptyPlanIsTrue == Spec => []AccessIsTrue
<1>1. Init => AccessIsRead
  BY DEF Init, AccessIsRead
<1>2. IInv /\ AccessIsRead /\ [Next]_vars => AccessIsRead'
  BY RefreshReads, OthersRead
<1>3. IInv /\ AccessIsRead => AccessIsTrue
  BY BrokersAssumption, ReadIsTrue
<1> QED
  BY <1>1, <1>2, <1>3, Invariance, PTL DEF Spec
=============================================================================
