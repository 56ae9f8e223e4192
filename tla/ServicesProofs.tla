--------------------------- MODULE ServicesProofs ---------------------------
(***************************************************************************)
(* Proofs about Services, for any resources, spaces, names and numbers of   *)
(* mishaps and edits: the state never lets go of an instance that is there; *)
(* and, when every resource has a name of its own, resources that run at    *)
(* the same time do not come to hold each other's instances, whatever space *)
(* the shared setting says.                                                 *)
(***************************************************************************)
EXTENDS Services, TLAPS

Creating == {"find", "post", "again", "findAgain", "compare"}
Deleting == {"list", "unbind", "delete"}
Putting  == {"put", "putUps"}

(* What the calls of an operation tell of the operation, and what it knows  *)
(* of the instance in the state.                                            *)
OperationKnows(r) ==
  /\ pc[r] \in Creating => op[r] = "create"
  /\ pc[r] = "get"      => op[r] = "update"
  /\ pc[r] \in Putting  => op[r] \in {"create", "update"}
  /\ pc[r] \in Deleting => op[r] = "delete"
  /\ pc[r] \notin {"idle", "plan"} =>
       /\ op[r] = "create" => tf[r].id = NoGuid
       /\ op[r] = "update" => d[r].id = tf[r].id \/ tf[r].id \notin live
       /\ op[r] = "delete" => d[r].id = tf[r].id
  /\ pc[r] = "return" /\ op[r] = "delete" /\ result[r] = "ok" => d[r].id \notin live

(* While an operation is under way some operation has set the space.        *)
SpaceIsSet == \A r \in Resources : pc[r] # "idle" => space # NoSpace

IInv == /\ TypeOK /\ SpaceIsSet
        /\ \A r \in Resources : cfg[r] \in Configs[r] /\ OperationKnows(r)

(* What a resource holds, or is about to, has its name and is in a space.   *)
NamesKept ==
  \A r \in Resources :
    /\ tf[r].name = cfg[r].name /\ d[r].name = cfg[r].name
    /\ \A g \in live : g = tf[r].id \/ g = d[r].id =>
         svc[g].name = cfg[r].name /\ svc[g].space # NoSpace

(* The operator gives a resource one name, and no two resources the same.   *)
OneName == \A r \in Resources : \A b, c \in Configs[r] : b.name = c.name
OtherNames ==
  \A r, q \in Resources : r # q =>
    \A b \in Configs[r], c \in Configs[q] : b.name # c.name

-----------------------------------------------------------------------------
(* The resource data of a plan is well formed. *)
LEMMA PlannedType ==
  ASSUME cfg \in [Resources -> Config], NEW r \in Resources, NEW i \in Guids \cup {NoGuid}
  PROVE  /\ Planned(r, i) \in Data
         /\ Planned(r, i).id = i /\ Planned(r, i).name = cfg[r].name
         /\ Planned(r, i).space = cfg[r].space
  BY DEF Planned, Data, Config

(* A resource that finds an instance, or loses it, keeps its other data.    *)
LEMMA IdType ==
  ASSUME d \in [Resources -> Data], NEW r \in Resources, NEW g \in Guids \cup {NoGuid},
         d' = [d EXCEPT ![r].id = g]
  PROVE  /\ d' \in [Resources -> Data] /\ \A q \in Resources \ {r} : d'[q] = d[q]
         /\ d'[r].id = g /\ d'[r].name = d[r].name /\ d'[r].space = d[r].space
<1>1. d[r] \in Data /\ d' = [d EXCEPT ![r] = [d[r] EXCEPT !.id = g]]
  OBVIOUS
<1>2. [d[r] EXCEPT !.id = g] \in Data /\ [d[r] EXCEPT !.id = g].id = g
      /\ [d[r] EXCEPT !.id = g].name = d[r].name
      /\ [d[r] EXCEPT !.id = g].space = d[r].space
  BY <1>1 DEF Data
<1> QED
  BY <1>1, <1>2

(* An update changes neither the name nor the space of an instance.         *)
LEMMA UserProvidedType ==
  ASSUME NEW i \in Instance, NEW t \in Tags, NEW u \in Urls
  PROVE  LET new == [i EXCEPT !.tags = t, !.url = u]
         IN new \in Instance /\ new.name = i.name /\ new.space = i.space
  BY DEF Instance

(* An instance that is bound anew keeps its type, its name and its space.   *)
LEMMA BoundType ==
  ASSUME NEW i \in Instance, NEW b \in SUBSET Apps
  PROVE  LET new == [i EXCEPT !.bound = b]
         IN new \in Instance /\ new.name = i.name /\ new.space = i.space
  BY DEF Instance

(* Numbers of mishaps stay in their bound. *)
LEMMA AnswerType ==
  ASSUME mishaps \in 0 .. MaxMishaps
  PROVE  /\ \A where : Mishap(where) => mishaps' \in 0 .. MaxMishaps
         /\ \A a, where, possible : Answer(a, where, possible) => mishaps' \in 0 .. MaxMishaps
  BY ServicesAssumption DEF ServicesAssumption, Answer, Mishap

(* A call that is possible was answered or failed, one that is not has no effect. *)
LEMMA AnswerEffect ==
  ASSUME NEW a, NEW where, NEW possible \in BOOLEAN, Answer(a, where, possible)
  PROVE  a \in {"ok", "lost"} => possible
  BY DEF Answer

(* What a call writes: one instance, or nothing. *)
LEMMA PutFacts ==
  ASSUME live \subseteq Guids, svc \in [live -> Instance],
         NEW a, NEW g, NEW new, Put(a, g, new),
         a \in {"ok", "lost"} => g \in Guids /\ new \in Instance
  PROVE  /\ live' \subseteq Guids /\ svc' \in [live' -> Instance]
         /\ live' = IF a \in {"ok", "lost"} THEN live \cup {g} ELSE live
         /\ \A h \in live' : svc'[h] = IF a \in {"ok", "lost"} /\ h = g THEN new ELSE svc[h]
  BY DEF Put, live

(* What a run begins with: a plan of the state that a refresh read.         *)
LEMMA ReadFacts ==
  ASSUME live \subseteq Guids, svc \in [live -> Instance], NEW x \in Data
  PROVE  /\ Read(x) \in Data
         /\ Read(x).id = IF x.id \in live THEN x.id ELSE NoGuid
         /\ Read(x).name = IF x.id \in live THEN svc[x.id].name ELSE x.name
         /\ Read(x).space = x.space
  BY ServicesAssumption DEF ServicesAssumption, Read, Data, Instance, IsUserProvided

(* The invariant holds at the start.                                        *)
LEMMA InitInv == Init => IInv
<1> SUFFICES ASSUME Init PROVE IInv
  OBVIOUS
<1>1. cfg \in [Resources -> Config] /\ \A r \in Resources : cfg[r] \in Configs[r]
  BY ServicesAssumption DEF ServicesAssumption, Init
<1>2. live \subseteq Guids /\ svc \in [live -> Instance]
  <2>1. CASE svc = [g \in {} |-> CHOOSE i \in Instance : TRUE]
    BY <2>1 DEF live
  <2>2. CASE \E g \in Guids, i \in Existing : svc = [h \in {g} |-> i]
    BY <2>2, ServicesAssumption DEF ServicesAssumption, live
  <2> QED
    BY <2>1, <2>2 DEF Init
<1>3. tf \in [Resources -> Data] /\ d \in [Resources -> Data]
  BY <1>1, PlannedType DEF Init
<1>4. TypeOK
  BY <1>1, <1>2, <1>3, ServicesAssumption DEF ServicesAssumption, Init, TypeOK
<1> QED
  BY <1>1, <1>4 DEF Init, IInv, SpaceIsSet, OperationKnows, Creating, Putting, Deleting

-----------------------------------------------------------------------------
(* A run begins. *)
LEMMA RefreshKeeps == IInv /\ Refresh => IInv'
<1> SUFFICES ASSUME IInv, Refresh PROVE IInv'
  OBVIOUS
<1>1. /\ \A r \in Resources : pc[r] = "idle" /\ tf'[r] = Read(tf[r]) /\ pc'[r] = "plan"
      /\ UNCHANGED <<svc, live, cfg, edits, op, d, asked, bindings, mishaps>>
  BY DEF Refresh, world, live
<1>2. tf' \in [Resources -> Data]
  BY ReadFacts DEF Refresh, IInv, TypeOK
<1>3. space' \in Spaces
  BY DEF Refresh, SetSpaceFields, IInv, TypeOK, Data
<1>4. TypeOK'
  <2>1. pc' = [r \in Resources |-> "plan"] /\ result' = [r \in Resources |-> "none"]
    BY DEF Refresh
  <2> QED
    BY <1>1, <1>2, <1>3, <2>1 DEF IInv, TypeOK
<1>5. SpaceIsSet'
  BY <1>3, ServicesAssumption DEF ServicesAssumption, SpaceIsSet
<1> QED
  BY <1>1, <1>4, <1>5 DEF IInv, OperationKnows, Creating, Putting, Deleting

(* An operation begins. *)
LEMMA BeginKeeps ==
  ASSUME IInv, NEW r \in Resources, NothingToDo(r) \/ Create(r) \/ Update(r) \/ Delete(r)
  PROVE  IInv'
<1>1. pc[r] = "plan" /\ UNCHANGED <<svc, live, cfg, edits, tf, bindings, mishaps, result>>
  BY DEF NothingToDo, Create, Update, Delete, Begin, Go, world, mine, live
<1>2. CASE NothingToDo(r)
  <2>1. pc' = [pc EXCEPT ![r] = "idle"] /\ UNCHANGED <<space, op, d, asked>>
    BY <1>2 DEF NothingToDo, Go, mine
  <2>2. TypeOK' /\ SpaceIsSet'
    BY <1>1, <2>1 DEF IInv, TypeOK, SpaceIsSet
  <2> QED
    BY <1>1, <2>1, <2>2 DEF IInv, TypeOK, OperationKnows, Creating, Putting, Deleting
<1>3. CASE Create(r) \/ Update(r) \/ Delete(r)
  <2>1. \E x \in Data :
          /\ d' = [d EXCEPT ![r] = x]
          /\ \/ op' = [op EXCEPT ![r] = "create"] /\ pc' = [pc EXCEPT ![r] = "find"]
                /\ tf[r].id = NoGuid
             \/ op' = [op EXCEPT ![r] = "update"] /\ pc' = [pc EXCEPT ![r] = "get"]
                /\ x.id = tf[r].id
             \/ op' = [op EXCEPT ![r] = "delete"] /\ pc' = [pc EXCEPT ![r] = "list"]
                /\ x.id = tf[r].id
    <3>1. /\ Planned(r, NoGuid) \in Data
          /\ Planned(r, tf[r].id) \in Data /\ Planned(r, tf[r].id).id = tf[r].id
      BY PlannedType DEF IInv, TypeOK, Data
    <3> QED
      BY <1>3, <3>1 DEF Create, Update, Delete, Begin, Go, IInv, TypeOK
  <2>2. space' \in Spaces \/ (space' = space /\ space # NoSpace)
    BY <1>1, <1>3 DEF Create, Update, Delete, SetSpaceFields, IInv, TypeOK, Config, SpaceIsSet
  <2>3. asked' \in [Resources -> Plans \cup {NoPlan}]
    BY <1>3 DEF Create, Update, Delete, IInv, TypeOK
  <2>4. TypeOK'
    <3>1. PICK x \in Data, o \in {"create", "update", "delete"}, p \in {"find", "get", "list"} :
            /\ d' = [d EXCEPT ![r] = x] /\ op' = [op EXCEPT ![r] = o]
            /\ pc' = [pc EXCEPT ![r] = p]
      BY <2>1
    <3> QED
      BY <1>1, <2>2, <2>3, <3>1 DEF IInv, TypeOK
  <2>5. SpaceIsSet'
    BY <2>2, ServicesAssumption DEF ServicesAssumption, SpaceIsSet
  <2>6. ASSUME NEW q \in Resources PROVE OperationKnows(q)'
    <3>1. CASE q = r
      BY <1>1, <2>1, <3>1 DEF IInv, TypeOK, OperationKnows, Creating, Putting, Deleting
    <3>2. CASE q # r
      BY <1>1, <2>1, <3>2 DEF IInv, TypeOK, OperationKnows
    <3> QED
      BY <3>1, <3>2
  <2> QED
    BY <1>1, <2>4, <2>5, <2>6 DEF IInv
<1> QED
  BY <1>2, <1>3

(* What an operation does next: another call of its own, or it returns, and *)
(* a deletion only with an error (not so DeleteInstance).                   *)
Proceeds(r) ==
  \/ \E p \in Creating : op[r] = "create" /\ Go(r, p)
  \/ \E p \in Putting  : op[r] \in {"create", "update"} /\ Go(r, p)
  \/ \E p \in Deleting : op[r] = "delete" /\ Go(r, p)
  \/ Return(r, "failed")
  \/ op[r] # "delete" /\ Return(r, "ok")

(* Where an operation can proceed to.                                       *)
LEMMA ProceedsFacts ==
  ASSUME IInv, NEW r \in Resources, Proceeds(r)
  PROVE  /\ \E p \in Creating \cup Putting \cup Deleting \cup {"return"} :
              /\ pc' = [pc EXCEPT ![r] = p]
              /\ p \in Creating => op[r] = "create"
              /\ p \in Putting  => op[r] \in {"create", "update"}
              /\ p \in Deleting => op[r] = "delete"
              /\ op[r] = "delete" /\ p = "return" => result'[r] = "failed"
         /\ result' \in [Resources -> {"none", "ok", "failed"}]
         /\ \A q \in Resources \ {r} : result'[q] = result[q]
<1>1. result \in [Resources -> {"none", "ok", "failed"}]
  BY DEF IInv, TypeOK
<1>2. CASE \E p \in Creating : op[r] = "create" /\ Go(r, p)
  BY <1>1, <1>2 DEF Go, Creating, Putting, Deleting
<1>3. CASE \E p \in Putting : op[r] \in {"create", "update"} /\ Go(r, p)
  BY <1>1, <1>3 DEF Go, Creating, Putting, Deleting
<1>4. CASE \E p \in Deleting : op[r] = "delete" /\ Go(r, p)
  BY <1>1, <1>4 DEF Go, Creating, Putting, Deleting
<1>5. CASE Return(r, "failed") \/ (op[r] # "delete" /\ Return(r, "ok"))
  BY <1>1, <1>5 DEF Return, Creating, Putting, Deleting
<1> QED
  BY <1>2, <1>3, <1>4, <1>5 DEF Proceeds

(* Calls leave these alone, and the list of bindings a list of bindings.    *)
Kept == UNCHANGED <<cfg, edits, tf, op>> /\ bindings' \in [Resources -> SUBSET Apps]

(* A call that leaves the instances alone and keeps what the operation      *)
(* knows: every call but those that write.                                  *)
LEMMA ReadingKeeps ==
  ASSUME IInv, NEW r \in Resources, pc[r] \notin {"idle", "plan"},
         Kept, svc' = svc, live' = live, Proceeds(r),
         mishaps' \in 0 .. MaxMishaps,
         d' \in [Resources -> Data], asked' \in [Resources -> Plans \cup {NoPlan}],
         space' \in Spaces \/ space' = space,
         \A q \in Resources \ {r} : d'[q] = d[q],
         op[r] # "create" => d'[r] = d[r] \/ (op[r] = "update" /\ tf[r].id \notin live)
  PROVE  IInv'
<1>1. PICK p \in Creating \cup Putting \cup Deleting \cup {"return"} :
        /\ pc' = [pc EXCEPT ![r] = p]
        /\ p \in Creating => op[r] = "create"
        /\ p \in Putting  => op[r] \in {"create", "update"}
        /\ p \in Deleting => op[r] = "delete"
        /\ op[r] = "delete" /\ p = "return" => result'[r] = "failed"
  BY ProceedsFacts
<1>2. /\ result' \in [Resources -> {"none", "ok", "failed"}]
      /\ \A q \in Resources \ {r} : result'[q] = result[q]
  BY ProceedsFacts
<1>3. TypeOK'
  BY <1>1, <1>2 DEF Kept, IInv, TypeOK, Creating, Putting, Deleting
<1>4. SpaceIsSet'
  BY <1>1, ServicesAssumption DEF ServicesAssumption, IInv, TypeOK, SpaceIsSet
<1>5. ASSUME NEW q \in Resources PROVE OperationKnows(q)'
  <2>1. CASE q = r
    BY <1>1, <2>1 DEF Kept, IInv, TypeOK, OperationKnows, Creating, Putting, Deleting
  <2>2. CASE q # r
    BY <1>1, <1>2, <2>2 DEF Kept, IInv, TypeOK, OperationKnows
  <2> QED
    BY <2>1, <2>2
<1> QED
  BY <1>3, <1>4, <1>5 DEF Kept, IInv

(* The bindings stay well formed when they are left alone.                  *)
LEMMA KeptFacts ==
  ASSUME IInv, UNCHANGED world, UNCHANGED mine
  PROVE  Kept
<1>1. UNCHANGED <<cfg, edits, tf, op, bindings>>
  BY DEF world, mine
<1> QED
  BY <1>1 DEF Kept, IInv, TypeOK

Reads(r) ==
  Find(r) \/ SetAgain(r) \/ FindAgain(r) \/ Compare(r) \/ Get(r) \/ List(r)

(* What the calls that read do to their operation. *)
LEMMA ReadsKeep ==
  ASSUME IInv, NEW r \in Resources, Reads(r)
  PROVE  IInv'
<1> USE DEF live
<1>1. TypeOK
  BY DEF IInv
<1>2. CASE Find(r) \/ FindAgain(r)
  <2>1. /\ pc[r] \notin {"idle", "plan"} /\ op[r] = "create"
        /\ Kept /\ svc' = svc /\ live' = live /\ asked' = asked /\ space' = space
    BY <1>2, KeptFacts DEF Find, FindAgain, Found, IInv, OperationKnows, Creating
  <2>2. Proceeds(r)
    BY <1>2, <2>1 DEF Find, FindAgain, Found, Proceeds, Creating
  <2>3. d' = d \/ \E g \in Guids : d' = [d EXCEPT ![r].id = g]
    BY <1>1, <1>2 DEF Find, FindAgain, Found, FoundByName, TypeOK
  <2>4. d' \in [Resources -> Data] /\ \A q \in Resources \ {r} : d'[q] = d[q]
    BY <1>1, <2>3, IdType DEF TypeOK
  <2>5. mishaps' \in 0 .. MaxMishaps
    BY <1>1, <1>2, AnswerType DEF Find, FindAgain, Found, TypeOK
  <2>6. asked' \in [Resources -> Plans \cup {NoPlan}]
    BY <1>1, <2>1 DEF TypeOK
  <2> QED
    BY <2>1, <2>2, <2>4, <2>5, <2>6, ReadingKeeps
<1>3. CASE SetAgain(r)
  <2>1. /\ pc[r] \notin {"idle", "plan"} /\ op[r] = "create"
        /\ Kept /\ svc' = svc /\ live' = live /\ asked' = asked /\ d' = d
        /\ mishaps' = mishaps /\ space' = d[r].space
    BY <1>3, KeptFacts DEF SetAgain, SetSpaceFields, IInv, OperationKnows, Creating
  <2>2. Proceeds(r)
    BY <1>3, <2>1 DEF SetAgain, Proceeds, Creating
  <2>3. /\ space' \in Spaces /\ d' \in [Resources -> Data]
        /\ mishaps' \in 0 .. MaxMishaps /\ asked' \in [Resources -> Plans \cup {NoPlan}]
    BY <1>1, <2>1 DEF TypeOK, Data
  <2> QED
    BY <2>1, <2>2, <2>3, ReadingKeeps
<1>4. CASE Compare(r)
  <2>1. /\ pc[r] \notin {"idle", "plan"} /\ op[r] = "create"
        /\ Kept /\ svc' = svc /\ live' = live /\ asked' = asked /\ d' = d
        /\ space' = space
    BY <1>4, KeptFacts DEF Compare, IInv, OperationKnows, Creating
  <2>2. Proceeds(r)
    BY <1>4, <2>1 DEF Compare, Proceeds, Putting
  <2>3. /\ d' \in [Resources -> Data]
        /\ mishaps' \in 0 .. MaxMishaps /\ asked' \in [Resources -> Plans \cup {NoPlan}]
    BY <1>1, <1>4, <2>1, AnswerType DEF Compare, TypeOK
  <2> QED
    BY <2>1, <2>2, <2>3, ReadingKeeps
<1>5. CASE Get(r)
  <2>1. /\ pc[r] \notin {"idle", "plan"} /\ op[r] = "update"
        /\ Kept /\ svc' = svc /\ live' = live /\ space' = space
    BY <1>5, KeptFacts DEF Get, IInv, OperationKnows
  <2>2. Proceeds(r)
    BY <1>5, <2>1 DEF Get, Proceeds, Putting
  <2>3. /\ d' = d \/ (d[r].id \notin live /\ d' = [d EXCEPT ![r].id = NoGuid])
        /\ asked' = asked \/ asked' = [asked EXCEPT ![r] = d[r].plan]
    BY <1>5 DEF Get
  <2>4. d' \in [Resources -> Data] /\ \A q \in Resources \ {r} : d'[q] = d[q]
    BY <1>1, <2>3, IdType DEF TypeOK
  <2>5. asked' \in [Resources -> Plans \cup {NoPlan}]
    BY <1>1, <2>3 DEF TypeOK, Data
  <2>6. d[r].id = tf[r].id \/ tf[r].id \notin live
    BY <2>1 DEF IInv, OperationKnows
  <2>7. d'[r] = d[r] \/ tf[r].id \notin live
    BY <2>3, <2>6
  <2>8. mishaps' \in 0 .. MaxMishaps
    BY <1>1, <1>5, AnswerType DEF Get, TypeOK
  <2> QED
    BY <2>1, <2>2, <2>4, <2>5, <2>7, <2>8, ReadingKeeps
<1>6. CASE List(r)
  <2>1. /\ pc[r] \notin {"idle", "plan"} /\ op[r] = "delete"
        /\ UNCHANGED <<cfg, edits, tf, op>>
        /\ svc' = svc /\ live' = live /\ asked' = asked /\ d' = d /\ space' = space
    BY <1>6 DEF List, IInv, OperationKnows, Deleting, world
  <2>2. bindings' \in [Resources -> SUBSET Apps]
    <3>1. d[r].id \in live => svc[d[r].id].bound \in SUBSET Apps
      BY <1>1 DEF TypeOK, Instance
    <3> QED
      BY <1>1, <1>6, <3>1 DEF List, TypeOK
  <2>3. Proceeds(r)
    BY <1>6, <2>1 DEF List, Proceeds, Deleting
  <2>4. /\ d' \in [Resources -> Data]
        /\ mishaps' \in 0 .. MaxMishaps /\ asked' \in [Resources -> Plans \cup {NoPlan}]
    BY <1>1, <1>6, <2>1, AnswerType DEF List, TypeOK
  <2> QED
    BY <2>1, <2>2, <2>3, <2>4, ReadingKeeps DEF Kept
<1> QED
  BY <1>2, <1>3, <1>4, <1>5, <1>6 DEF Reads

-----------------------------------------------------------------------------
(* A call that writes an instance: none is gone afterwards, and a new one   *)
(* is one that nobody knows yet.                                            *)
Writes == \E new \in SUBSET Fresh : live' = live \cup new

(* An operation that wrote to an instance, and proceeds, keeps the          *)
(* invariant.                                                               *)
LEMMA WritingKeeps ==
  ASSUME IInv, NEW r \in Resources, pc[r] \notin {"idle", "plan"},
         Kept, d' = d, space' = space, Proceeds(r),
         mishaps' \in 0 .. MaxMishaps,
         asked' \in [Resources -> Plans \cup {NoPlan}],
         live' \subseteq Guids, svc' \in [live' -> Instance], Writes
  PROVE  IInv'
<1>1. PICK p \in Creating \cup Putting \cup Deleting \cup {"return"} :
        /\ pc' = [pc EXCEPT ![r] = p]
        /\ p \in Creating => op[r] = "create"
        /\ p \in Putting  => op[r] \in {"create", "update"}
        /\ p \in Deleting => op[r] = "delete"
        /\ op[r] = "delete" /\ p = "return" => result'[r] = "failed"
  BY ProceedsFacts
<1>2. /\ result' \in [Resources -> {"none", "ok", "failed"}]
      /\ \A q \in Resources \ {r} : result'[q] = result[q]
  BY ProceedsFacts
<1>3. TypeOK'
  BY <1>1, <1>2 DEF Kept, IInv, TypeOK, Creating, Putting, Deleting
<1>4. SpaceIsSet'
  BY <1>1 DEF IInv, TypeOK, SpaceIsSet
<1>5. \A q \in Resources : /\ tf[q].id \notin live => tf'[q].id \notin live'
                           /\ d[q].id \notin live => d'[q].id \notin live'
  <2>1. \A q \in Resources : tf[q].id \notin Fresh /\ d[q].id \notin Fresh
    BY DEF Fresh
  <2>2. tf' = tf /\ d' = d
    BY DEF Kept
  <2> QED
    BY <2>1, <2>2 DEF Writes
<1>6. ASSUME NEW q \in Resources PROVE OperationKnows(q)'
  <2>1. op'[q] = op[q] /\ tf'[q] = tf[q] /\ d'[q] = d[q]
    BY DEF Kept
  <2>4. OperationKnows(q)
    BY DEF IInv
  <2>5. /\ tf[q].id \notin live => tf'[q].id \notin live'
        /\ d[q].id \notin live => d'[q].id \notin live'
    BY <1>5
  <2>2. CASE q = r
    <3>1. pc'[q] = p
      BY <1>1, <2>2 DEF IInv, TypeOK
    <3> QED
      BY <1>1, <2>1, <2>2, <2>4, <2>5, <3>1 DEF OperationKnows, Creating, Putting, Deleting
  <2>3. CASE q # r
    <3>1. pc'[q] = pc[q] /\ result'[q] = result[q]
      BY <1>1, <1>2, <2>3 DEF IInv, TypeOK
    <3> QED
      BY <2>1, <2>4, <2>5, <3>1 DEF OperationKnows
  <2> QED
    BY <2>2, <2>3
<1> QED
  BY <1>3, <1>4, <1>6 DEF Kept, IInv

(* Create makes an instance (services.go:59, 73). *)
LEMMA PostFacts ==
  ASSUME IInv, NEW r \in Resources, Post(r)
  PROVE  /\ pc[r] \notin {"idle", "plan"} /\ space # NoSpace
         /\ Kept /\ d' = d /\ space' = space /\ Proceeds(r)
         /\ mishaps' \in 0 .. MaxMishaps
         /\ asked' \in [Resources -> Plans \cup {NoPlan}]
         /\ live' \subseteq Guids /\ svc' \in [live' -> Instance] /\ Writes
         /\ \A h \in live : svc'[h] = svc[h]
<1>1. /\ pc[r] \notin {"idle", "plan"} /\ op[r] = "create" /\ space # NoSpace
      /\ Kept /\ d' = d /\ space' = space
  BY KeptFacts DEF Post, IInv, OperationKnows, Creating, SpaceIsSet
<1>2. d[r] \in Data /\ asked' = [asked EXCEPT ![r] = IF d[r].ups THEN NoPlan ELSE d[r].plan]
  BY DEF Post, IInv, TypeOK
<1>3. asked' \in [Resources -> Plans \cup {NoPlan}]
  BY <1>2 DEF IInv, TypeOK, Data
<1> DEFINE made == [name |-> d[r].name, space |-> space, plan |-> asked'[r],
                    tags |-> IF d[r].ups THEN NoTags ELSE d[r].tags,
                    url |-> IF d[r].ups THEN d[r].url ELSE NoUrl, told |-> NoPlan,
                    bound |-> {}]
<1>4. made \in Instance
  <2>1. asked'[r] \in Plans \cup {NoPlan}
    BY <1>3
  <2> QED
    BY <1>2, <2>1, ServicesAssumption
    DEF ServicesAssumption, IInv, TypeOK, Data, Instance
<1>5. PICK a \in Answers, g \in Fresh :
        /\ Answer(a, "post", FoundByName(d[r].name) = {}) /\ Put(a, g, made)
        /\ IF a = "ok" THEN Go(r, "again") ELSE Return(r, "failed")
  BY DEF Post
<1> HIDE DEF made
<1>6. g \in Guids \ live
  BY DEF Fresh
<1>7. /\ live' \subseteq Guids /\ svc' \in [live' -> Instance]
      /\ live' = IF a \in {"ok", "lost"} THEN live \cup {g} ELSE live
      /\ \A h \in live' : svc'[h] = IF a \in {"ok", "lost"} /\ h = g THEN made ELSE svc[h]
  BY <1>4, <1>5, <1>6, PutFacts DEF IInv, TypeOK
<1>8. mishaps' \in 0 .. MaxMishaps
  BY <1>5, AnswerType DEF IInv, TypeOK
<1>9. Proceeds(r)
  BY <1>1, <1>5 DEF Proceeds, Creating
<1>10. Writes /\ \A h \in live : svc'[h] = svc[h]
  <2>1. CASE a \in {"ok", "lost"}
    <3>1. live' = live \cup {g} /\ {g} \in SUBSET Fresh
      BY <1>5, <1>7, <2>1
    <3> QED
      BY <1>6, <1>7, <3>1 DEF Writes
  <2>2. CASE a \notin {"ok", "lost"}
    <3>1. live' = live \cup {} /\ {} \in SUBSET Fresh
      BY <1>7, <2>2
    <3> QED
      BY <1>7, <2>2, <3>1 DEF Writes
  <2> QED
    BY <2>1, <2>2
<1> QED
  BY <1>1, <1>3, <1>7, <1>8, <1>9, <1>10

(* The calls that change an instance: of the resource data, or of nothing.  *)
Changes(r) == PutManaged(r) \/ PutUserProvided(r) \/ Unbind(r)

(* What a call that changes an instance leaves alone.                       *)
LEMMA ChangeFacts ==
  ASSUME IInv, NEW r \in Resources, Changes(r)
  PROVE  /\ pc[r] \notin {"idle", "plan"}
         /\ Kept /\ d' = d /\ space' = space /\ Proceeds(r)
         /\ mishaps' \in 0 .. MaxMishaps /\ asked' = asked
         /\ svc' \in [live -> Instance] /\ live' = live
         /\ \A h \in live : svc'[h].name = svc[h].name /\ svc'[h].space = svc[h].space
<1> DEFINE g == d[r].id
<1>1. TypeOK /\ d[r] \in Data /\ asked[r] \in Plans \cup {NoPlan}
  BY DEF IInv, TypeOK
<1>2. PICK a \in Answers : \E new :
        \/ Put(a, g, new) /\ (a \in {"ok", "lost"} => g \in live /\ new \in Instance
                               /\ new.name = svc[g].name /\ new.space = svc[g].space)
        \/ svc' = svc
  <2>1. CASE PutManaged(r)
    <3>1. PICK a \in Answers :
            /\ Answer(a, "put", g \in live /\ ~IsUserProvided(g))
            /\ Put(a, g, [svc[g] EXCEPT !.tags = d[r].tags, !.told = d[r].upd,
                                        !.plan = IF asked[r] = NoPlan THEN @ ELSE asked[r]])
      BY <2>1 DEF PutManaged
    <3>2. a \in {"ok", "lost"} => g \in live
      BY <3>1 DEF Answer
    <3> DEFINE new == [svc[g] EXCEPT !.tags = d[r].tags, !.told = d[r].upd,
                            !.plan = IF asked[r] = NoPlan THEN svc[g].plan ELSE asked[r]]
    <3>3. ASSUME g \in live
          PROVE  new \in Instance /\ new.name = svc[g].name /\ new.space = svc[g].space
      <4>1. svc[g] \in Instance /\ svc[g].plan \in Plans \cup {NoPlan}
        BY <1>1, <3>3 DEF TypeOK, Instance
      <4>2. d[r].tags \in Tags /\ d[r].upd \in Params
        BY <1>1 DEF Data
      <4>3. (IF asked[r] = NoPlan THEN svc[g].plan ELSE asked[r]) \in Plans \cup {NoPlan}
        BY <1>1, <4>1
      <4> QED
        BY <4>1, <4>2, <4>3 DEF Instance
    <3>4. Put(a, g, new)
      BY <3>1
    <3> QED
      BY <3>2, <3>3, <3>4
  <2>2. CASE PutUserProvided(r)
    <3>1. PICK a \in Answers :
            /\ Answer(a, "putUps", g \in live /\ IsUserProvided(g))
            /\ Put(a, g, [svc[g] EXCEPT !.tags = d[r].tags, !.url = d[r].url])
      BY <2>2 DEF PutUserProvided
    <3>2. a \in {"ok", "lost"} => g \in live
      BY <3>1 DEF Answer
    <3> DEFINE new == [svc[g] EXCEPT !.tags = d[r].tags, !.url = d[r].url]
    <3>3. ASSUME g \in live
          PROVE  new \in Instance /\ new.name = svc[g].name /\ new.space = svc[g].space
      <4>1. svc[g] \in Instance /\ d[r].tags \in Tags /\ d[r].url \in Urls
        BY <1>1, <3>3 DEF TypeOK, Data
      <4> QED
        BY <4>1, UserProvidedType
    <3> QED
      BY <3>1, <3>2, <3>3
  <2>3. CASE Unbind(r)
    <3>1. CASE svc' = svc
      BY <3>1 DEF Answers
    <3>2. CASE svc' # svc
      <4>1. PICK a \in Answers, b \in bindings[r] :
              /\ Answer(a, "unbind", g \in live /\ b \in svc[g].bound)
              /\ Put(a, g, [svc[g] EXCEPT !.bound = @ \ {b}])
        BY <2>3, <3>2 DEF Unbind
      <4>2. a \in {"ok", "lost"} => g \in live
        BY <4>1 DEF Answer
      <4>3. ASSUME g \in live
            PROVE  LET new == [svc[g] EXCEPT !.bound = @ \ {b}]
                   IN /\ new \in Instance
                      /\ new.name = svc[g].name /\ new.space = svc[g].space
        BY <1>1, <4>3 DEF TypeOK, Instance
      <4> QED
        BY <4>1, <4>2, <4>3
    <3> QED
      BY <3>1, <3>2
  <2> QED
    BY <2>1, <2>2, <2>3 DEF Changes
<1>3. /\ svc' \in [live -> Instance] /\ live' = live
      /\ \A h \in live : svc'[h].name = svc[h].name /\ svc'[h].space = svc[h].space
  <2>1. CASE svc' = svc
    BY <1>1, <2>1 DEF TypeOK, live
  <2>2. CASE svc' # svc
    <3>1. PICK new :
            /\ Put(a, g, new)
            /\ a \in {"ok", "lost"} => g \in live /\ new \in Instance
                                 /\ new.name = svc[g].name /\ new.space = svc[g].space
      BY <1>2, <2>2
    <3>2. a \in {"ok", "lost"} => g \in Guids /\ new \in Instance
      BY <1>1, <3>1 DEF TypeOK
    <3>3. /\ svc' \in [live' -> Instance]
          /\ live' = IF a \in {"ok", "lost"} THEN live \cup {g} ELSE live
          /\ \A h \in live' :
               svc'[h] = IF a \in {"ok", "lost"} /\ h = g THEN new ELSE svc[h]
      BY <1>1, <3>1, <3>2, PutFacts DEF TypeOK
    <3>4. live' = live
      BY <3>1, <3>3
    <3> QED
      BY <3>1, <3>3, <3>4
  <2> QED
    BY <2>1, <2>2
<1>4. Kept /\ d' = d /\ space' = space /\ asked' = asked
  <2>1. CASE PutManaged(r) \/ PutUserProvided(r)
    BY <2>1, KeptFacts DEF PutManaged, PutUserProvided
  <2>2. CASE Unbind(r)
    <3>1. UNCHANGED <<cfg, edits, tf, op, d, space, asked>>
      BY <2>2 DEF Unbind, world
    <3>2. bindings' = bindings \/ \E b : bindings' = [bindings EXCEPT ![r] = @ \ {b}]
      BY <2>2 DEF Unbind
    <3>3. bindings' \in [Resources -> SUBSET Apps]
      BY <1>1, <3>2 DEF TypeOK
    <3> QED
      BY <3>1, <3>3 DEF Kept
  <2> QED
    BY <2>1, <2>2 DEF Changes
<1>5. pc[r] \notin {"idle", "plan"} /\ Proceeds(r)
  <2>1. CASE PutManaged(r) \/ PutUserProvided(r)
    <3>1. pc[r] \in Putting /\ op[r] # "delete"
      BY <2>1 DEF PutManaged, PutUserProvided, IInv, OperationKnows, Putting
    <3> QED
      BY <2>1, <3>1 DEF PutManaged, PutUserProvided, Finish, Proceeds, Putting
  <2>2. CASE Unbind(r)
    <3>1. pc[r] = "unbind" /\ op[r] = "delete"
      BY <2>2 DEF Unbind, IInv, OperationKnows, Deleting
    <3> QED
      BY <2>2, <3>1 DEF Unbind, Proceeds, Deleting
  <2> QED
    BY <2>1, <2>2 DEF Changes
<1>6. mishaps' \in 0 .. MaxMishaps
  BY <1>1, AnswerType DEF Changes, PutManaged, PutUserProvided, Unbind, TypeOK
<1> QED
  BY <1>3, <1>4, <1>5, <1>6

(* The calls that make or change an instance keep the invariant,            *)
LEMMA WritesKeep ==
  ASSUME IInv, NEW r \in Resources, Post(r) \/ Changes(r)
  PROVE  IInv'
<1>1. CASE Post(r)
  BY <1>1, PostFacts, WritingKeeps
<1>2. CASE Changes(r)
  <2>1. live' = live \cup {} /\ {} \in SUBSET Fresh
    BY <1>2, ChangeFacts
  <2>2. Writes
    BY <2>1 DEF Writes
  <2>3. asked' \in [Resources -> Plans \cup {NoPlan}] /\ live' \subseteq Guids
        /\ svc' \in [live' -> Instance]
    BY <1>2, ChangeFacts DEF IInv, TypeOK
  <2> QED
    BY <1>2, <2>2, <2>3, ChangeFacts, WritingKeeps
<1> QED
  BY <1>1, <1>2

-----------------------------------------------------------------------------
(* An operation that deletes says so only when the instance is gone.        *)
LEMMA DeleteFacts ==
  ASSUME IInv, NEW r \in Resources, DeleteInstance(r)
  PROVE  /\ op[r] = "delete" /\ Kept /\ d' = d /\ space' = space /\ asked' = asked
         /\ pc' = [pc EXCEPT ![r] = "return"] /\ mishaps' \in 0 .. MaxMishaps
         /\ live' \subseteq live /\ svc' \in [live' -> Instance]
         /\ \A h \in live' : svc'[h] = svc[h]
         /\ \E res \in {"ok", "failed"} :
              /\ result' = [result EXCEPT ![r] = res]
              /\ res = "ok" => d[r].id \notin live'
<1> DEFINE g == d[r].id
<1>1. op[r] = "delete" /\ Kept /\ d' = d /\ space' = space /\ asked' = asked
  BY KeptFacts DEF DeleteInstance, IInv, OperationKnows, Deleting
<1>2. PICK a \in Answers :
        /\ Answer(a, "delete", g \in live /\ svc[g].bound = {})
        /\ svc' = IF a \in {"ok", "lost"} THEN Restrict(svc, live \ {g}) ELSE svc
        /\ Finish(r, a)
  BY DEF DeleteInstance
<1>3. mishaps' \in 0 .. MaxMishaps
  BY <1>2, AnswerType DEF IInv, TypeOK
<1>4. /\ live' = IF a \in {"ok", "lost"} THEN live \ {g} ELSE live
      /\ svc' \in [live' -> Instance] /\ \A h \in live' : svc'[h] = svc[h]
  BY <1>2 DEF IInv, TypeOK, live, Restrict
<1>5. /\ pc' = [pc EXCEPT ![r] = "return"]
      /\ result' = [result EXCEPT ![r] = IF a = "ok" THEN "ok" ELSE "failed"]
  BY <1>2 DEF Finish, Return
<1> QED
  BY <1>1, <1>3, <1>4, <1>5

(* so does the call that deletes it,                                        *)
LEMMA DeleteKeeps ==
  ASSUME IInv, NEW r \in Resources, DeleteInstance(r)
  PROVE  IInv'
<1>1. PICK res \in {"ok", "failed"} :
        /\ result' = [result EXCEPT ![r] = res]
        /\ res = "ok" => d[r].id \notin live'
  BY DeleteFacts
<1>2. /\ op[r] = "delete" /\ Kept /\ d' = d /\ space' = space /\ asked' = asked
      /\ pc' = [pc EXCEPT ![r] = "return"] /\ mishaps' \in 0 .. MaxMishaps
      /\ live' \subseteq live /\ svc' \in [live' -> Instance]
  BY DeleteFacts
<1>3. TypeOK'
  BY <1>1, <1>2 DEF Kept, IInv, TypeOK
<1>4. SpaceIsSet'
  <2>1. pc[r] = "delete"
    BY DEF DeleteInstance
  <2> QED
    BY <1>2, <2>1 DEF IInv, TypeOK, SpaceIsSet
<1>5. ASSUME NEW q \in Resources PROVE OperationKnows(q)'
  <2>1. op'[q] = op[q] /\ tf'[q] = tf[q] /\ d'[q] = d[q] /\ OperationKnows(q)
    BY <1>2 DEF Kept, IInv
  <2>2. CASE q = r
    <3>1. pc'[q] = "return" /\ (result'[q] = "ok" => d[q].id \notin live')
      BY <1>1, <1>2, <2>2 DEF IInv, TypeOK
    <3>2. pc[q] = "delete"
      BY <2>2 DEF DeleteInstance
    <3> QED
      BY <1>2, <2>1, <2>2, <3>1, <3>2 DEF OperationKnows, Creating, Putting, Deleting
  <2>3. CASE q # r
    <3>1. pc'[q] = pc[q] /\ result'[q] = result[q]
      BY <1>1, <1>2, <2>3 DEF IInv, TypeOK
    <3> QED
      BY <1>2, <2>1, <3>1 DEF OperationKnows
  <2> QED
    BY <2>2, <2>3
<1> QED
  BY <1>2, <1>3, <1>4, <1>5 DEF Kept, IInv

(* Terraform keeps the resource data, or that the instance is gone.         *)
LEMMA EndFacts ==
  ASSUME IInv, NEW r \in Resources, EndOperation(r)
  PROVE  /\ pc[r] = "return"
         /\ UNCHANGED <<space, svc, live, cfg, edits, op, d, asked, bindings, result, mishaps>>
         /\ \E p \in {"plan", "idle"} : pc' = [pc EXCEPT ![r] = p]
         /\ \E x \in Data :
              /\ tf' = [tf EXCEPT ![r] = x]
              /\ \/ x.id = d[r].id /\ x.name = d[r].name /\ x.space = d[r].space
                 \/ /\ x.id = NoGuid /\ x.name = cfg[r].name /\ x.space = cfg[r].space
                    /\ op[r] = "delete" /\ result[r] = "ok"
<1> DEFINE gone == op[r] = "delete" /\ result[r] = "ok"
           kept == [d[r] EXCEPT !.tainted = \/ @
                                            \/ /\ op[r] = "create" /\ d[r].id # NoGuid
                                               /\ result[r] = "failed"]
           x == IF gone THEN Planned(r, NoGuid) ELSE kept
<1>1. /\ Planned(r, NoGuid) \in Data /\ Planned(r, NoGuid).id = NoGuid
      /\ Planned(r, NoGuid).name = cfg[r].name /\ Planned(r, NoGuid).space = cfg[r].space
  BY PlannedType DEF IInv, TypeOK
<1>2. d[r] \in Data
  BY DEF IInv, TypeOK
<1>3. /\ kept \in Data
      /\ kept.id = d[r].id /\ kept.name = d[r].name /\ kept.space = d[r].space
  BY <1>2 DEF Data
<1>4. /\ tf' = [tf EXCEPT ![r] = x]
      /\ pc' = [pc EXCEPT ![r] = IF gone THEN "plan" ELSE "idle"]
  BY DEF EndOperation
<1>5. /\ pc[r] = "return"
      /\ UNCHANGED <<space, svc, live, cfg, edits, op, d, asked, bindings, result, mishaps>>
  BY DEF EndOperation, world, live
<1> HIDE DEF kept
<1>6. \E p \in {"plan", "idle"} : pc' = [pc EXCEPT ![r] = p]
  BY <1>4
<1>7. /\ x \in Data
      /\ \/ x.id = d[r].id /\ x.name = d[r].name /\ x.space = d[r].space
         \/ /\ x.id = NoGuid /\ x.name = cfg[r].name /\ x.space = cfg[r].space
            /\ op[r] = "delete" /\ result[r] = "ok"
  BY <1>1, <1>3
<1> HIDE DEF x
<1> QED
  BY <1>4, <1>5, <1>6, <1>7

(* the end of an operation,                                                 *)
LEMMA EndKeeps ==
  ASSUME IInv, NEW r \in Resources, EndOperation(r)
  PROVE  IInv'
<1>1. PICK x \in Data : tf' = [tf EXCEPT ![r] = x]
  BY EndFacts
<1>2. PICK p \in {"plan", "idle"} : pc' = [pc EXCEPT ![r] = p]
  BY EndFacts
<1>3. /\ pc[r] = "return"
      /\ UNCHANGED <<space, svc, live, cfg, edits, op, d, asked, bindings, result, mishaps>>
  BY EndFacts
<1>4. TypeOK'
  BY <1>1, <1>2, <1>3 DEF IInv, TypeOK
<1>5. SpaceIsSet'
  BY <1>2, <1>3 DEF IInv, TypeOK, SpaceIsSet
<1>6. ASSUME NEW q \in Resources PROVE OperationKnows(q)'
  <2>1. CASE q = r
    <3>1. pc'[q] \in {"plan", "idle"}
      BY <1>2, <2>1 DEF IInv, TypeOK
    <3> QED
      BY <3>1 DEF OperationKnows, Creating, Putting, Deleting
  <2>2. CASE q # r
    <3>1. pc'[q] = pc[q] /\ tf'[q] = tf[q] /\ OperationKnows(q)
      BY <1>1, <1>2, <2>2 DEF IInv, TypeOK
    <3> QED
      BY <1>3, <3>1 DEF OperationKnows
  <2> QED
    BY <2>1, <2>2
<1> QED
  BY <1>3, <1>4, <1>5, <1>6 DEF IInv

(* What the operator and others do. *)
LEMMA BindFacts ==
  ASSUME IInv, NEW g \in live, NEW b \in Apps, Bind(g, b)
  PROVE  /\ svc' \in [live -> Instance] /\ live' = live /\ edits' \in 0 .. MaxEdits
         /\ \A h \in live : svc'[h].name = svc[h].name /\ svc'[h].space = svc[h].space
         /\ UNCHANGED <<space, cfg, tf, op, pc, d, asked, bindings, result, mishaps>>
<1>1. svc' = [svc EXCEPT ![g] = [svc[g] EXCEPT !.bound = @ \cup {b}]]
  BY DEF Bind
<1>2. svc \in [live -> Instance] /\ svc[g].bound \cup {b} \in SUBSET Apps
  BY DEF IInv, TypeOK, Instance
<1> DEFINE new == [svc[g] EXCEPT !.bound = @ \cup {b}]
<1>3. new \in Instance /\ new.name = svc[g].name /\ new.space = svc[g].space
  BY <1>2, BoundType
<1> HIDE DEF new
<1>4. /\ svc' \in [live -> Instance] /\ live' = live
      /\ \A h \in live : svc'[h] = IF h = g THEN new ELSE svc[h]
  BY <1>1, <1>2, <1>3 DEF live, new
<1>5. edits' \in 0 .. MaxEdits
  BY ServicesAssumption DEF ServicesAssumption, Bind, IInv, TypeOK
<1>6. UNCHANGED <<space, cfg, tf, op, pc, d, asked, bindings, result, mishaps>>
  BY DEF Bind, mine
<1> QED
  BY <1>3, <1>4, <1>5, <1>6

(* and what others do.                                                      *)
LEMMA OthersKeep ==
  ASSUME IInv, \/ \E r \in Resources : Edit(r)
               \/ \E g \in live, b \in Apps : Bind(g, b)
  PROVE  IInv'
<1>1. ASSUME NEW r \in Resources, Edit(r) PROVE IInv'
  <2>1. /\ \A q \in Resources : pc[q] = "idle"
        /\ UNCHANGED <<space, svc, live, tf, op, pc, d, asked, bindings, result, mishaps>>
        /\ edits' \in 0 .. MaxEdits
    BY <1>1, ServicesAssumption DEF ServicesAssumption, Edit, mine, live, IInv, TypeOK
  <2>2. PICK c \in Configs[r] : cfg' = [cfg EXCEPT ![r] = c]
    BY <1>1 DEF Edit
  <2>3. c \in Config
    BY ServicesAssumption DEF ServicesAssumption
  <2>4. TypeOK'
    BY <2>1, <2>2, <2>3 DEF IInv, TypeOK
  <2>5. \A q \in Resources : cfg'[q] \in Configs[q]
    BY <2>2 DEF IInv, TypeOK
  <2> QED
    BY <2>1, <2>4, <2>5 DEF IInv, SpaceIsSet, OperationKnows, Creating, Putting, Deleting
<1>2. ASSUME NEW g \in live, NEW b \in Apps, Bind(g, b) PROVE IInv'
  <2>1. TypeOK'
    BY <1>2, BindFacts DEF IInv, TypeOK
  <2>2. /\ live' = live /\ UNCHANGED <<space, cfg, tf, op, pc, d, asked, bindings, result, mishaps>>
    BY <1>2, BindFacts
  <2> QED
    BY <2>1, <2>2 DEF IInv, SpaceIsSet, OperationKnows
<1> QED
  BY <1>1, <1>2

(* Every step keeps the invariant:                                          *)
LEMMA Inductive == IInv /\ [Next]_vars => IInv'
<1>1. ASSUME IInv, UNCHANGED vars PROVE IInv'
  <2>1. /\ UNCHANGED <<space, svc, live, cfg, tf, pc, op, d, asked, bindings, result, edits,
                   mishaps>>
    BY <1>1 DEF vars, live
  <2> QED
    BY <1>1, <2>1 DEF IInv, TypeOK, SpaceIsSet, OperationKnows
<1>2. ASSUME IInv, NEW r \in Resources, Operation(r) PROVE IInv'
  BY <1>2, BeginKeeps, ReadsKeep, WritesKeep, DeleteKeeps, EndKeeps
  DEF Operation, Reads, Changes
<1> QED
  BY <1>1, <1>2, RefreshKeeps, OthersKeep DEF Next

(* it holds in every reachable state.                                       *)
THEOREM Invariance == Spec => []IInv
  BY InitInv, Inductive, PTL DEF Spec

(* What the variables range over, for any constants. *)
THEOREM TypeCorrect == Spec => []TypeOK
  BY Invariance, PTL DEF IInv

-----------------------------------------------------------------------------
(* Only a refresh and the end of an operation change what the state holds.  *)
LEMMA OthersKeepState ==
  ASSUME IInv,
         \/ UNCHANGED vars
         \/ \E r \in Resources :
              \/ NothingToDo(r) \/ Create(r) \/ Update(r) \/ Delete(r) \/ Reads(r)
              \/ Post(r) \/ Changes(r) \/ DeleteInstance(r) \/ Edit(r)
         \/ \E g \in live, b \in Apps : Bind(g, b)
  PROVE  tf' = tf
  BY DEF vars, NothingToDo, Create, Update, Delete, Begin, Reads, Find, FindAgain, Found,
         SetAgain, Compare, Get, List, Post, Changes, PutManaged, PutUserProvided, Unbind,
         DeleteInstance, Edit, Bind, mine

(* Terraform's state lets go of an instance only when the instance is gone, *)
(* whichever call failed or lost its answer, and whatever other resources   *)
(* did meanwhile (services.go:212, 220).                                    *)
THEOREM InstancesAreKept == Spec => NeverForgets
<1> DEFINE Keeps == \A r \in Resources : Held(r) /\ tf'[r].id # tf[r].id => tf[r].id \notin live'
<1>1. ASSUME IInv, Refresh PROVE Keeps
  <2>1. \A r \in Resources : tf[r] \in Data /\ tf'[r] = Read(tf[r])
    BY <1>1 DEF IInv, TypeOK, Refresh
  <2> QED
    BY <1>1, <2>1, ReadFacts DEF IInv, TypeOK, Held
<1>2. ASSUME IInv, NEW r \in Resources, EndOperation(r) PROVE Keeps
  <2>1. PICK x \in Data :
          /\ tf' = [tf EXCEPT ![r] = x]
          /\ \/ x.id = d[r].id
             \/ op[r] = "delete" /\ result[r] = "ok"
    BY <1>2, EndFacts
  <2>2. pc[r] = "return" /\ live' = live /\ OperationKnows(r)
    BY <1>2, EndFacts DEF IInv
  <2>3. NoGuid \notin live
    BY <1>2, ServicesAssumption DEF ServicesAssumption, IInv, TypeOK
  <2>4. op[r] \in {"create", "update", "delete"}
    BY <1>2 DEF IInv, TypeOK
  <2>5. tf'[r] = x /\ \A q \in Resources \ {r} : tf'[q] = tf[q]
    BY <1>2, <2>1 DEF IInv, TypeOK
  <2>6. Held(r) /\ x.id # tf[r].id => tf[r].id \notin live'
    BY <2>1, <2>2, <2>3, <2>4 DEF OperationKnows, Held
  <2> QED
    BY <2>5, <2>6
<1>3. ASSUME IInv, [Next]_vars PROVE [Keeps]_vars
  <2>1. ASSUME tf' = tf PROVE Keeps
    BY <2>1
  <2> HIDE DEF Keeps
  <2> QED
    BY <1>1, <1>2, <1>3, <2>1, OthersKeepState DEF Next, Operation, Reads, Changes
<1> QED
  BY <1>3, Invariance, PTL DEF Spec, NeverForgets

-----------------------------------------------------------------------------
(* Names. In a refresh the names are those that the instances have.         *)
LEMMA InitNames == Init => NamesKept
<1> SUFFICES ASSUME Init PROVE NamesKept
  OBVIOUS
<1>1. IInv
  BY InitInv
<1>2. \A r \in Resources : tf[r] = Planned(r, NoGuid) /\ d[r] = tf[r]
  BY DEF Init
<1>3. NoGuid \notin live
  BY <1>1, ServicesAssumption DEF ServicesAssumption, IInv, TypeOK
<1> QED
  BY <1>1, <1>2, <1>3, PlannedType DEF NamesKept, IInv, TypeOK

(* A step keeps the names when every instance keeps its name and space, or  *)
(* is new to all, and the resources hold what they held.                    *)
LEMMA NamesStay ==
  ASSUME IInv, NamesKept,
         \A q \in Resources : cfg'[q].name = cfg[q].name
                           /\ tf'[q].id \in {tf[q].id, d[q].id, NoGuid}
                           /\ d'[q].id \in {tf[q].id, d[q].id, NoGuid}
                           /\ tf'[q].name = cfg[q].name /\ d'[q].name = cfg[q].name,
         NoGuid \notin live',
         \A h \in live : h \in live' => svc'[h].name = svc[h].name /\ svc'[h].space = svc[h].space,
         \A q \in Resources : /\ tf[q].id \notin live => tf[q].id \notin live'
                              /\ d[q].id \notin live => d[q].id \notin live'
  PROVE  NamesKept'
<1> SUFFICES ASSUME NEW q \in Resources
             PROVE  /\ tf'[q].name = cfg'[q].name /\ d'[q].name = cfg'[q].name
                    /\ \A g \in live' : g = tf'[q].id \/ g = d'[q].id =>
                         svc'[g].name = cfg'[q].name /\ svc'[g].space # NoSpace
  BY DEF NamesKept
<1>1. ASSUME NEW g \in live', g = tf'[q].id \/ g = d'[q].id
      PROVE  svc'[g].name = cfg'[q].name /\ svc'[g].space # NoSpace
  <2>1. g \in live /\ (g = tf[q].id \/ g = d[q].id)
    BY <1>1
  <2>2. svc[g].name = cfg[q].name /\ svc[g].space # NoSpace
    BY <2>1 DEF NamesKept
  <2> QED
    BY <1>1, <2>1, <2>2
<1> QED
  BY <1>1

(* Names are kept by every step.                                            *)
LEMMA NamesInductive ==
  ASSUME OneName, IInv, IInv', NamesKept, [Next]_vars
  PROVE  NamesKept'
<1> DEFINE Same(q) == tf'[q] = tf[q] /\ d'[q] = d[q] /\ cfg'[q] = cfg[q]
<1>1. /\ NoGuid \notin live /\ NoGuid \notin live'
      /\ \A q \in Resources : tf[q].name = cfg[q].name /\ d[q].name = cfg[q].name
  BY ServicesAssumption DEF ServicesAssumption, IInv, TypeOK, NamesKept
<1>2. CASE UNCHANGED vars
  BY <1>1, <1>2, NamesStay DEF vars, live
<1>3. CASE Refresh
  <2>1. /\ \A q \in Resources : tf'[q] = Read(tf[q]) /\ tf[q] \in Data
        /\ UNCHANGED <<svc, live, cfg, d>>
    BY <1>3 DEF Refresh, world, IInv, TypeOK, live
  <2>2. \A q \in Resources : /\ tf'[q].id \in {tf[q].id, NoGuid}
                             /\ tf'[q].name = cfg[q].name
    BY <1>1, <2>1, ReadFacts DEF IInv, TypeOK, NamesKept
  <2> QED
    BY <1>1, <2>1, <2>2, NamesStay
<1>4. ASSUME NEW r \in Resources, NothingToDo(r) \/ Create(r) \/ Update(r) \/ Delete(r)
      PROVE  NamesKept'
  <2>1. UNCHANGED <<svc, live, cfg, tf>>
    BY <1>4 DEF NothingToDo, Create, Update, Delete, Begin, world, mine, live
  <2>2. d' = d \/ \E x : /\ d' = [d EXCEPT ![r] = x] /\ x.name = cfg[r].name
                         /\ x.id \in {tf[r].id, NoGuid}
    <3>1. /\ Planned(r, NoGuid).name = cfg[r].name /\ Planned(r, NoGuid).id = NoGuid
          /\ Planned(r, tf[r].id).name = cfg[r].name /\ Planned(r, tf[r].id).id = tf[r].id
      BY DEF Planned
    <3> QED
      BY <1>1, <1>4, <3>1 DEF NothingToDo, Create, Update, Delete, Begin
  <2>3. \A q \in Resources : d'[q].id \in {tf[q].id, d[q].id, NoGuid} /\ d'[q].name = cfg[q].name
    BY <1>1, <2>2 DEF IInv, TypeOK
  <2> QED
    BY <1>1, <2>1, <2>3, NamesStay
<1>5. ASSUME NEW r \in Resources, Find(r) \/ FindAgain(r) PROVE NamesKept'
  <2>1. UNCHANGED <<svc, live, cfg, tf>> /\ pc[r] \in {"find", "findAgain"}
    BY <1>5 DEF Find, FindAgain, Found, world, mine, live
  <2>2. CASE d' = d
    BY <1>1, <2>1, <2>2, NamesStay
  <2>3. CASE d' # d
    <3>1. PICK g \in FoundByName(d[r].name) : d' = [d EXCEPT ![r].id = g]
      BY <1>5, <2>3 DEF Find, FindAgain, Found
    <3>2. /\ g \in live /\ svc[g].name = cfg[r].name /\ svc[g].space # NoSpace
      BY <1>1, <2>1, <3>1 DEF FoundByName, IInv, SpaceIsSet
    <3>3. /\ d'[r].id = g /\ d'[r].name = cfg[r].name
          /\ \A q \in Resources \ {r} : d'[q] = d[q]
      BY <1>1, <3>1, <3>2, IdType DEF IInv, TypeOK
    <3> QED
      BY <2>1, <3>2, <3>3 DEF NamesKept
  <2> QED
    BY <2>2, <2>3
<1>6. ASSUME NEW r \in Resources, SetAgain(r) \/ Compare(r) \/ List(r) PROVE NamesKept'
  <2>1. UNCHANGED <<svc, live, cfg, tf, d>>
    BY <1>6 DEF SetAgain, Compare, List, world, mine, live
  <2> QED
    BY <1>1, <2>1, NamesStay
<1>7. ASSUME NEW r \in Resources, Get(r) PROVE NamesKept'
  <2>1. UNCHANGED <<svc, live, cfg, tf>> /\ (d' = d \/ d' = [d EXCEPT ![r].id = NoGuid])
    BY <1>7 DEF Get, world, mine, live
  <2>2. \A q \in Resources : d'[q].id \in {tf[q].id, d[q].id, NoGuid} /\ d'[q].name = cfg[q].name
    <3>1. CASE d' = d
      BY <1>1, <3>1
    <3>2. CASE d' = [d EXCEPT ![r].id = NoGuid]
      BY <1>1, <3>2, IdType DEF IInv, TypeOK
    <3> QED
      BY <2>1, <3>1, <3>2
  <2> QED
    BY <1>1, <2>1, <2>2, NamesStay
<1>8. ASSUME NEW r \in Resources, Post(r) PROVE NamesKept'
  <2>1. /\ cfg' = cfg /\ tf' = tf /\ d' = d /\ \A h \in live : svc'[h] = svc[h]
    BY <1>8, PostFacts DEF Kept
  <2>2. \A q \in Resources : /\ tf[q].id \notin live => tf[q].id \notin live'
                             /\ d[q].id \notin live => d[q].id \notin live'
    <3>1. \A q \in Resources : tf[q].id \notin Fresh /\ d[q].id \notin Fresh
      BY DEF Fresh
    <3> QED
      BY <1>8, <3>1, PostFacts DEF Writes
  <2> QED
    BY <1>1, <2>1, <2>2, NamesStay
<1>9. ASSUME NEW r \in Resources, Changes(r) PROVE NamesKept'
  <2>1. /\ cfg' = cfg /\ tf' = tf /\ d' = d /\ live' = live
        /\ \A h \in live : svc'[h].name = svc[h].name /\ svc'[h].space = svc[h].space
    BY <1>9, ChangeFacts DEF Kept
  <2> QED
    BY <1>1, <2>1, NamesStay
<1>10. ASSUME NEW r \in Resources, DeleteInstance(r) PROVE NamesKept'
  <2>1. /\ cfg' = cfg /\ tf' = tf /\ d' = d /\ live' \subseteq live
        /\ \A h \in live' : svc'[h] = svc[h]
    BY <1>10, DeleteFacts DEF Kept
  <2> QED
    BY <1>1, <2>1, NamesStay
<1>11. ASSUME NEW r \in Resources, EndOperation(r) PROVE NamesKept'
  <2>1. PICK x \in Data :
          /\ tf' = [tf EXCEPT ![r] = x]
          /\ \/ x.id = d[r].id /\ x.name = d[r].name
             \/ x.id = NoGuid /\ x.name = cfg[r].name
    BY <1>11, EndFacts
  <2>2. UNCHANGED <<svc, live, cfg, d>>
    BY <1>11, EndFacts
  <2>3. \A q \in Resources : tf'[q].id \in {tf[q].id, d[q].id, NoGuid} /\ tf'[q].name = cfg[q].name
    BY <1>1, <2>1 DEF IInv, TypeOK
  <2> QED
    BY <1>1, <2>2, <2>3, NamesStay
<1>12. ASSUME NEW r \in Resources, Edit(r) PROVE NamesKept'
  <2>1. UNCHANGED <<svc, live, tf, d>>
    BY <1>12 DEF Edit, mine, live
  <2>2. \A q \in Resources : cfg'[q].name = cfg[q].name
    BY DEF IInv, OneName
  <2> QED
    BY <1>1, <2>1, <2>2, NamesStay
<1>13. ASSUME NEW g \in live, NEW b \in Apps, Bind(g, b) PROVE NamesKept'
  <2>1. /\ cfg' = cfg /\ tf' = tf /\ d' = d /\ live' = live
        /\ \A h \in live : svc'[h].name = svc[h].name /\ svc'[h].space = svc[h].space
    BY <1>13, BindFacts
  <2> QED
    BY <1>1, <2>1, NamesStay
<1> QED
  BY <1>2, <1>3, <1>4, <1>5, <1>6, <1>7, <1>8, <1>9, <1>10, <1>11, <1>12, <1>13
  DEF Next, Operation, Changes

(* When a resource always has the same name, its instance has that name and *)
(* is in a space, although other operations set the space that names are    *)
(* looked up in (terraform_repository.go SetSpaceFields).                   *)
THEOREM NamesAreOwn ==
  ASSUME OneName PROVE Spec => []OwnName
<1>1. Spec => [](IInv /\ NamesKept)
  BY InitInv, Inductive, InitNames, NamesInductive, PTL DEF Spec
<1>2. NamesKept => OwnName
  BY DEF NamesKept, OwnName, Held
<1> QED
  BY <1>1, <1>2, PTL

(* When no two resources have the same name they share no instance.         *)
THEOREM NothingIsShared ==
  ASSUME OneName, OtherNames PROVE Spec => []NotShared
<1>1. Spec => [](IInv /\ NamesKept)
  BY InitInv, Inductive, InitNames, NamesInductive, PTL DEF Spec
<1>2. IInv /\ NamesKept => NotShared
  BY DEF IInv, NamesKept, OtherNames, NotShared, Held
<1> QED
  BY <1>1, <1>2, PTL

-----------------------------------------------------------------------------
(* The instances of resources that are all of one space.                    *)
OneSpace(home) == \A r \in Resources : \A c \in Configs[r] : c.space = home

(* The setting is that space as soon as an operation set it, and what a     *)
(* resource holds, or is about to, is in it.                                *)
AtHome(home) ==
  /\ space \in {NoSpace, home}
  /\ \A r \in Resources :
       /\ tf[r].space = home /\ d[r].space = home
       /\ \A g \in live : g = tf[r].id \/ g = d[r].id => svc[g].space = home

(* Every resource starts in the space of its own,                           *)
LEMMA InitAtHome ==
  ASSUME NEW home, OneSpace(home), Init
  PROVE  AtHome(home)
<1>1. IInv
  BY InitInv
<1>2. \A r \in Resources : /\ tf[r] = Planned(r, NoGuid) /\ d[r] = tf[r]
                           /\ cfg[r].space = home
  BY <1>1 DEF Init, IInv, OneSpace
<1>3. NoGuid \notin live
  BY <1>1, ServicesAssumption DEF ServicesAssumption, IInv, TypeOK
<1>4. space = NoSpace
  BY DEF Init
<1> QED
  BY <1>1, <1>2, <1>3, <1>4, PlannedType DEF AtHome, IInv, TypeOK

(* A step stays at home when every instance keeps its space, or is new to   *)
(* all, and the resources hold what they held.                              *)
LEMMA HomeStays ==
  ASSUME NEW home, IInv, AtHome(home), NoGuid \notin live',
         space' \in {space, home},
         \A q \in Resources : /\ tf'[q].id \in {tf[q].id, d[q].id, NoGuid}
                              /\ d'[q].id \in {tf[q].id, d[q].id, NoGuid}
                              /\ tf'[q].space = home /\ d'[q].space = home,
         \A h \in live : h \in live' => svc'[h].space = svc[h].space,
         \A q \in Resources : /\ tf[q].id \notin live => tf[q].id \notin live'
                              /\ d[q].id \notin live => d[q].id \notin live'
  PROVE  AtHome(home)'
<1>1. ASSUME NEW q \in Resources, NEW g \in live', g = tf'[q].id \/ g = d'[q].id
      PROVE  svc'[g].space = home
  <2>1. g \in live /\ (g = tf[q].id \/ g = d[q].id)
    BY <1>1
  <2>2. svc[g].space = home
    BY <2>1 DEF AtHome
  <2> QED
    BY <1>1, <2>1, <2>2
<1>2. space' \in {NoSpace, home}
  BY DEF AtHome
<1> QED
  BY <1>1, <1>2 DEF AtHome

(* and is kept there by every step of any of them.                          *)
LEMMA HomeInductive ==
  ASSUME NEW home, OneSpace(home), IInv, IInv', AtHome(home), [Next]_vars
  PROVE  AtHome(home)'
<1>1. /\ NoGuid \notin live /\ NoGuid \notin live'
      /\ \A q \in Resources : /\ tf[q].space = home /\ d[q].space = home
                              /\ cfg[q].space = home
  BY ServicesAssumption DEF ServicesAssumption, IInv, TypeOK, AtHome, OneSpace
<1>2. CASE UNCHANGED vars
  BY <1>1, <1>2, HomeStays DEF vars, live
<1>3. CASE Refresh
  <2>1. /\ \A q \in Resources : tf'[q] = Read(tf[q]) /\ tf[q] \in Data
        /\ UNCHANGED <<svc, live, d>>
    BY <1>3 DEF Refresh, world, IInv, TypeOK, live
  <2>2. \A q \in Resources : tf'[q].id \in {tf[q].id, NoGuid} /\ tf'[q].space = home
    BY <1>1, <2>1, ReadFacts DEF IInv, TypeOK
  <2>3. space' = home
    BY <1>1, <1>3 DEF Refresh, SetSpaceFields
  <2> QED
    BY <1>1, <2>1, <2>2, <2>3, HomeStays
<1>4. ASSUME NEW r \in Resources, NothingToDo(r) \/ Create(r) \/ Update(r) \/ Delete(r)
      PROVE  AtHome(home)'
  <2>1. UNCHANGED <<svc, live, tf>>
    BY <1>4 DEF NothingToDo, Create, Update, Delete, Begin, world, mine, live
  <2>2. d' = d \/ \E x : /\ d' = [d EXCEPT ![r] = x] /\ x.space = home
                         /\ x.id \in {tf[r].id, NoGuid}
    <3>1. /\ Planned(r, NoGuid).space = cfg[r].space /\ Planned(r, NoGuid).id = NoGuid
          /\ Planned(r, tf[r].id).space = cfg[r].space /\ Planned(r, tf[r].id).id = tf[r].id
      BY DEF Planned
    <3> QED
      BY <1>1, <1>4, <3>1 DEF NothingToDo, Create, Update, Delete, Begin
  <2>3. \A q \in Resources : d'[q].id \in {tf[q].id, d[q].id, NoGuid} /\ d'[q].space = home
    BY <1>1, <2>2 DEF IInv, TypeOK
  <2>4. space' \in {space, home}
    BY <1>1, <1>4 DEF NothingToDo, Create, Update, Delete, SetSpaceFields
  <2> QED
    BY <1>1, <2>1, <2>3, <2>4, HomeStays
<1>5. ASSUME NEW r \in Resources, Find(r) \/ FindAgain(r) PROVE AtHome(home)'
  <2>1. UNCHANGED <<space, svc, live, tf>> /\ pc[r] \in {"find", "findAgain"}
    BY <1>5 DEF Find, FindAgain, Found, world, mine, live
  <2>2. CASE d' = d
    BY <1>1, <2>1, <2>2, HomeStays
  <2>3. CASE d' # d
    <3>1. PICK g \in FoundByName(d[r].name) : d' = [d EXCEPT ![r].id = g]
      BY <1>5, <2>3 DEF Find, FindAgain, Found
    <3>2. space = home
      BY <2>1 DEF AtHome, IInv, SpaceIsSet
    <3>3. g \in live /\ svc[g].space = home
      BY <3>1, <3>2 DEF FoundByName
    <3>4. /\ d'[r].id = g /\ d'[r].space = home
          /\ \A q \in Resources \ {r} : d'[q] = d[q]
      BY <1>1, <3>1, <3>3, IdType DEF IInv, TypeOK
    <3> QED
      BY <2>1, <3>3, <3>4 DEF AtHome
  <2> QED
    BY <2>2, <2>3
<1>6. ASSUME NEW r \in Resources, SetAgain(r) \/ Compare(r) \/ List(r) PROVE AtHome(home)'
  <2>1. UNCHANGED <<svc, live, tf, d>> /\ space' \in {space, home}
    BY <1>1, <1>6 DEF SetAgain, Compare, List, SetSpaceFields, world, mine, live
  <2> QED
    BY <1>1, <2>1, HomeStays
<1>7. ASSUME NEW r \in Resources, Get(r) PROVE AtHome(home)'
  <2>1. UNCHANGED <<space, svc, live, tf>> /\ (d' = d \/ d' = [d EXCEPT ![r].id = NoGuid])
    BY <1>7 DEF Get, world, mine, live
  <2>2. \A q \in Resources : d'[q].id \in {tf[q].id, d[q].id, NoGuid} /\ d'[q].space = home
    <3>1. CASE d' = d
      BY <1>1, <3>1
    <3>2. CASE d' = [d EXCEPT ![r].id = NoGuid]
      BY <1>1, <3>2, IdType DEF IInv, TypeOK
    <3> QED
      BY <2>1, <3>1, <3>2
  <2> QED
    BY <1>1, <2>1, <2>2, HomeStays
<1>8. ASSUME NEW r \in Resources, Post(r) PROVE AtHome(home)'
  <2>1. /\ space' = space /\ tf' = tf /\ d' = d /\ \A h \in live : svc'[h] = svc[h]
    BY <1>8, PostFacts DEF Kept
  <2>2. \A q \in Resources : /\ tf[q].id \notin live => tf[q].id \notin live'
                             /\ d[q].id \notin live => d[q].id \notin live'
    <3>1. \A q \in Resources : tf[q].id \notin Fresh /\ d[q].id \notin Fresh
      BY DEF Fresh
    <3> QED
      BY <1>8, <3>1, PostFacts DEF Writes
  <2> QED
    BY <1>1, <2>1, <2>2, HomeStays
<1>9. ASSUME NEW r \in Resources, Changes(r) \/ DeleteInstance(r) PROVE AtHome(home)'
  <2>1. /\ space' = space /\ tf' = tf /\ d' = d /\ live' \subseteq live
        /\ \A h \in live' : svc'[h].space = svc[h].space
    BY <1>9, ChangeFacts, DeleteFacts DEF Kept
  <2> QED
    BY <1>1, <2>1, HomeStays
<1>10. ASSUME NEW r \in Resources, EndOperation(r) PROVE AtHome(home)'
  <2>1. PICK x \in Data :
          /\ tf' = [tf EXCEPT ![r] = x]
          /\ \/ x.id = d[r].id /\ x.space = d[r].space
             \/ x.id = NoGuid /\ x.space = cfg[r].space
    BY <1>10, EndFacts
  <2>2. UNCHANGED <<space, svc, live, d>>
    BY <1>10, EndFacts
  <2>3. \A q \in Resources : tf'[q].id \in {tf[q].id, d[q].id, NoGuid} /\ tf'[q].space = home
    BY <1>1, <2>1 DEF IInv, TypeOK
  <2> QED
    BY <1>1, <2>2, <2>3, HomeStays
<1>11. ASSUME NEW r \in Resources, Edit(r) PROVE AtHome(home)'
  <2>1. UNCHANGED <<space, svc, live, tf, d>>
    BY <1>11 DEF Edit, mine, live
  <2> QED
    BY <1>1, <2>1, HomeStays
<1>12. ASSUME NEW g \in live, NEW b \in Apps, Bind(g, b) PROVE AtHome(home)'
  <2>1. /\ space' = space /\ tf' = tf /\ d' = d /\ live' = live
        /\ \A h \in live : svc'[h].space = svc[h].space
    BY <1>12, BindFacts
  <2> QED
    BY <1>1, <2>1, HomeStays
<1> QED
  BY <1>2, <1>3, <1>4, <1>5, <1>6, <1>7, <1>8, <1>9, <1>10, <1>11, <1>12
  DEF Next, Operation, Changes

(* The resources of one space hold instances of that space, whatever is     *)
(* named like them elsewhere, fails or runs at the same time. (Resources of *)
(* two spaces do not: see the run services_space.)                          *)
THEOREM InstancesAreAtHome ==
  ASSUME NEW home, OneSpace(home) PROVE Spec => []InItsSpace
<1>1. Spec => [](IInv /\ AtHome(home))
  BY InitInv, Inductive, InitAtHome, HomeInductive, PTL DEF Spec
<1>2. AtHome(home) => InItsSpace
  BY DEF AtHome, InItsSpace, Held
<1> QED
  BY <1>1, <1>2, PTL
=============================================================================
