----------------------------- MODULE AppsProofs -----------------------------
(***************************************************************************)
(* Proofs about Apps, for all values of its constants: an update replaces  *)
(* an application only by one that is ready, a rollback that reports       *)
(* success restored the original, a deployment does not take it out of     *)
(* service, and after failures that leave one application to return to,    *)
(* Terraform finds out what is left to do.                                 *)
(***************************************************************************)
EXTENDS Apps, TLAPS

AfterCreate == {"routes", "services", "upload", "localSha", "remoteSha",
                "copyBits", "start", "staging", "running", "deleteOrig"}
WithBits == {"localSha", "remoteSha", "start", "staging", "running", "deleteOrig"}

(* Instances come up only of what is started, staged and has instances.     *)
UpIsStarted ==
  \A g \in live : app[g].up # "down" =>
    app[g].state = "STARTED" /\ app[g].pkg = "STAGED" /\ app[g].inst > 0

(* Which application an operation is about: until the replacement is made   *)
(* the original, and then another one.                                      *)
TargetLive ==
  /\ pc = "plan" /\ tf.id # NoGuid => tf.id \in live
  /\ pc \in AfterCreate \cup {"stop", "params", "attrs"} => d.id \in live
  /\ pc \in {"rename", "deleteOrig", "revDelete", "revRename"} => kind \in BlueGreen
  /\ pc \in Calls /\ kind \in BlueGreen =>
       /\ pc \in {"rename", "create"} => d.id = orig
       /\ pc \in AfterCreate => d.id # orig
       /\ pc # "revRename" => orig \in live
       /\ pc = "revRename" /\ d.id # orig => orig \in live
  /\ pc \in {"stop", "params", "attrs"} => kind \notin BlueGreen
  /\ pc \in {"upload", "localSha", "remoteSha"} => kind # "bgRestage"
  /\ pc = "copyBits" => kind = "bgRestage"
  /\ pc \in Calls /\ kind \in {"routes", "attrs"} => pc = kind

(* The replacement, call after call. *)
ReplacementGrows ==
  kind \in BlueGreen /\ pc \in AfterCreate =>
    LET a == app[d.id]
    IN /\ a.name = d.name /\ a.inst = d.inst /\ a.par = d.par
       /\ a.routes \subseteq d.routes /\ (pc # "routes" => a.routes = d.routes)
       /\ a.svcs \subseteq d.svcs
       /\ pc \notin {"routes", "services"} => a.svcs = d.svcs
       /\ pc \in WithBits => a.bits # NoBits
       /\ pc \in WithBits /\ kind = "bgRestage" => a.bits = app[orig].bits
       /\ pc \notin {"staging", "running", "deleteOrig"} => a.state = "STOPPED"
       /\ pc \in {"staging", "running"} => a.state = "STARTED" /\ d.started
       /\ pc = "start" /\ kind = "bgDeploy" => d.started
       /\ pc = "running" => a.pkg = "STAGED"

(* What the reverse may leave of the replacement has the configured name.   *)
ReplacementName ==
  pc \in {"revDelete", "revRename"} /\ d.id # orig /\ d.id \in live =>
    app[d.id].name = d.name

IInv == /\ TypeOK /\ UpIsStarted /\ TargetLive /\ ReplacementGrows
        /\ ReplacementReady /\ ReplacementName /\ RollbackRestores

-----------------------------------------------------------------------------
(* What Settle changes of an application, and that it keeps UpIsStarted.    *)
LEMMA SettleFacts ==
  ASSUME NEW a \in App
  PROVE  /\ Settle(a) \in App
         /\ Settle(a).name = a.name /\ Settle(a).inst = a.inst
         /\ Settle(a).par = a.par /\ Settle(a).state = a.state
         /\ Settle(a).pkg = a.pkg /\ Settle(a).bits = a.bits
         /\ Settle(a).routes = a.routes /\ Settle(a).svcs = a.svcs
         /\ Settle(a).up # "down" =>
              a.state = "STARTED" /\ a.pkg = "STAGED" /\ a.inst > 0
         /\ a.up = "running" /\ a.state = "STARTED" /\ a.pkg = "STAGED" /\ a.inst > 0
              => Settle(a).up = "running"
  BY DEF Settle, App

(* A call changes the application it is about, or none. *)
LEMMA EffectFacts ==
  ASSUME app \in [live -> App], NEW a, NEW g, NEW new, Effect(a, g, new),
         a \in {"ok", "lost"} /\ g \in live => new \in App
  PROVE  /\ live' = live /\ app' \in [live -> App]
         /\ \A h \in live : app'[h] = IF a \in {"ok", "lost"} /\ h = g
                                      THEN new ELSE app[h]
  BY DEF Effect, live

(* A deletion removes the application it is about, or nothing.              *)
LEMMA DeleteFacts ==
  ASSUME app \in [live -> App], NEW a, NEW g, DeleteApp(a, g)
  PROVE  /\ live' = IF a \in {"ok", "lost"} THEN live \ {g} ELSE live
         /\ app' \in [live' -> App]
         /\ \A h \in live' : app'[h] = app[h]
  BY DEF DeleteApp, live, Restrict

(* The resource data of a plan is well formed. *)
LEMMA PlannedType ==
  ASSUME cfg \in Configs, NEW i \in Guids \cup {NoGuid},
         NEW l \in Bits \cup {NoBits}, NEW r \in Bits \cup {NoBits}
  PROVE  Planned(i, l, r) \in Data
  BY AppsAssumption DEF AppsAssumption, Planned, Data, Config, Names

(* createOrUpdate's choice: a creation if and only if there is no id.       *)
LEMMA BranchCases ==
  ASSUME NEW x
  PROVE  /\ Branch(x) \in Kinds
         /\ Branch(x) = "create" <=> x.id = NoGuid
  BY DEF Branch, Kinds

(* A name with one more "-venerable" is a name (apps.go:322).               *)
LEMMA VenerableType == \A n \in Names : Venerable(n) \in Names
  BY DEF Venerable, Names

(* renameApplication leaves an application (apps.go:325).                   *)
LEMMA RenamedType ==
  ASSUME NEW x \in App, NEW n \in Names PROVE [x EXCEPT !.name = n] \in App
  BY DEF App

(* At first there is at most an application Terraform does not know of.     *)
LEMMA InitInv == Init => IInv
<1> SUFFICES ASSUME Init PROVE IInv
  OBVIOUS
<1>1. Absent \in Data
  BY PlannedType DEF Init, Absent
<1>2. live \subseteq Guids /\ app \in [live -> App] /\ UpIsStarted
  <2>1. CASE app = [g \in {} |-> NewApp(Absent)]
    BY <2>1 DEF live, UpIsStarted
  <2>2. ASSUME NEW g \in Guids, NEW b \in Bits, NEW c \in Configs,
               app = [h \in {g} |-> Unknown(c, b)]
        PROVE  live \subseteq Guids /\ app \in [live -> App] /\ UpIsStarted
    BY <2>2, AppsAssumption
       DEF AppsAssumption, live, UpIsStarted, App, Unknown, Config, Names
  <2>3. QED
    BY <2>1, <2>2 DEF Init
<1>3. QED
  BY <1>1, <1>2, AppsAssumption
     DEF Init, IInv, TypeOK, TargetLive, ReplacementGrows, ReplacementReady,
         ReplacementName, RollbackRestores, AppsAssumption, Kinds, Results, Calls,
         BlueGreen, AfterCreate

(* renameApplication to the venerable name, the list's first action.        *)
LEMMA RenameOrigStep == IInv /\ RenameOrig => IInv'
<1> SUFFICES ASSUME IInv, RenameOrig PROVE IInv'
  OBVIOUS
<1> USE DEF IInv, RenameOrig
<1>1. PICK a \in Answers :
        /\ Answer(a, orig \in live /\ ~NameTaken(Venerable(OrigName), orig))
        /\ Effect(a, orig, [app[orig] EXCEPT !.name = Venerable(OrigName)])
        /\ IF a = "ok" THEN Proceed("create") ELSE Return("failed")
  OBVIOUS
<1>2. [app[orig] EXCEPT !.name = Venerable(OrigName)] \in App
  <2>1. orig \in live
    BY DEF TargetLive, Calls
  <2>2. OrigName \in Names
    BY DEF OrigName, TypeOK, Data
  <2>3. QED
    BY <2>1, <2>2, VenerableType, RenamedType DEF TypeOK
<1>3. /\ live' = live /\ app' \in [live -> App]
      /\ \A h \in live : app'[h] = IF a \in {"ok", "lost"} /\ h = orig
                     THEN [app[orig] EXCEPT !.name = Venerable(OrigName)] ELSE app[h]
  BY <1>1, <1>2, EffectFacts DEF TypeOK
<1>4. TypeOK'
  BY <1>1, <1>3, AppsAssumption DEF AppsAssumption, TypeOK, Proceed, Return, Results, Calls, Answer, Mishap, world, op, live
<1>5. UpIsStarted'
  BY <1>3, <1>2 DEF UpIsStarted, TypeOK, App
<1>6. TargetLive' /\ ReplacementGrows' /\ ReplacementReady' /\ ReplacementName' /\ RollbackRestores'
  BY <1>1, <1>3 DEF TypeOK, TargetLive, ReplacementGrows, ReplacementReady, ReplacementName, RollbackRestores, Proceed, Return, world, op, AfterCreate, Calls
<1>7. QED
  BY <1>4, <1>5, <1>6

-----------------------------------------------------------------------------
(* Steps that make no call and change no resource data. *)
LEMMA QuietStep ==
  IInv /\ (EditConfig \/ EditArchive \/ NothingToDo \/ RefreshOnly) => IInv'
<1> SUFFICES ASSUME IInv, EditConfig \/ EditArchive \/ NothingToDo \/ RefreshOnly
             PROVE  IInv'
  OBVIOUS
<1> USE DEF IInv, EditConfig, EditArchive, NothingToDo, RefreshOnly, live
<1>1. /\ UNCHANGED <<tf, app, kind, d, orig, result>>
      /\ pc' \in {pc, "idle"}
  BY DEF op, world
<1>2. TypeOK'
  BY <1>1, AppsAssumption DEF AppsAssumption, TypeOK, Mishap, op, world
<1>3. QED
  BY <1>1, <1>2 DEF UpIsStarted, TargetLive, ReplacementGrows, ReplacementReady,
                    ReplacementName, RollbackRestores, OrigName, AfterCreate, Calls

(* Read reports what is there, in the types of the resource data. *)
LEMMA ReadType ==
  ASSUME TypeOK, NEW x \in Data, x.id \in live, NEW remote \in Bits \cup {NoBits}
  PROVE  Read(x, remote) \in Data
<1>1. app[x.id] \in App /\ local[x.path] \in Bits
  BY DEF TypeOK, Data
<1>2. QED
  BY <1>1 DEF Read, Data, App

(* Exists and Read at the start of a run.                                   *)
LEMMA RefreshStep == IInv /\ Refresh => IInv'
<1> SUFFICES ASSUME IInv, Refresh PROVE IInv'
  OBVIOUS
<1> USE DEF IInv, Refresh, live
<1>1. /\ pc = "idle" /\ pc' = "plan" /\ result' = "none"
      /\ UNCHANGED <<local, cfg, app, kind, d, orig, edits>>
  BY DEF op, world
<1>2. tf' \in Data /\ (tf'.id # NoGuid => tf'.id \in live)
  <2>1. Absent \in Data /\ Absent.id = NoGuid
    BY PlannedType DEF Absent, Planned, TypeOK
  <2>2. CASE tf.id \in live
    <3>1. PICK remote \in Bits \cup {NoBits} : tf' = Read(tf, remote)
      BY <2>2 DEF TypeOK, App
    <3>2. Read(tf, remote) \in Data
      BY <2>2, ReadType DEF TypeOK
    <3>3. Read(tf, remote).id = tf.id
      BY DEF Read, TypeOK, Data
    <3>4. QED
      BY <2>2, <3>1, <3>2, <3>3
  <2>3. QED
    BY <2>1, <2>2
<1>3. mishaps' \in 0 .. MaxMishaps
  BY AppsAssumption DEF AppsAssumption, TypeOK, Mishap
<1>4. TypeOK'
  BY <1>1, <1>2, <1>3 DEF TypeOK, Results
<1>5. QED
  BY <1>1, <1>2, <1>4 DEF UpIsStarted, TargetLive, ReplacementGrows, ReplacementReady,
                    ReplacementName, RollbackRestores, AfterCreate, Calls

(* Delete, asked for by the operator or of a tainted resource.              *)
LEMMA DeleteStep == IInv /\ (Destroy \/ Replace) => IInv'
<1> SUFFICES ASSUME IInv, Destroy \/ Replace PROVE IInv'
  OBVIOUS
<1> USE DEF IInv
<1>1. PICK next \in {"idle", "plan"} : Delete(next)
  BY DEF Destroy, Replace
<1>2. PICK a \in Answers : /\ Answer(a, tf.id \in live)
                           /\ DeleteApp(a, tf.id)
                           /\ tf' = IF a = "ok" THEN Absent ELSE tf
                           /\ pc' = IF a = "ok" THEN next ELSE "idle"
  BY <1>1 DEF Delete
<1>3. UNCHANGED <<local, cfg, kind, orig, d, result>> /\ pc = "plan"
  BY <1>1 DEF Delete, op
<1>4. /\ live' = IF a \in {"ok", "lost"} THEN live \ {tf.id} ELSE live
      /\ app' \in [live' -> App] /\ \A h \in live' : app'[h] = app[h]
  BY <1>2, DeleteFacts DEF TypeOK
<1>5. Absent \in Data /\ Absent.id = NoGuid
  BY PlannedType DEF Absent, Planned, TypeOK
<1>6. edits' \in 0 .. MaxEdits /\ mishaps' \in 0 .. MaxMishaps
  BY <1>2, AppsAssumption
     DEF Destroy, Replace, TypeOK, AppsAssumption, Answer, Mishap
<1>7. TypeOK'
  BY <1>2, <1>3, <1>4, <1>5, <1>6 DEF TypeOK
<1>8. QED
  BY <1>2, <1>3, <1>4, <1>5, <1>7
     DEF UpIsStarted, TargetLive, ReplacementGrows, ReplacementReady,
         ReplacementName, RollbackRestores, AfterCreate, Calls

(* The operation begins with an application that exists, or makes one.      *)
LEMMA OperationBegins ==
  ASSUME IInv, pc = "plan", NEW x \in Data, x.id \in live \cup {NoGuid},
         createOrUpdate(x), UNCHANGED <<world, tf, app>>,
         mishaps' \in 0 .. MaxMishaps
  PROVE  IInv'
<1> USE DEF IInv, createOrUpdate, live, Proceed
<1>1. /\ kind' = Branch(x) /\ kind' \in Kinds /\ (kind' = "create" <=> x.id = NoGuid)
      /\ pc' = FirstCall[kind'] /\ d' = x /\ orig' = x.id
      /\ UNCHANGED <<local, cfg, edits, tf, app, result>>
  BY BranchCases DEF world
<1>2. /\ pc' \in {"create", "routes", "attrs", "stop", "params", "rename"}
      /\ kind' \in BlueGreen <=> pc' = "rename"
      /\ kind' = "create" <=> pc' = "create"
      /\ kind' \in {"routes", "attrs"} => pc' = kind'
  BY <1>1 DEF Kinds, FirstCall, BlueGreen
<1>3. TypeOK'
  BY <1>1, <1>2 DEF TypeOK, Data, Calls
<1>4. TargetLive'
  <2>1. kind' \in BlueGreen => x.id \in live
    BY <1>1, <1>2
  <2>2. QED
    BY <1>1, <1>2, <2>1, SMTT(30) DEF TargetLive, AfterCreate
<1>5. QED
  BY <1>1, <1>2, <1>3, <1>4
     DEF UpIsStarted, ReplacementGrows, ReplacementReady, ReplacementName,
         RollbackRestores, AfterCreate

(* Create and Update choose a branch, and call nothing yet.                 *)
LEMMA BeginStep == IInv /\ (Create \/ Update) => IInv'
<1> SUFFICES ASSUME IInv, Create \/ Update PROVE IInv'
  OBVIOUS
<1> USE DEF IInv
<1>1. Absent \in Data /\ Absent.id = NoGuid
  BY PlannedType DEF Absent, Planned, TypeOK
<1>2. ASSUME NEW g \in live,
             createOrUpdate([Planned(g, NoBits, NoBits) EXCEPT !.modified = TRUE]),
             UNCHANGED mishaps, Create
      PROVE  IInv'
  <2>1. Planned(g, NoBits, NoBits) \in Data /\ Planned(g, NoBits, NoBits).id = g
    BY PlannedType DEF Planned, TypeOK
  <2>2. /\ [Planned(g, NoBits, NoBits) EXCEPT !.modified = TRUE] \in Data
        /\ [Planned(g, NoBits, NoBits) EXCEPT !.modified = TRUE].id = g
    BY <2>1 DEF Data
  <2>3. QED
    BY <1>2, <2>2, OperationBegins DEF Create, TypeOK
<1>3. ASSUME createOrUpdate(Absent), Create, mishaps' \in 0 .. MaxMishaps PROVE IInv'
  BY <1>1, <1>3, OperationBegins DEF Create
<1>4. CASE Create
  <2>1. CASE createOrUpdate(Absent)
    <3>1. mishaps' \in 0 .. MaxMishaps
      <4>1. UNCHANGED mishaps \/ Mishap("plan")
        BY <1>4 DEF Create
      <4>2. QED
        BY <4>1, AppsAssumption DEF Mishap, TypeOK, AppsAssumption
    <3>2. QED
      BY <1>3, <1>4, <2>1, <3>1
  <2>2. QED
    BY <1>2, <1>4, <2>1 DEF Create
<1>5. CASE Update
  <2>1. tf.id \in live
    BY <1>5 DEF Update, TargetLive
  <2>2. /\ Planned(tf.id, tf.localSha, tf.remoteSha) \in Data
        /\ Planned(tf.id, tf.localSha, tf.remoteSha).id = tf.id
    <3>1. tf.id \in Guids /\ {tf.localSha, tf.remoteSha} \subseteq Bits \cup {NoBits}
      BY <2>1 DEF TypeOK, Data
    <3>2. QED
      BY <3>1, PlannedType DEF Planned, TypeOK
  <2>3. QED
    BY <1>5, <2>1, <2>2, OperationBegins DEF Update, TypeOK
<1>6. QED
  BY <1>4, <1>5

-----------------------------------------------------------------------------
(* The mishaps stay within their bound; only a possible call takes effect.  *)
LEMMA AnswerFacts ==
  ASSUME TypeOK, NEW a, NEW possible \in BOOLEAN, Answer(a, possible)
  PROVE  mishaps' \in 0 .. MaxMishaps /\ (a \in {"ok", "lost"} => possible)
  BY AppsAssumption DEF AppsAssumption, TypeOK, Answer, Mishap

(* Where a call of a Forward leads. *)
LEMMA ThenFacts ==
  ASSUME NEW a, NEW next, Then(a, next)
  PROVE  /\ a = "ok" => pc' = next /\ result' = result
         /\ a # "ok" /\ kind \in BlueGreen => pc' = "revDelete" /\ result' = "failed"
         /\ a # "ok" /\ kind \notin BlueGreen => pc' = "return" /\ result' = "failed"
  BY DEF Then, Proceed, Fail, Return

(* Where the end of createApp, startApp or CopyBits leads.                  *)
LEMMA SucceedFacts ==
  ASSUME Succeed
  PROVE  /\ kind \in BlueGreen => pc' = "deleteOrig" /\ result' = result
         /\ kind \notin BlueGreen => pc' = "return" /\ result' = "ok"
  BY DEF Succeed, Proceed, Return

(* Where the error of a Forward leads (rewind.go:217).                      *)
LEMMA FailFacts ==
  ASSUME Fail
  PROVE  /\ kind \in BlueGreen => pc' = "revDelete" /\ result' = "failed"
         /\ kind \notin BlueGreen => pc' = "return" /\ result' = "failed"
  BY DEF Fail, Return

(* createApp's first call: the replacement has the configured name.         *)
LEMMA CreateAppStep == IInv /\ CreateApp => IInv'
<1> SUFFICES ASSUME IInv, CreateApp PROVE IInv'
  OBVIOUS
<1> USE DEF IInv
<1>1. PICK a \in Answers, g \in Guids \ (live \cup {tf.id, d.id, orig}) :
        /\ Answer(a, ~NameTaken(d.name, NoGuid))
        /\ app' = IF a \in {"ok", "lost"}
                  THEN [h \in live \cup {g} |-> IF h = g THEN NewApp(d) ELSE app[h]]
                  ELSE app
        /\ d' = IF a = "ok" THEN [d EXCEPT !.id = g] ELSE d
        /\ Then(a, "routes")
  BY DEF CreateApp
<1>2. /\ pc = "create" /\ UNCHANGED <<local, cfg, edits, tf, kind, orig>>
      /\ mishaps' \in 0 .. MaxMishaps
      /\ a = "ok" => pc' = "routes" /\ result' = result
      /\ a # "ok" /\ kind \in BlueGreen => pc' = "revDelete" /\ result' = "failed"
      /\ a # "ok" /\ kind \notin BlueGreen => pc' = "return" /\ result' = "failed"
  BY <1>1, AnswerFacts, ThenFacts DEF CreateApp, world, op, NameTaken
<1>3. NewApp(d) \in App /\ NewApp(d).up = "down"
  BY DEF NewApp, App, TypeOK, Data
<1>4. /\ live' = IF a \in {"ok", "lost"} THEN live \cup {g} ELSE live
      /\ app' \in [live' -> App]
      /\ \A h \in live : app'[h] = app[h]
      /\ a \in {"ok", "lost"} => app'[g] = NewApp(d)
  BY <1>1, <1>3 DEF live, TypeOK
<1>5. d' \in Data /\ (a # "ok" => d' = d) /\ (a = "ok" => d' = [d EXCEPT !.id = g])
  BY <1>1 DEF TypeOK, Data
<1>6. TypeOK'
  BY <1>2, <1>4, <1>5 DEF TypeOK, Calls, Results
<1>7. UpIsStarted'
  BY <1>1, <1>3, <1>4 DEF UpIsStarted, TypeOK
<1>8. d.id = orig \/ kind \notin BlueGreen
  BY <1>2 DEF TargetLive, Calls
<1>9. TargetLive' /\ ReplacementReady' /\ ReplacementName' /\ RollbackRestores'
  BY <1>1, <1>2, <1>4, <1>5, <1>8
     DEF TargetLive, ReplacementReady, ReplacementName, RollbackRestores,
         TypeOK, Data, Calls, AfterCreate
<1>10. ReplacementGrows'
  BY <1>1, <1>2, <1>4, <1>5 DEF ReplacementGrows, TypeOK, Data, NewApp, AfterCreate, WithBits
<1>11. QED
  BY <1>6, <1>7, <1>9, <1>10

(* BindRoutes gives the target a route, or takes one away.                  *)
LEMMA BindRoutesStep == IInv /\ BindRoutes => IInv'
<1> SUFFICES ASSUME IInv, BindRoutes PROVE IInv'
  OBVIOUS
<1> USE DEF IInv
<1>1. /\ pc = "routes" /\ UNCHANGED <<local, cfg, edits, tf, kind, orig, d>>
      /\ d.id \in live /\ app[d.id] \in App /\ d \in Data
      /\ kind \in BlueGreen => orig # d.id /\ app[d.id].routes \subseteq d.routes
  BY DEF BindRoutes, TargetLive, ReplacementGrows, world, op, TypeOK, Calls, AfterCreate
<1>2. CASE ToBind \cup ToUnbind = {}
  <2>1. UNCHANGED <<app, mishaps>> /\ d.routes \subseteq app[d.id].routes
    BY <1>2 DEF BindRoutes, ToBind
  <2>2. \/ kind = "routes" /\ pc' = "return" /\ result' = "ok"
        \/ kind # "routes" /\ pc' = "services" /\ result' = result
    BY <1>2 DEF BindRoutes, Return, Proceed
  <2>3. TypeOK'
    BY <1>1, <2>1, <2>2 DEF TypeOK, Calls, Results, live
  <2>4. QED
    BY <1>1, <2>1, <2>2, <2>3
       DEF UpIsStarted, TargetLive, ReplacementGrows, ReplacementReady,
           ReplacementName, RollbackRestores, live, AfterCreate, WithBits, Calls, BlueGreen
<1>3. CASE ToBind \cup ToUnbind # {}
  <2>1. PICK a \in Answers :
          /\ Answer(a, TRUE)
          /\ \/ \E r \in ToBind :
                  Effect(a, d.id, [app[d.id] EXCEPT !.routes = @ \cup {r}])
             \/ /\ ToBind = {}
                /\ \E r \in ToUnbind :
                     Effect(a, d.id, [app[d.id] EXCEPT !.routes = @ \ {r}])
          /\ Then(a, "routes")
    BY <1>3 DEF BindRoutes
  <2>2. PICK R \in SUBSET Routes :
          /\ Effect(a, d.id, [app[d.id] EXCEPT !.routes = R])
          /\ kind \in BlueGreen => R \subseteq d.routes
    <3>1. ASSUME NEW r \in ToBind,
                 Effect(a, d.id, [app[d.id] EXCEPT !.routes = @ \cup {r}])
          PROVE  \E R \in SUBSET Routes :
                   /\ Effect(a, d.id, [app[d.id] EXCEPT !.routes = R])
                   /\ kind \in BlueGreen => R \subseteq d.routes
      <4>1. /\ app[d.id].routes \cup {r} \in SUBSET Routes
            /\ kind \in BlueGreen => app[d.id].routes \cup {r} \subseteq d.routes
        BY <1>1, <3>1 DEF ToBind, App, Data
      <4>2. QED
        BY <3>1, <4>1 DEF Effect
    <3>2. ASSUME NEW r \in ToUnbind,
                 Effect(a, d.id, [app[d.id] EXCEPT !.routes = @ \ {r}])
          PROVE  \E R \in SUBSET Routes :
                   /\ Effect(a, d.id, [app[d.id] EXCEPT !.routes = R])
                   /\ kind \in BlueGreen => R \subseteq d.routes
      <4>1. /\ app[d.id].routes \ {r} \in SUBSET Routes
            /\ kind \in BlueGreen => app[d.id].routes \ {r} \subseteq d.routes
        BY <1>1 DEF App
      <4>2. QED
        BY <3>2, <4>1 DEF Effect
    <3>3. QED
      BY <2>1, <3>1, <3>2
  <2>3. /\ live' = live /\ app' \in [live -> App]
        /\ \A h \in live : app'[h] = IF a \in {"ok", "lost"} /\ h = d.id
                            THEN [app[d.id] EXCEPT !.routes = R] ELSE app[h]
    <3>1. [app[d.id] EXCEPT !.routes = R] \in App
      BY <1>1 DEF App
    <3>2. QED
      BY <2>2, <3>1, EffectFacts DEF TypeOK
  <2>4. /\ mishaps' \in 0 .. MaxMishaps
        /\ a = "ok" => pc' = "routes" /\ result' = result
        /\ a # "ok" /\ kind \in BlueGreen => pc' = "revDelete" /\ result' = "failed"
        /\ a # "ok" /\ kind \notin BlueGreen => pc' = "return" /\ result' = "failed"
    BY <2>1, AnswerFacts, ThenFacts
  <2>5. TypeOK'
    BY <1>1, <2>3, <2>4 DEF TypeOK, Calls, Results
  <2>6. UpIsStarted'
    BY <1>1, <2>3 DEF UpIsStarted, App
  <2>7. QED
    BY <1>1, <2>2, <2>3, <2>4, <2>5, <2>6
       DEF TargetLive, ReplacementGrows, ReplacementReady, TypeOK, App,
           ReplacementName, RollbackRestores, AfterCreate, WithBits, Calls, BlueGreen
<1>4. QED
  BY <1>2, <1>3

(* A call on the application an operation is about, that goes on with next: *)
(* what each such call keeps whatever it changes.                           *)
Good(x) == /\ x \in App
           /\ x.up # "down" => x.state = "STARTED" /\ x.pkg = "STAGED" /\ x.inst > 0

(* A call on the target of the operation, in general: what is left to show of *)
(* it is what the call does to the replacement.                             *)
LEMMA TargetCall ==
  ASSUME IInv, NEW a, NEW new, NEW next \in AfterCreate \cup {"stop"},
         NEW possible \in BOOLEAN,
         pc \in AfterCreate \cup {"stop", "params", "attrs"}, pc # "deleteOrig",
         a \in {"ok", "lost"} => Good(new) /\ (kind \in BlueGreen => new.name = d.name),
         Answer(a, possible), Effect(a, d.id, new), Then(a, next),
         UNCHANGED <<world, tf, op, d>>
  PROVE  /\ TypeOK' /\ UpIsStarted' /\ ReplacementName' /\ RollbackRestores'
         /\ UNCHANGED <<tf, kind, orig, d>> /\ live' = live
         /\ \A h \in live : app'[h] = IF a \in {"ok", "lost"} /\ h = d.id THEN new
                                      ELSE app[h]
         /\ a = "ok" => pc' = next /\ result' = result
         /\ a # "ok" => pc' \in {"revDelete", "return"} /\ result' = "failed"
         /\ pc' = "revDelete" /\ a # "ok" => kind \in BlueGreen
         /\ pc' = "return" => a # "ok"
<1> USE DEF IInv
<1>1. d.id \in live /\ (kind \in BlueGreen => orig # d.id)
  BY DEF TargetLive, Calls, AfterCreate
<1>2. UNCHANGED <<local, cfg, edits, tf, kind, orig, d>>
  BY DEF world, op
<1>3. /\ live' = live /\ app' \in [live -> App]
      /\ \A h \in live : app'[h] = IF a \in {"ok", "lost"} /\ h = d.id THEN new ELSE app[h]
  BY EffectFacts DEF TypeOK, Good
<1>4. /\ mishaps' \in 0 .. MaxMishaps
      /\ a = "ok" => pc' = next /\ result' = result
      /\ a # "ok" /\ kind \in BlueGreen => pc' = "revDelete" /\ result' = "failed"
      /\ a # "ok" /\ kind \notin BlueGreen => pc' = "return" /\ result' = "failed"
  BY AnswerFacts, ThenFacts
<1>5. TypeOK'
  BY <1>2, <1>3, <1>4 DEF TypeOK, Calls, Results, AfterCreate
<1>6. UpIsStarted'
  BY <1>1, <1>3 DEF UpIsStarted, Good
<1>7. pc' = "return" => a # "ok"
  BY <1>4 DEF AfterCreate
<1>8. ReplacementName'
  <2>1. CASE kind \in BlueGreen
    <3>1. app[d.id].name = d.name
      BY <2>1 DEF ReplacementGrows, ReplacementName, TargetLive, AfterCreate
    <3>2. QED
      BY <1>1, <1>2, <1>3, <2>1, <3>1 DEF ReplacementName
  <2>2. CASE kind \notin BlueGreen
    BY <1>4, <2>2 DEF ReplacementName, AfterCreate
  <2>3. QED
    BY <2>1, <2>2
<1>9. RollbackRestores'
  BY <1>4, <1>7 DEF RollbackRestores
<1>10. QED
  BY <1>2, <1>3, <1>4, <1>5, <1>6, <1>7, <1>8, <1>9

(* BindServices gives the target a service.                                 *)
LEMMA BindServicesStep == IInv /\ BindServices => IInv'
<1> SUFFICES ASSUME IInv, BindServices PROVE IInv'
  OBVIOUS
<1> USE DEF IInv
<1> DEFINE next == IF kind = "bgRestage" THEN "copyBits" ELSE "upload"
<1>1. /\ pc = "services" /\ d.id \in live /\ app[d.id] \in App /\ d \in Data
      /\ UNCHANGED <<world, tf, op, d>>
  BY DEF BindServices, TargetLive, TypeOK, AfterCreate
<1>2. CASE d.svcs \subseteq app[d.id].svcs
  <2>1. /\ UNCHANGED <<app, mishaps, local, cfg, edits, tf, kind, orig, d, result>>
        /\ pc' = next /\ pc' \in {"copyBits", "upload"}
    BY <1>1, <1>2 DEF BindServices, Proceed, world, op
  <2>2. TypeOK'
    BY <2>1 DEF TypeOK, Calls, live
  <2>3. QED
    <3>1. TargetLive' /\ UpIsStarted' /\ ReplacementName' /\ RollbackRestores'
      BY <1>1, <2>1 DEF UpIsStarted, TargetLive, ReplacementName, RollbackRestores,
                        live, AfterCreate, Calls, BlueGreen
    <3>2. ReplacementGrows' /\ ReplacementReady'
      <4>1. kind \in BlueGreen => d.svcs = app[d.id].svcs
        BY <1>1, <1>2 DEF ReplacementGrows, AfterCreate
      <4> HIDE DEF next
      <4>2. QED
        BY <1>1, <2>1, <4>1
           DEF ReplacementGrows, ReplacementReady, live, AfterCreate, WithBits
    <3>3. QED
      BY <2>2, <3>1, <3>2
<1>3. CASE ~(d.svcs \subseteq app[d.id].svcs)
  <2>1. PICK a \in Answers, s \in d.svcs \ app[d.id].svcs :
          /\ Answer(a, TRUE)
          /\ Effect(a, d.id, [app[d.id] EXCEPT !.svcs = @ \cup {s}])
          /\ Then(a, "services")
    BY <1>3 DEF BindServices
  <2> DEFINE new == [app[d.id] EXCEPT !.svcs = app[d.id].svcs \cup {s}]
  <2>2. /\ Good(new) /\ (kind \in BlueGreen => new.name = d.name)
        /\ new = [app[d.id] EXCEPT !.svcs = new.svcs]
        /\ kind \in BlueGreen => new.svcs \subseteq d.svcs
    BY <1>1, <2>1
       DEF Good, App, Data, UpIsStarted, ReplacementGrows, AfterCreate
  <2>3. /\ TypeOK' /\ UpIsStarted' /\ ReplacementName' /\ RollbackRestores'
        /\ UNCHANGED <<tf, kind, orig, d>> /\ live' = live
        /\ \A h \in live : app'[h] = IF a \in {"ok", "lost"} /\ h = d.id THEN new
                                     ELSE app[h]
        /\ a = "ok" => pc' = "services"
        /\ a # "ok" => pc' \in {"revDelete", "return"}
        /\ pc' = "revDelete" /\ a # "ok" => kind \in BlueGreen
    BY <1>1, <2>1, <2>2, TargetCall DEF AfterCreate
  <2>4. QED
    BY <1>1, <2>2, <2>3
       DEF TargetLive, ReplacementGrows, ReplacementReady, TypeOK, App,
           AfterCreate, WithBits, Calls
<1>4. QED
  BY <1>2, <1>3

(* A new package takes the application's instances down.                    *)
LEMMA PackageFacts ==
  ASSUME NEW a \in App, NEW b \in Bits \cup {NoBits}
  PROVE  /\ Good(Package(a, b))
         /\ Package(a, b).name = a.name /\ Package(a, b).inst = a.inst
         /\ Package(a, b).par = a.par /\ Package(a, b).state = a.state
         /\ Package(a, b).routes = a.routes /\ Package(a, b).svcs = a.svcs
         /\ Package(a, b).bits = b
<1> DEFINE new == [a EXCEPT !.bits = b, !.pkg = "PENDING"]
<1>1. /\ new \in App /\ new.name = a.name /\ new.inst = a.inst /\ new.par = a.par
      /\ new.state = a.state /\ new.routes = a.routes /\ new.svcs = a.svcs
      /\ new.bits = b
  BY DEF App
<1>2. Package(a, b) = Settle(new)
  BY DEF Package
<1>3. new.pkg = "PENDING"
  BY DEF App
<1> HIDE DEF new
<1>4. QED
  BY <1>1, <1>2, <1>3, SettleFacts DEF Good

(* SendBits' upload.                                                        *)
LEMMA UploadStep == IInv /\ Upload => IInv'
<1> SUFFICES ASSUME IInv, Upload PROVE IInv'
  OBVIOUS
<1> USE DEF IInv
<1>1. PICK a \in {"ok", "fail"} :
        /\ Answer(a, TRUE)
        /\ Effect(a, d.id, Package(app[d.id], local[d.path]))
        /\ Then(a, "localSha")
  BY DEF Upload
<1>2. /\ pc = "upload" /\ d.id \in live /\ app[d.id] \in App /\ local[d.path] \in Bits
      /\ UNCHANGED <<world, tf, op, d>>
  BY DEF Upload, TargetLive, TypeOK, Data, AfterCreate
<1> DEFINE new == Package(app[d.id], local[d.path])
<1>3. /\ Good(new) /\ new.name = app[d.id].name /\ new.inst = app[d.id].inst
      /\ new.par = app[d.id].par /\ new.state = app[d.id].state
      /\ new.routes = app[d.id].routes /\ new.svcs = app[d.id].svcs
      /\ new.bits = local[d.path]
  BY <1>2, PackageFacts
<1>4. kind \in BlueGreen => new.name = d.name
  BY <1>2, <1>3 DEF ReplacementGrows, AfterCreate
<1>5. /\ TypeOK' /\ UpIsStarted' /\ ReplacementName' /\ RollbackRestores'
      /\ UNCHANGED <<tf, kind, orig, d>> /\ live' = live
      /\ \A h \in live : app'[h] = IF a \in {"ok", "lost"} /\ h = d.id THEN new
                                   ELSE app[h]
      /\ a = "ok" => pc' = "localSha"
      /\ a # "ok" => pc' \in {"revDelete", "return"}
      /\ pc' = "revDelete" /\ a # "ok" => kind \in BlueGreen
  <2>1. Effect(a, d.id, new)
    BY <1>1
  <2>2. pc \in AfterCreate \cup {"stop", "params", "attrs"} /\ pc # "deleteOrig"
    BY <1>2 DEF AfterCreate
  <2>3. "localSha" \in AfterCreate \cup {"stop"}
    BY DEF AfterCreate
  <2> HIDE DEF new
  <2>4. QED
    BY <1>1, <1>2, <1>3, <1>4, <2>1, <2>2, <2>3, TargetCall
<1> HIDE DEF new
<1>6. QED
  BY <1>2, <1>3, <1>5, AppsAssumption
     DEF TargetLive, ReplacementGrows, ReplacementReady, AfterCreate, WithBits, Calls,
         AppsAssumption

(* CopyBits: the replacement gets the original's package.                   *)
LEMMA CopyBitsStep == IInv /\ CopyBits => IInv'
<1> SUFFICES ASSUME IInv, CopyBits PROVE IInv'
  OBVIOUS
<1> USE DEF IInv
<1> DEFINE new == Package(app[d.id], app[orig].bits)
<1>1. PICK a \in Answers :
        /\ Answer(a, orig \in live /\ app[orig].bits # NoBits)
        /\ Effect(a, d.id, new)
        /\ Then(a, "start")
  BY DEF CopyBits
<1>2. /\ pc = "copyBits" /\ d.id \in live /\ app[d.id] \in App /\ d \in Data
      /\ UNCHANGED <<world, tf, op, d>>
      /\ orig \in live => app[orig] \in App
      /\ kind = "bgRestage" /\ kind \in BlueGreen /\ orig # d.id
  BY DEF CopyBits, TargetLive, TypeOK, AfterCreate, Calls, BlueGreen
<1>3. a \in {"ok", "lost"} =>
        /\ Good(new) /\ new.name = app[d.id].name /\ new.inst = app[d.id].inst
      /\ new.par = app[d.id].par /\ new.state = app[d.id].state
      /\ new.routes = app[d.id].routes /\ new.svcs = app[d.id].svcs
      /\ new.bits = app[orig].bits /\ new.bits # NoBits /\ orig \in live
  BY <1>1, <1>2, AnswerFacts, PackageFacts DEF App
<1>4. a \in {"ok", "lost"} /\ kind \in BlueGreen => new.name = d.name
  BY <1>2, <1>3 DEF ReplacementGrows, TargetLive, AfterCreate
<1>5. pc \in AfterCreate \cup {"stop", "params", "attrs"} /\ pc # "deleteOrig"
  BY <1>2 DEF AfterCreate
<1>6. "start" \in AfterCreate \cup {"stop"}
  BY DEF AfterCreate
<1> HIDE DEF new
<1>7. /\ TypeOK' /\ UpIsStarted' /\ ReplacementName' /\ RollbackRestores'
      /\ UNCHANGED <<tf, kind, orig, d>> /\ live' = live
      /\ \A h \in live : app'[h] = IF a \in {"ok", "lost"} /\ h = d.id THEN new
                                   ELSE app[h]
      /\ a = "ok" => pc' = "start"
      /\ a # "ok" => pc' \in {"revDelete", "return"}
      /\ pc' = "revDelete" /\ a # "ok" => kind \in BlueGreen
  BY <1>1, <1>2, <1>3, <1>4, <1>5, <1>6, TargetCall
<1>8. QED
  BY <1>1, <1>2, <1>3, <1>7, AppsAssumption, AnswerFacts
     DEF TargetLive, ReplacementGrows, ReplacementReady, AfterCreate, WithBits, Calls,
         AppsAssumption

(* startApp's first call: the target is started with its bits.              *)
LEMMA StartStep == IInv /\ Start => IInv'
<1> SUFFICES ASSUME IInv, Start PROVE IInv'
  OBVIOUS
<1> USE DEF IInv
<1> DEFINE x == [app[d.id] EXCEPT !.state = "STARTED",
                            !.pkg = IF @ = "FAILED" THEN "PENDING" ELSE @]
<1> DEFINE new == Settle(x)
<1>1. PICK a \in Answers :
        /\ Answer(a, app[d.id].bits # NoBits)
        /\ Effect(a, d.id, new)
        /\ Then(a, "staging")
  BY DEF Start
<1>2. /\ pc = "start" /\ d.id \in live /\ app[d.id] \in App /\ d \in Data
      /\ UNCHANGED <<world, tf, op, d>>
      /\ kind = "bgRestage" => d.started
  BY DEF Start, TargetLive, TypeOK, AfterCreate, Calls
<1>typed. /\ x \in App /\ x.name = app[d.id].name /\ x.inst = app[d.id].inst
          /\ x.par = app[d.id].par /\ x.state = "STARTED"
          /\ x.routes = app[d.id].routes /\ x.svcs = app[d.id].svcs
          /\ x.bits = app[d.id].bits
  BY <1>2 DEF App, Data
<1> HIDE DEF x
<1>3. /\ Good(new) /\ new.name = app[d.id].name /\ new.inst = app[d.id].inst
      /\ new.par = app[d.id].par /\ new.state = "STARTED"
      /\ new.routes = app[d.id].routes /\ new.svcs = app[d.id].svcs
      /\ new.bits = app[d.id].bits
  BY <1>2, <1>typed, SettleFacts DEF Good
<1>4. a \in {"ok", "lost"} /\ kind \in BlueGreen => new.name = d.name
  BY <1>2, <1>3 DEF ReplacementGrows, TargetLive, AfterCreate
<1>5. pc \in AfterCreate \cup {"stop", "params", "attrs"} /\ pc # "deleteOrig"
  BY <1>2 DEF AfterCreate
<1>6. "staging" \in AfterCreate \cup {"stop"}
  BY DEF AfterCreate
<1> HIDE DEF new
<1>7. /\ TypeOK' /\ UpIsStarted' /\ ReplacementName' /\ RollbackRestores'
      /\ UNCHANGED <<tf, kind, orig, d>> /\ live' = live
      /\ \A h \in live : app'[h] = IF a \in {"ok", "lost"} /\ h = d.id THEN new
                                   ELSE app[h]
      /\ a = "ok" => pc' = "staging"
      /\ a # "ok" => pc' \in {"revDelete", "return"}
      /\ pc' = "revDelete" /\ a # "ok" => kind \in BlueGreen
  BY <1>1, <1>2, <1>3, <1>4, <1>5, <1>6, TargetCall
<1>8. QED
  BY <1>1, <1>2, <1>3, <1>7, AppsAssumption, AnswerFacts
     DEF TargetLive, ReplacementGrows, ReplacementReady, AfterCreate, WithBits, Calls, BlueGreen,
         AppsAssumption

(* stopApp, of the branches that are not blue-green.                        *)
LEMMA StopStep == IInv /\ Stop => IInv'
<1> SUFFICES ASSUME IInv, Stop PROVE IInv'
  OBVIOUS
<1> USE DEF IInv
<1> DEFINE x == [app[d.id] EXCEPT !.state = "STOPPED"]
<1> DEFINE next == IF kind = "inPlace" THEN "upload" ELSE "start"
<1> DEFINE new == Settle(x)
<1>1. PICK a \in Answers :
        /\ Answer(a, TRUE)
        /\ Effect(a, d.id, new)
        /\ Then(a, next)
  BY DEF Stop
<1>2. /\ pc = "stop" /\ d.id \in live /\ app[d.id] \in App /\ d \in Data
      /\ UNCHANGED <<world, tf, op, d>>
      /\ kind \notin BlueGreen
  BY DEF Stop, TargetLive, TypeOK, AfterCreate, Calls
<1>typed. x \in App
  BY <1>2 DEF App, Data
<1> HIDE DEF x
<1>3. /\ Good(new) 
  BY <1>2, <1>typed, SettleFacts DEF Good
<1>4. a \in {"ok", "lost"} /\ kind \in BlueGreen => new.name = d.name
  BY <1>2, <1>3 DEF ReplacementGrows, TargetLive, AfterCreate
<1>5. pc \in AfterCreate \cup {"stop", "params", "attrs"} /\ pc # "deleteOrig"
  BY <1>2 DEF AfterCreate
<1>6. next \in AfterCreate \cup {"stop"}
  BY DEF AfterCreate
<1> HIDE DEF new
<1>7. /\ TypeOK' /\ UpIsStarted' /\ ReplacementName' /\ RollbackRestores'
      /\ UNCHANGED <<tf, kind, orig, d>> /\ live' = live
      /\ \A h \in live : app'[h] = IF a \in {"ok", "lost"} /\ h = d.id THEN new
                                   ELSE app[h]
      /\ a = "ok" => pc' = next
      /\ a # "ok" => pc' \in {"revDelete", "return"}
      /\ pc' = "revDelete" /\ a # "ok" => kind \in BlueGreen
  BY <1>1, <1>2, <1>3, <1>4, <1>5, <1>6, TargetCall
<1>8. QED
  BY <1>1, <1>2, <1>3, <1>7, AppsAssumption, AnswerFacts
     DEF TargetLive, ReplacementGrows, ReplacementReady, AfterCreate, WithBits, Calls, BlueGreen,
         AppsAssumption

(* The update of all parameters, of no_blue_green_restage.                  *)
LEMMA UpdateParamsStep == IInv /\ UpdateParams => IInv'
<1> SUFFICES ASSUME IInv, UpdateParams PROVE IInv'
  OBVIOUS
<1> USE DEF IInv
<1> DEFINE x == [app[d.id] EXCEPT !.name = d.name, !.par = d.par,
                            !.inst = d.inst, !.state = "STOPPED"]
<1> DEFINE new == Settle(x)
<1>1. PICK a \in Answers :
        /\ Answer(a, ~NameTaken(d.name, d.id))
        /\ Effect(a, d.id, new)
        /\ Then(a, "stop")
  BY DEF UpdateParams
<1>2. /\ pc = "params" /\ d.id \in live /\ app[d.id] \in App /\ d \in Data
      /\ UNCHANGED <<world, tf, op, d>>
      /\ kind \notin BlueGreen
  BY DEF UpdateParams, TargetLive, TypeOK, AfterCreate, Calls
<1>typed. x \in App
  BY <1>2 DEF App, Data
<1> HIDE DEF x
<1>3. /\ Good(new) 
  BY <1>2, <1>typed, SettleFacts DEF Good
<1>4. a \in {"ok", "lost"} /\ kind \in BlueGreen => new.name = d.name
  BY <1>2, <1>3 DEF ReplacementGrows, TargetLive, AfterCreate
<1>5. pc \in AfterCreate \cup {"stop", "params", "attrs"} /\ pc # "deleteOrig"
  BY <1>2 DEF AfterCreate
<1>6. "stop" \in AfterCreate \cup {"stop"}
  BY DEF AfterCreate
<1> HIDE DEF new
<1>7. /\ TypeOK' /\ UpIsStarted' /\ ReplacementName' /\ RollbackRestores'
      /\ UNCHANGED <<tf, kind, orig, d>> /\ live' = live
      /\ \A h \in live : app'[h] = IF a \in {"ok", "lost"} /\ h = d.id THEN new
                                   ELSE app[h]
      /\ a = "ok" => pc' = "stop"
      /\ a # "ok" => pc' \in {"revDelete", "return"}
      /\ pc' = "revDelete" /\ a # "ok" => kind \in BlueGreen
  BY <1>1, <1>2, <1>3, <1>4, <1>5, <1>6, TargetCall
<1>8. QED
  BY <1>1, <1>2, <1>3, <1>7, AppsAssumption, AnswerFacts
     DEF TargetLive, ReplacementGrows, ReplacementReady, AfterCreate, WithBits, Calls, BlueGreen,
         AppsAssumption

(* The instant updates of name and instances.                               *)
LEMMA UpdateAttrsStep == IInv /\ UpdateAttrs => IInv'
<1> SUFFICES ASSUME IInv, UpdateAttrs PROVE IInv'
  OBVIOUS
<1> USE DEF IInv
<1> DEFINE x == [app[d.id] EXCEPT !.name = d.name, !.inst = d.inst]
<1> DEFINE new == Settle(x)
<1>1. PICK a \in Answers :
        /\ Answer(a, ~NameTaken(d.name, d.id))
        /\ Effect(a, d.id, new)
        /\ IF a = "ok" THEN Return("ok") ELSE Fail
  BY DEF UpdateAttrs
<1>2. /\ pc = "attrs" /\ d.id \in live /\ app[d.id] \in App /\ d \in Data
      /\ UNCHANGED <<local, cfg, edits, tf, kind, orig, d>> /\ kind \notin BlueGreen
  BY DEF UpdateAttrs, TargetLive, TypeOK, world, op
<1>3. x \in App
  BY <1>2 DEF App, Data
<1> HIDE DEF x
<1>4. Good(new)
  BY <1>3, SettleFacts DEF Good
<1> HIDE DEF new
<1>5. /\ mishaps' \in 0 .. MaxMishaps
      /\ pc' = "return" /\ result' \in {"ok", "failed"}
  BY <1>1, <1>2, AnswerFacts, FailFacts DEF Return, NameTaken
<1>6. /\ live' = live /\ app' \in [live -> App]
      /\ \A h \in live : app'[h] = IF a \in {"ok", "lost"} /\ h = d.id THEN new ELSE app[h]
  BY <1>1, <1>4, EffectFacts DEF TypeOK, Good
<1>7. TypeOK'
  BY <1>2, <1>5, <1>6 DEF TypeOK, Results
<1>8. UpIsStarted'
  BY <1>2, <1>4, <1>6 DEF UpIsStarted, Good
<1>9. QED
  BY <1>2, <1>5, <1>7, <1>8
     DEF TargetLive, ReplacementGrows, ReplacementReady, ReplacementName,
         RollbackRestores, AfterCreate, Calls

-----------------------------------------------------------------------------
(* Steps of an operation that change no application. *)
LEMMA ShaStep == IInv /\ (LocalSha \/ RemoteSha) => IInv'
<1> SUFFICES ASSUME IInv, LocalSha \/ RemoteSha PROVE IInv'
  OBVIOUS
<1> USE DEF IInv
<1>1. /\ pc \in {"localSha", "remoteSha"} /\ d.id \in live /\ app[d.id] \in App
      /\ kind # "bgRestage" /\ (orig \in live \/ kind \notin BlueGreen)
      /\ UNCHANGED <<local, cfg, edits, tf, app, kind, orig>>
  BY DEF LocalSha, RemoteSha, TargetLive, TypeOK, AfterCreate, Calls, world, op
<1>2. PICK s \in Bits \cup {NoBits}, k \in {"localSha", "remoteSha"} :
        d' \in {d, [d EXCEPT ![k] = s]}
  <2>1. local[d.path] \in Bits \cup {NoBits} /\ app[d.id].bits \in Bits \cup {NoBits}
    BY <1>1 DEF TypeOK, Data, App
  <2>2. CASE LocalSha
    BY <2>1, <2>2 DEF LocalSha
  <2>3. CASE RemoteSha
    BY <2>1, <2>3 DEF RemoteSha
  <2>4. QED
    BY <2>2, <2>3
<1>3. /\ d' \in Data /\ d'.id = d.id /\ d'.name = d.name /\ d'.inst = d.inst
      /\ d'.par = d.par /\ d'.routes = d.routes /\ d'.svcs = d.svcs
      /\ d'.started = d.started
  BY <1>2 DEF TypeOK, Data
<1>4. /\ mishaps' \in 0 .. MaxMishaps
      /\ \/ pc' = "remoteSha" /\ pc = "localSha" /\ result' = result
         \/ pc' = "start" /\ (kind = "bgDeploy" => d.started) /\ result' = result
         \/ pc' = "deleteOrig" /\ kind \in BlueGreen /\ ~d.started /\ result' = result
         \/ pc' = "return" /\ kind \notin BlueGreen /\ result' \in {"ok", "failed"}
         \/ pc' = "revDelete" /\ kind \in BlueGreen /\ result' = "failed"
  <2>1. CASE LocalSha
    <3>1. PICK a \in {"ok", "fail"} : Answer(a, TRUE) /\ Then(a, "remoteSha")
      BY <2>1 DEF LocalSha
    <3>2. pc = "localSha"
      BY <2>1 DEF LocalSha
    <3>3. QED
      BY <3>1, <3>2, AnswerFacts, ThenFacts
  <2>2. CASE RemoteSha
    <3>1. \/ IF d.started \/ kind = "inPlace" THEN Proceed("start") ELSE Succeed
          \/ Fail
      BY <2>2 DEF RemoteSha
    <3>2. mishaps' \in 0 .. MaxMishaps
      BY <2>2, AppsAssumption DEF RemoteSha, Mishap, TypeOK, AppsAssumption
    <3>3. QED
      BY <3>1, <3>2, SucceedFacts, FailFacts DEF Proceed, BlueGreen
  <2>3. QED
    BY <2>1, <2>2
<1>5. TypeOK'
  BY <1>1, <1>3, <1>4 DEF TypeOK, Calls, Results, live
<1>6. UpIsStarted' /\ TargetLive' /\ ReplacementName' /\ RollbackRestores'
  BY <1>1, <1>3, <1>4
     DEF UpIsStarted, TargetLive, ReplacementName, RollbackRestores, ReplacementGrows,
         live, AfterCreate, Calls, BlueGreen
<1>7. ReplacementGrows'
  BY <1>1, <1>3, <1>4
     DEF ReplacementGrows, live, AfterCreate, WithBits, BlueGreen
<1>8. ReplacementReady'
  BY <1>1, <1>3, <1>4
     DEF ReplacementGrows, ReplacementReady, TargetLive, live, AfterCreate, WithBits,
         BlueGreen, Calls
<1>9. QED
  BY <1>5, <1>6, <1>7, <1>8

(* startApp's polling, and the start that is left out.                      *)
LEMMA PollStep == IInv /\ (SkipStart \/ PollStaging \/ PollInstances) => IInv'
<1> SUFFICES ASSUME IInv, SkipStart \/ PollStaging \/ PollInstances PROVE IInv'
  OBVIOUS
<1> USE DEF IInv
<1>1. /\ pc \in {"start", "staging", "running"} /\ d.id \in live /\ app[d.id] \in App
      /\ orig \in live \/ kind \notin BlueGreen
      /\ UNCHANGED <<local, cfg, edits, tf, app, kind, orig, d>>
  BY DEF SkipStart, PollStaging, PollInstances, TargetLive, TypeOK, AfterCreate,
         Calls, world, op
<1>2. mishaps' \in 0 .. MaxMishaps
  BY AppsAssumption
     DEF AppsAssumption, SkipStart, PollStaging, PollInstances, Mishap, TypeOK
<1>3. \/ pc = "staging" /\ pc' = "running" /\ result' = result /\ app[d.id].pkg = "STAGED"
      \/ /\ pc' = "deleteOrig" /\ kind \in BlueGreen /\ result' = result
         /\ \/ pc = "start" /\ kind = "bgRestage" /\ ~d.started
            \/ pc = "running" /\ (InstanceCount = 0 \/ app[d.id].up = "running")
      \/ pc' = "return" /\ kind \notin BlueGreen /\ result' \in {"ok", "failed"}
      \/ pc' = "revDelete" /\ kind \in BlueGreen /\ result' = "failed"
  <2>1. CASE SkipStart
    BY <2>1, SucceedFacts DEF SkipStart, BlueGreen
  <2>2. CASE PollStaging
    BY <2>2, FailFacts DEF PollStaging, Proceed
  <2>3. CASE PollInstances
    BY <2>3, FailFacts, SucceedFacts DEF PollInstances
  <2>4. QED
    BY <2>1, <2>2, <2>3
<1>4. TypeOK'
  BY <1>1, <1>2, <1>3 DEF TypeOK, Calls, Results, live
<1>5. UpIsStarted' /\ TargetLive' /\ ReplacementName' /\ RollbackRestores'
  BY <1>1, <1>3
     DEF UpIsStarted, TargetLive, ReplacementName, RollbackRestores, ReplacementGrows,
         live, AfterCreate, Calls, BlueGreen
<1>6. ReplacementGrows'
  BY <1>1, <1>3
     DEF ReplacementGrows, live, AfterCreate, WithBits, BlueGreen
<1>7. ReplacementReady'
  BY <1>1, <1>3
     DEF ReplacementGrows, ReplacementReady, TargetLive, live, AfterCreate, WithBits,
         BlueGreen, Calls, InstanceCount
<1>8. QED
  BY <1>4, <1>5, <1>6, <1>7

-----------------------------------------------------------------------------
(* The deletion of the original, and the reverse. *)
LEMMA DeleteOrigStep == IInv /\ DeleteOrig => IInv'
<1> SUFFICES ASSUME IInv, DeleteOrig PROVE IInv'
  OBVIOUS
<1> USE DEF IInv
<1>1. PICK a \in Answers : /\ Answer(a, orig \in live)
                           /\ DeleteApp(a, orig)
                           /\ Return(IF a = "ok" THEN "ok" ELSE "failed")
  BY DEF DeleteOrig
<1>2. /\ pc = "deleteOrig" /\ UNCHANGED <<local, cfg, edits, tf, kind, orig, d>>
      /\ mishaps' \in 0 .. MaxMishaps
      /\ pc' = "return" /\ result' \in {"ok", "failed"}
  <2>1. mishaps' \in 0 .. MaxMishaps
    BY <1>1, AppsAssumption DEF AppsAssumption, TypeOK, Answer, Mishap
  <2>2. QED
    BY <1>1, <2>1 DEF DeleteOrig, world, op, Return
<1>3. /\ live' = IF a \in {"ok", "lost"} THEN live \ {orig} ELSE live
      /\ app' \in [live' -> App] /\ \A h \in live' : app'[h] = app[h]
  BY <1>1, DeleteFacts DEF TypeOK
<1>4. TypeOK' /\ UpIsStarted'
  BY <1>2, <1>3 DEF TypeOK, UpIsStarted, Results
<1>5. QED
  BY <1>2, <1>4 DEF TargetLive, ReplacementGrows, ReplacementReady, ReplacementName,
                    RollbackRestores, AfterCreate, Calls

(* The reverse's deletion of what the resource data names.                  *)
LEMMA ReverseDeleteStep == IInv /\ ReverseDelete => IInv'
<1> SUFFICES ASSUME IInv, ReverseDelete PROVE IInv'
  OBVIOUS
<1> USE DEF IInv
<1>1. PICK a \in Answers : Answer(a, d.id \in live) /\ DeleteApp(a, d.id)
  BY DEF ReverseDelete
<1>2. /\ pc = "revDelete" /\ UNCHANGED <<local, cfg, edits, tf, kind, orig, d, result>>
      /\ mishaps' \in 0 .. MaxMishaps /\ pc' = "revRename"
      /\ kind \in BlueGreen /\ orig \in live
  <2>1. mishaps' \in 0 .. MaxMishaps
    BY <1>1, AppsAssumption DEF AppsAssumption, TypeOK, Answer, Mishap
  <2>2. QED
    BY <1>1, <2>1 DEF ReverseDelete, world, op, Proceed, TargetLive, Calls
<1>3. /\ live' = IF a \in {"ok", "lost"} THEN live \ {d.id} ELSE live
      /\ app' \in [live' -> App] /\ \A h \in live' : app'[h] = app[h]
  BY <1>1, DeleteFacts DEF TypeOK
<1>4. TypeOK' /\ UpIsStarted'
  BY <1>2, <1>3 DEF TypeOK, UpIsStarted, Calls
<1>5. QED
  BY <1>2, <1>3, <1>4 DEF TargetLive, ReplacementGrows, ReplacementReady,
     ReplacementName, RollbackRestores, AfterCreate, Calls

(* The reverse's renaming: its answer decides what is returned.             *)
LEMMA ReverseRenameStep == IInv /\ ReverseRename => IInv'
<1> SUFFICES ASSUME IInv, ReverseRename PROVE IInv'
  OBVIOUS
<1> USE DEF IInv
<1> DEFINE new == [app[orig] EXCEPT !.name = OrigName]
<1>1. PICK a \in Answers :
        /\ Answer(a, orig \in live /\ ~NameTaken(OrigName, orig))
        /\ Effect(a, orig, new)
        /\ Return(IF a = "ok" THEN "rolledBack" ELSE "rewindFailed")
  BY DEF ReverseRename
<1>2. /\ pc = "revRename" /\ UNCHANGED <<local, cfg, edits, tf, kind, orig, d>>
      /\ pc' = "return" /\ result' = IF a = "ok" THEN "rolledBack" ELSE "rewindFailed"
      /\ mishaps' \in 0 .. MaxMishaps
      /\ a \in {"ok", "lost"} => orig \in live /\ ~NameTaken(OrigName, orig)
      /\ OrigName \in Names /\ OrigName' = OrigName
  BY <1>1, AnswerFacts DEF ReverseRename, world, op, Return, NameTaken, OrigName,
                           TypeOK, Data
<1>3. orig \in live => new \in App /\ new.name = OrigName /\ new.up = app[orig].up
        /\ new.state = app[orig].state /\ new.pkg = app[orig].pkg
        /\ new.inst = app[orig].inst
  BY <1>2, RenamedType DEF TypeOK, App
<1> HIDE DEF new
<1>4. /\ live' = live /\ app' \in [live -> App]
      /\ \A h \in live : app'[h] = IF a \in {"ok", "lost"} /\ h = orig THEN new
                                   ELSE app[h]
  BY <1>1, <1>3, EffectFacts DEF TypeOK
<1>5. TypeOK' /\ UpIsStarted'
  BY <1>2, <1>3, <1>4 DEF TypeOK, UpIsStarted, Results
<1>6. RollbackRestores'
  BY <1>2, <1>3, <1>4 DEF RollbackRestores, ReplacementName, NameTaken
<1>7. QED
  BY <1>2, <1>5, <1>6 DEF TargetLive, ReplacementGrows, ReplacementReady,
                          ReplacementName, AfterCreate, Calls

-----------------------------------------------------------------------------
(* The end of an operation, in one way or the other. *)
LEMMA EndStep == IInv /\ EndOperation => IInv'
<1> SUFFICES ASSUME IInv, EndOperation PROVE IInv'
  OBVIOUS
<1> USE DEF IInv
<1>1. UNCHANGED <<local, cfg, edits, app, kind, orig, d, result, mishaps>> /\ pc' = "idle"
  BY DEF EndOperation, world, op
<1>2. tf' \in Data
  <2>1. PICK t \in BOOLEAN : tf' = [d EXCEPT !.tainted = t]
    BY DEF EndOperation
  <2>2. d \in Data
    BY DEF TypeOK
  <2>3. QED
    BY <2>1, <2>2 DEF Data
<1>3. TypeOK' /\ UpIsStarted'
  BY <1>1, <1>2 DEF TypeOK, UpIsStarted, live
<1>4. QED
  BY <1>1, <1>3 DEF TargetLive, ReplacementGrows, ReplacementReady, ReplacementName,
                    RollbackRestores, AfterCreate, Calls

(* Terraform or the plugin dies in the middle of an operation.              *)
LEMMA CrashStep == IInv /\ Crash => IInv'
<1> SUFFICES ASSUME IInv, Crash PROVE IInv'
  OBVIOUS
<1> USE DEF IInv
<1>1. /\ UNCHANGED <<local, cfg, edits, kind, orig, d, result>> /\ pc' = "idle"
      /\ mishaps' \in 0 .. MaxMishaps
  BY AppsAssumption DEF AppsAssumption, Crash, world, op, Mishap, TypeOK
<1>2. tf' \in Data
  <2>1. tf' \in {tf, Absent}
    BY DEF Crash
  <2>2. Absent \in Data
    BY PlannedType DEF Absent, TypeOK
  <2>3. QED
    BY <2>1, <2>2 DEF TypeOK
<1>3. /\ live' = live /\ app' \in [live -> App] /\ UpIsStarted'
  <2>1. CASE UNCHANGED app
    BY <2>1 DEF live, TypeOK, UpIsStarted
  <2>2. CASE pc = "upload" /\ Effect("ok", d.id, Package(app[d.id], local[d.path]))
    <3>1. d.id \in live /\ app[d.id] \in App /\ local[d.path] \in Bits
      BY <2>2 DEF TargetLive, TypeOK, Data, AfterCreate
    <3> DEFINE new == Package(app[d.id], local[d.path])
    <3>2. Good(new)
      BY <3>1, PackageFacts
    <3>3. Effect("ok", d.id, new)
      BY <2>2
    <3> HIDE DEF new
    <3>4. /\ live' = live /\ app' \in [live -> App]
          /\ \A h \in live : app'[h] = IF h = d.id THEN new ELSE app[h]
      BY <3>2, <3>3, EffectFacts DEF TypeOK, Good
    <3>5. QED
      BY <3>1, <3>2, <3>4 DEF UpIsStarted, Good
  <2>3. QED
    BY <2>1, <2>2 DEF Crash
<1>4. TypeOK'
  BY <1>1, <1>2, <1>3 DEF TypeOK
<1>5. QED
  BY <1>1, <1>3, <1>4 DEF TargetLive, ReplacementGrows, ReplacementReady,
     ReplacementName, RollbackRestores, AfterCreate, Calls

(* The platform changes what an application's package and instances are,    *)
(* and no package or instance that came up.                                 *)
LEMMA PlatformChange ==
  ASSUME IInv, NEW g \in live, NEW new, Good(new), Effect("ok", g, new),
         new = [app[g] EXCEPT !.pkg = new.pkg, !.up = new.up],
         app[g].pkg = "STAGED" => new.pkg = "STAGED",
         app[g].up = "running" => new.up = "running",
         mishaps' \in 0 .. MaxMishaps,
         UNCHANGED <<world, tf, pc, op, d, result>>
  PROVE  IInv'
<1> USE DEF IInv
<1>1. UNCHANGED <<local, cfg, edits, tf, pc, kind, orig, d, result>>
  BY DEF world, op
<1>2. /\ live' = live /\ app' \in [live -> App]
      /\ \A h \in live : app'[h] = IF h = g THEN new ELSE app[h]
  BY EffectFacts DEF TypeOK, Good
<1>3. /\ new.name = app[g].name /\ new.inst = app[g].inst /\ new.par = app[g].par
      /\ new.state = app[g].state /\ new.bits = app[g].bits
      /\ new.routes = app[g].routes /\ new.svcs = app[g].svcs
  BY DEF TypeOK, App
<1>4. TypeOK'
  BY <1>1, <1>2 DEF TypeOK
<1>5. UpIsStarted'
  BY <1>2 DEF UpIsStarted, Good
<1>6. TargetLive' /\ ReplacementName' /\ RollbackRestores'
  BY <1>1, <1>2, <1>3 DEF TargetLive, ReplacementName, RollbackRestores, OrigName
<1>7. ReplacementGrows'
  BY <1>1, <1>2, <1>3 DEF ReplacementGrows, TargetLive, AfterCreate, Calls
<1>8. ReplacementReady'
  BY <1>1, <1>2, <1>3 DEF ReplacementReady
<1>9. QED
  BY <1>4, <1>5, <1>6, <1>7, <1>8

(* Staging and starting, at any time, of any application.                   *)
LEMMA PlatformStep == IInv /\ Platform => IInv'
<1> SUFFICES ASSUME IInv, NEW g \in live, Stage(g) \/ RunInstances(g) PROVE IInv'
  BY DEF Platform
<1>1. app[g] \in App /\ Good(app[g])
  BY DEF IInv, TypeOK, UpIsStarted, Good
<1>2. mishaps' \in 0 .. MaxMishaps /\ UNCHANGED <<world, tf, pc, op, d, result>>
  BY AppsAssumption
     DEF Stage, RunInstances, IInv, TypeOK, AppsAssumption, Mishap
<1>3. CASE Stage(g)
  <2>1. app[g].pkg = "PENDING" /\ app[g].up = "down"
    BY <1>1, <1>3 DEF Stage, Good, App
  <2>2. CASE Effect("ok", g, Settle([app[g] EXCEPT !.pkg = "STAGED"]))
    <3> DEFINE x == [app[g] EXCEPT !.pkg = "STAGED"]
    <3> DEFINE new == Settle(x)
    <3>1. /\ x \in App /\ x.pkg = "STAGED"
      BY <1>1 DEF App
    <3>2. new = [app[g] EXCEPT !.pkg = new.pkg, !.up = new.up]
      BY <1>1 DEF App, Settle
    <3> HIDE DEF x
    <3>3. Good(new)
      BY <3>1, SettleFacts DEF Good
    <3>4. Effect("ok", g, new)
      BY <2>2 DEF x
    <3> HIDE DEF new
    <3>5. QED
      BY <1>2, <2>1, <3>2, <3>3, <3>4, PlatformChange
  <2>3. CASE Effect("ok", g, [app[g] EXCEPT !.pkg = "FAILED"])
    <3> DEFINE new == [app[g] EXCEPT !.pkg = "FAILED"]
    <3>1. Good(new) /\ new = [app[g] EXCEPT !.pkg = new.pkg, !.up = new.up]
      BY <1>1, <2>1 DEF App, Good
    <3>2. Effect("ok", g, new)
      BY <2>3
    <3> HIDE DEF new
    <3>3. QED
      BY <1>2, <2>1, <3>1, <3>2, PlatformChange
  <2>4. QED
    BY <1>3, <2>2, <2>3 DEF Stage
<1>4. CASE RunInstances(g)
  <2>1. PICK u \in {"running", "crashed"} : Effect("ok", g, [app[g] EXCEPT !.up = u])
    BY <1>4 DEF RunInstances
  <2> DEFINE new == [app[g] EXCEPT !.up = u]
  <2>2. /\ Good(new) /\ new = [app[g] EXCEPT !.pkg = new.pkg, !.up = new.up]
        /\ new.pkg = app[g].pkg /\ app[g].up = "starting"
    BY <1>1, <1>4 DEF App, Good, RunInstances
  <2>3. Effect("ok", g, new)
    BY <2>1
  <2> HIDE DEF new
  <2>4. QED
    BY <1>2, <2>2, <2>3, PlatformChange
<1>5. QED
  BY <1>3, <1>4

-----------------------------------------------------------------------------
(* IInv holds after every step, whatever it is.                             *)
THEOREM Inductive == IInv /\ [Next]_vars => IInv'
<1>1. IInv /\ UNCHANGED vars => IInv'
  BY DEF IInv, vars, TypeOK, UpIsStarted, TargetLive, ReplacementGrows,
         ReplacementReady, ReplacementName, RollbackRestores, live, OrigName
<1>2. IInv /\ Terraform => IInv'
  BY RefreshStep, QuietStep, DeleteStep, BeginStep DEF Terraform
<1>3. IInv /\ Provider => IInv'
  BY RenameOrigStep, CreateAppStep, BindRoutesStep, BindServicesStep, UploadStep,
     ShaStep, CopyBitsStep, StartStep, PollStep, StopStep, UpdateParamsStep,
     UpdateAttrsStep, DeleteOrigStep, ReverseDeleteStep, ReverseRenameStep, EndStep
     DEF Provider
<1>4. IInv /\ Operator => IInv'
  BY QuietStep, DeleteStep, CrashStep DEF Operator
<1>5. QED
  BY <1>1, <1>2, <1>3, <1>4, PlatformStep DEF Next

(* IInv holds in every reachable state.                                     *)
THEOREM Invariance == Spec => []IInv
  BY InitInv, Inductive, PTL DEF Spec

(* Every variable keeps its type: no operation puts an application or a     *)
(* resource in a form that the code does not know.                          *)
THEOREM TypeCorrect == Spec => []TypeOK
  BY Invariance, PTL DEF IInv

(* The original is deleted only when its replacement is complete            *)
(* (apps.go:268, 315), whatever fails and whatever the operator does.       *)
THEOREM ReplacementIsReady == Spec => []ReplacementReady
  BY Invariance, PTL DEF IInv

(* A rollback that reports success has restored the original (apps.go:263,  *)
(* 284): its name is back and no replacement is left under that name.       *)
THEOREM RollbackIsComplete == Spec => []RollbackRestores
  BY Invariance, PTL DEF IInv

-----------------------------------------------------------------------------
(* The step of DeployNeverShutsDown: the calls of a deployment, an instant  *)
(* update or an update of the routes leave the original's instances alone,  *)
(* and only the last one and the reverse delete an application.             *)
Kept == \/ Serves(orig)' \/ Serves(d.id)'
        \/ pc = "revDelete" /\ d.id = orig

(* A call that leaves the original's instances alone keeps it in service.   *)
LEMMA KeptByCall ==
  ASSUME IInv, NEW a, NEW g \in live, NEW new \in App, Effect(a, g, new),
         UNCHANGED orig, g = orig => new.up = app[orig].up, Serves(orig)
  PROVE  Serves(orig)'
<1>1. /\ live' = live
      /\ \A h \in live : app'[h] = IF a \in {"ok", "lost"} /\ h = g THEN new ELSE app[h]
  BY EffectFacts DEF IInv, TypeOK
<1>2. QED
  BY <1>1 DEF Serves

(* The step relation behind DeployNeverShutsDown, action by action.         *)
LEMMA DeployKeeps ==
  IInv /\ Next /\ Updating /\ kind # "bgRestage" /\ Serves(orig) => Kept
<1> SUFFICES ASSUME IInv, Next, Updating, kind # "bgRestage", Serves(orig)
             PROVE  Kept
  OBVIOUS
<1>1. /\ pc \in Calls /\ kind \in {"bgDeploy", "attrs", "routes"}
      /\ kind \in {"attrs", "routes"} => pc = kind
      /\ orig \in live /\ app[orig] \in App /\ app[orig].up = "running"
      /\ Good(app[orig]) /\ d \in Data /\ d.inst > 0
  BY DEF Updating, BlueGreen, IInv, TargetLive, TypeOK, Serves, UpIsStarted, Good
<1>2. kind = "bgDeploy" /\ pc \in AfterCreate => d.id # orig
  BY <1>1 DEF IInv, TargetLive, BlueGreen
<1>3. UNCHANGED <<app, orig>> => Kept
  BY DEF Kept, Serves, live
<1>4. CASE Operator \/ Terraform
  <2>1. CASE Crash
    <3>1. CASE UNCHANGED app
      BY <1>3, <2>1, <3>1 DEF Crash, op
    <3>2. CASE pc = "upload" /\ Effect("ok", d.id, Package(app[d.id], local[d.path]))
      <4>1. d.id # orig /\ d.id \in live
        BY <1>1, <1>2, <3>2 DEF AfterCreate, IInv, TargetLive
      <4>2. app[d.id] \in App /\ local[d.path] \in Bits /\ UNCHANGED orig
        BY <2>1, <4>1 DEF IInv, TypeOK, Data, Crash, op
      <4> DEFINE new == Package(app[d.id], local[d.path])
      <4>3. new \in App
        BY <4>2, PackageFacts DEF Good
      <4>4. Effect("ok", d.id, new)
        BY <3>2
      <4> HIDE DEF new
      <4>5. QED
        BY <4>1, <4>2, <4>3, <4>4, KeptByCall DEF Kept
    <3>3. QED
      BY <2>1, <3>1, <3>2 DEF Crash
  <2>2. CASE EditArchive
    BY <1>3, <2>2 DEF EditArchive, op
  <2>3. QED
    BY <1>1, <1>4, <2>1, <2>2
       DEF Operator, Terraform, EditConfig, RefreshOnly, Destroy, Replace, Delete,
           Refresh, NothingToDo, Create, Update, Calls
<1>5. CASE Platform
  <2>1. PICK g \in live : Stage(g) \/ RunInstances(g)
    BY <1>5 DEF Platform
  <2>2. app[g].pkg = "PENDING" \/ app[g].up = "starting"
    BY <2>1 DEF Stage, RunInstances
  <2>3. g # orig
    BY <1>1, <2>2 DEF Good
  <2>4. UNCHANGED orig /\ live' = live /\ app'[orig] = app[orig]
    BY <1>1, <2>1, <2>3 DEF Stage, RunInstances, Effect, op, live, IInv, TypeOK
  <2>5. QED
    BY <1>1, <2>4 DEF Kept, Serves
<1>6. CASE Provider
  <2>1. UNCHANGED orig
    BY <1>6 DEF Provider, RenameOrig, CreateApp, BindRoutes, BindServices, Upload,
       LocalSha, RemoteSha, CopyBits, SkipStart, Start, PollStaging, PollInstances,
       Stop, UpdateParams, UpdateAttrs, DeleteOrig, ReverseDelete, ReverseRename,
       EndOperation, op
  <2>2. CASE LocalSha \/ RemoteSha \/ SkipStart \/ PollStaging \/ PollInstances
    BY <1>3, <2>1, <2>2 DEF LocalSha, RemoteSha, SkipStart, PollStaging, PollInstances
  <2>3. ~EndOperation /\ ~CopyBits /\ ~Stop /\ ~UpdateParams
    BY <1>1 DEF EndOperation, CopyBits, Stop, UpdateParams, Calls, IInv, TargetLive,
                BlueGreen
  <2>4. CASE RenameOrig \/ ReverseRename
    <3>1. PICK n \in Names, a \in Answers : Effect(a, orig, [app[orig] EXCEPT !.name = n])
      <4>1. OrigName \in Names /\ Venerable(OrigName) \in Names
        BY VenerableType DEF OrigName, IInv, TypeOK, Data
      <4>2. QED
        BY <2>4, <4>1 DEF RenameOrig, ReverseRename
    <3> DEFINE new == [app[orig] EXCEPT !.name = n]
    <3>2. new \in App /\ new.up = app[orig].up
      BY <1>1 DEF App
    <3>3. Effect(a, orig, new)
      BY <3>1
    <3> HIDE DEF new
    <3>4. QED
      BY <1>1, <2>1, <3>2, <3>3, KeptByCall DEF Kept
  <2>5. CASE CreateApp
    BY <1>1, <2>1, <2>5 DEF CreateApp, Kept, Serves, live
  <2>6. CASE BindRoutes
    <3>1. d.id \in live /\ app[d.id] \in App
      BY <2>6 DEF BindRoutes, IInv, TargetLive, AfterCreate, TypeOK
    <3>2. UNCHANGED app
          \/ \E a \in Answers, R \in SUBSET Routes :
               Effect(a, d.id, [app[d.id] EXCEPT !.routes = R])
      <4>1. ASSUME NEW a \in Answers, NEW r \in ToBind,
                   Effect(a, d.id, [app[d.id] EXCEPT !.routes = @ \cup {r}])
            PROVE  \E R \in SUBSET Routes :
                     Effect(a, d.id, [app[d.id] EXCEPT !.routes = R])
        <5>1. app[d.id].routes \cup {r} \in SUBSET Routes
          BY <1>1, <3>1 DEF ToBind, App, Data
        <5>2. QED
          BY <4>1, <5>1
      <4>2. ASSUME NEW a \in Answers, NEW r \in ToUnbind,
                   Effect(a, d.id, [app[d.id] EXCEPT !.routes = @ \ {r}])
            PROVE  \E R \in SUBSET Routes :
                     Effect(a, d.id, [app[d.id] EXCEPT !.routes = R])
        <5>1. app[d.id].routes \ {r} \in SUBSET Routes
          BY <3>1 DEF App
        <5>2. QED
          BY <4>2, <5>1
      <4>3. QED
        BY <2>6, <4>1, <4>2 DEF BindRoutes
    <3>3. ASSUME NEW a \in Answers, NEW R \in SUBSET Routes,
                 Effect(a, d.id, [app[d.id] EXCEPT !.routes = R])
          PROVE  Kept
      <4> DEFINE new == [app[d.id] EXCEPT !.routes = R]
      <4>1. new \in App /\ new.up = app[d.id].up
        BY <3>1 DEF App
      <4>2. Effect(a, d.id, new)
        BY <3>3
      <4> HIDE DEF new
      <4>3. QED
        BY <2>1, <3>1, <4>1, <4>2, KeptByCall DEF Kept
    <3>4. QED
      BY <1>3, <2>1, <3>2, <3>3
  <2>7. CASE BindServices \/ Upload \/ Start
    <3>1. pc \in AfterCreate /\ d.id # orig
      BY <1>1, <1>2, <2>7 DEF BindServices, Upload, Start, AfterCreate
    <3>2. app'[orig] = app[orig] /\ live' = live
      BY <1>1, <2>7, <3>1 DEF BindServices, Upload, Start, Effect, live, IInv, TypeOK
    <3>3. QED
      BY <1>1, <2>1, <3>2 DEF Kept, Serves
  <2>8. CASE UpdateAttrs
    <3>1. d.id \in live /\ app[d.id] \in App
      BY <2>8 DEF UpdateAttrs, IInv, TargetLive, TypeOK
    <3>2. PICK a \in Answers :
            Effect(a, d.id, Settle([app[d.id] EXCEPT !.name = d.name, !.inst = d.inst]))
      BY <2>8 DEF UpdateAttrs
    <3> DEFINE x == [app[d.id] EXCEPT !.name = d.name, !.inst = d.inst]
    <3> DEFINE new == Settle(x)
    <3>3. /\ x \in App
          /\ d.id = orig => /\ x.up = "running" /\ x.state = "STARTED"
                            /\ x.pkg = "STAGED" /\ x.inst > 0
      BY <1>1, <3>1 DEF App, Data, Good
    <3>4. Effect(a, d.id, new)
      BY <3>2
    <3> HIDE DEF x
    <3>5. new \in App /\ (d.id = orig => new.up = app[orig].up)
      BY <1>1, <3>3, SettleFacts
    <3> HIDE DEF new
    <3>6. QED
      BY <2>1, <3>1, <3>4, <3>5, KeptByCall DEF Kept
  <2>9. CASE DeleteOrig
    <3>1. /\ d.id \in live /\ d.id # orig /\ app[d.id].up = "running"
      BY <1>1, <2>9 DEF DeleteOrig, IInv, ReplacementReady, Updating, BlueGreen, TargetLive
    <3>2. /\ \E a \in Answers : DeleteApp(a, orig)
          /\ UNCHANGED d
      BY <2>9 DEF DeleteOrig
    <3>3. d.id \in live' /\ app'[d.id] = app[d.id]
      BY <3>1, <3>2, DeleteFacts DEF IInv, TypeOK
    <3>4. QED
      BY <3>1, <3>2, <3>3 DEF Kept, Serves
  <2>10. CASE ReverseDelete
    <3>1. CASE d.id = orig
      BY <2>10, <3>1 DEF ReverseDelete, Kept
    <3>2. CASE d.id # orig
      <4>1. \E a \in Answers : DeleteApp(a, d.id)
        BY <2>10 DEF ReverseDelete
      <4>2. orig \in live' /\ app'[orig] = app[orig]
        BY <1>1, <3>2, <4>1, DeleteFacts DEF IInv, TypeOK
      <4>3. QED
        BY <1>1, <2>1, <4>2 DEF Kept, Serves
    <3>3. QED
      BY <3>1, <3>2
  <2>11. QED
    BY <1>6, <2>2, <2>3, <2>4, <2>5, <2>6, <2>7, <2>8, <2>9, <2>10 DEF Provider
<1>7. QED
  BY <1>4, <1>5, <1>6 DEF Next

(* No step of an update, but of a restage, takes a running original out of  *)
(* service before a running replacement is there, except the reverse of a   *)
(* failed creation (apps.go:264).                                           *)
THEOREM DeploymentKeepsService == Spec => DeployNeverShutsDown
<1>1. IInv /\ [Next]_vars =>
        [Updating /\ kind # "bgRestage" /\ Serves(orig)
           => \/ Serves(orig)' \/ Serves(d.id)'
              \/ pc = "revDelete" /\ d.id = orig]_vars
  BY DeployKeeps DEF Kept
<1>2. QED
  BY <1>1, Invariance, PTL DEF Spec, DeployNeverShutsDown

-----------------------------------------------------------------------------
(* What runs leave behind, and what an empty plan says of it: the three     *)
(* invariants of apps_recovery.                                             *)

(* What must not go wrong for that: each of these alone, once, violates one *)
(* of the three.                                                            *)
Sure == {"rename", "deleteOrig", "revDelete", "revRename", "plan", "crash"}

(* The premise: deployments that are blue-green, an archive that does not   *)
(* change during a run, and no failure of Sure.                             *)
Recoverable ==
  /\ \A c \in Configs : ~c.noDeploy
  /\ ~LiveEdits
  /\ Failing \cap Sure = {}

(* Two of the three also need that the name, or the path, is never edited.  *)
OneName == \A c, e \in Configs : c.name = e.name
OnePath == \A c, e \in Configs : c.path = e.path

(* Every application of the space has a configured name of its own, but for *)
(* the original of a blue-green update, and nothing else has the name that  *)
(* is to be given back to that. When the answer to the creation got lost,   *)
(* the reverse deletes the original, and what may have its name stays.      *)
Configured == {c.name : c \in Configs}
Renamed(g) == pc \in Calls /\ kind \in BlueGreen /\ g = orig

NamesAreBack ==
  /\ \A g, h \in live : app[g].name = app[h].name => g = h
  /\ \A g \in live : ~Renamed(g) => app[g].name \in Configured
  /\ \A g \in live : Renamed(g) =>
       /\ app[g].name = IF pc = "rename" THEN OrigName ELSE Venerable(OrigName)
       /\ \/ pc = "revDelete" /\ d.id = g
          \/ \A h \in live \ {g, d.id} : app[h].name # OrigName
  /\ pc = "revRename" => d.id \notin live
  /\ tf.name \in Configured
  /\ pc = "plan" /\ tf.id # NoGuid => tf.name = app[tf.id].name
  /\ pc \in Calls \cup {"return"} => d.name = cfg.name
  /\ OnePath => tf.path = cfg.path /\ d.path = cfg.path

(* Which branch an operation is in, by its next call.                       *)
Restarting == {"params", "stop", "start", "staging", "running"}

Branches ==
  /\ pc \in Calls \cup {"return"} => /\ kind # "inPlace"
                                     /\ kind = "create" => tf.id = NoGuid
  /\ pc = "create" => /\ kind \in BlueGreen \cup {"create"}
                      /\ kind = "create" => orig = NoGuid /\ d.id = NoGuid
  /\ pc \in {"stop", "params"} => kind = "restart"
  /\ pc = "attrs" => kind = "attrs"
  /\ pc \in Calls /\ kind = "restart" => pc \in Restarting

(* The branches that leave the package alone.                               *)
Keeping == {"routes", "attrs", "restart"}

(* What path_sha1 says of the package: its checksum, and, when the path is  *)
(* always the same, that of the archive. A failed operation leaves a        *)
(* resource of which that is true, or that is tainted, or gone.             *)
HasArchive(g, x) == /\ app[g].bits = x.localSha
                    /\ OnePath => x.localSha = local[x.path]

ChecksumIsTrue ==
  /\ pc = "idle" /\ tf.id \in live /\ ~tf.tainted => app[tf.id].bits = tf.localSha
  /\ pc = "plan" /\ tf.id # NoGuid =>
       /\ tf.localSha = local[tf.path] /\ tf.routes \subseteq app[tf.id].routes
       /\ ~tf.tainted /\ ~tf.modified => app[tf.id].bits = tf.localSha
  /\ pc \in Calls /\ kind \in {"create", "bgDeploy"} =>
       /\ pc \in WithBits => app[d.id].bits = local[d.path]
       /\ pc \in WithBits \ {"localSha"} => HasArchive(d.id, d)
  /\ pc \in Calls /\ kind \in Keeping => d.id \in live /\ HasArchive(d.id, d)
  /\ pc \in Calls \ {"revDelete", "revRename"} /\ kind = "bgRestage" =>
       HasArchive(orig, d)
  /\ pc = "return" =>
       IF result = "ok" \/ kind \in Keeping
       THEN d.id \in live /\ HasArchive(d.id, d)
       ELSE kind = "create" \/ d.id \notin live

RInv == NamesAreBack /\ Branches /\ ChecksumIsTrue

(* Where a call on the target leads, and what it has seen to by then.       *)
Onward ==
  \/ pc' = "revDelete" /\ kind \in BlueGreen
  \/ /\ pc' = "return" /\ kind \notin BlueGreen
     /\ result' = "ok" => kind \in Keeping \/ pc \in WithBits \ {"localSha"}
  \/ /\ pc' \in AfterCreate \cup {"stop"}
     /\ pc' = "stop" => kind = "restart"
     /\ kind = "restart" => pc' \in Restarting
     /\ kind \in {"create", "bgDeploy"} =>
          /\ pc' \in WithBits => pc \in WithBits \/ app'[d.id].bits = local[d.path]
          /\ pc' \in WithBits \ {"localSha"} =>
               \/ pc \in WithBits \ {"localSha"}
               \/ pc \in WithBits /\ d'.localSha = local[d.path]

-----------------------------------------------------------------------------
(* A call that is possible and may not fail succeeds. *)
LEMMA Succeeds ==
  ASSUME Recoverable, NEW a \in Answers, NEW possible \in BOOLEAN, possible,
         Answer(a, possible), pc \in Sure
  PROVE  a = "ok" /\ UNCHANGED mishaps
  BY DEF Recoverable, Answer, Mishap, Answers, Sure

(* Configurations have names without "-venerable".                          *)
LEMMA ConfiguredFacts ==
  ASSUME IInv
  PROVE  /\ cfg.name \in Configured
         /\ \A m, n \in Configured : Venerable(m) # n /\ m # Venerable(n)
         /\ NoGuid \notin live
<1>1. \A n \in Configured : n \in Bases \X {0}
  BY AppsAssumption DEF AppsAssumption, Configured, Config
<1>2. \A m, n \in Configured : Venerable(m) # n
  BY <1>1 DEF Venerable
<1>3. QED
  BY <1>2, AppsAssumption DEF AppsAssumption, IInv, TypeOK, Configured

(* At first an application that is there has a configured name.             *)
LEMMA RecoveryInit == Init => RInv
<1> SUFFICES ASSUME Init PROVE RInv
  OBVIOUS
<1>1. /\ \A g, h \in live : g = h
      /\ \A g \in live : app[g].name \in Configured
  <2>1. CASE app = [g \in {} |-> NewApp(Absent)]
    BY <2>1 DEF live
  <2>2. ASSUME NEW g \in Guids, NEW b \in Bits, NEW c \in Configs,
               app = [h \in {g} |-> Unknown(c, b)]
        PROVE  live = {g} /\ app[g].name \in Configured
    BY <2>2 DEF live, Unknown, Configured
  <2>3. QED
    BY <2>1, <2>2 DEF Init
<1>2. /\ tf.name = cfg.name /\ tf.path = cfg.path /\ d = tf /\ tf.id = NoGuid
      /\ pc = "idle" /\ NoGuid \notin live /\ cfg \in Configs
  BY AppsAssumption DEF Init, Absent, Planned, AppsAssumption, live, Unknown
<1>3. tf.name \in Configured
  BY <1>2 DEF Configured
<1>4. NamesAreBack
  BY <1>1, <1>2, <1>3 DEF NamesAreBack, Renamed, Calls
<1>5. QED
  BY <1>2, <1>4 DEF RInv, Branches, ChecksumIsTrue, Calls

(* A call on the target keeps what RInv says, when it gives the target no   *)
(* name but the configured one and no package but the archive: what is left to show of it  *)
(* is that the operation goes on as Onward says.                            *)
LEMMA TargetKeeps ==
  ASSUME IInv, RInv, IInv',
         pc \in (AfterCreate \ {"deleteOrig"}) \cup {"stop", "params", "attrs"},
         UNCHANGED <<local, cfg, tf, kind, orig>>,
         d'.id = d.id, d'.name = d.name, d'.path = d.path,
         \/ d'.localSha = d.localSha
         \/ pc = "localSha" /\ d'.localSha = local[d.path],
         live' = live,
         \A h \in live \ {d.id} : app'[h].name = app[h].name /\ app'[h].bits = app[h].bits,
         \/ app'[d.id].name = app[d.id].name
         \/ kind \notin BlueGreen /\ app'[d.id].name = d.name /\ ~NameTaken(d.name, d.id),
         \/ app'[d.id].bits = app[d.id].bits
         \/ pc = "upload" /\ app'[d.id].bits = local[d.path]
         \/ pc = "copyBits",
         Onward
  PROVE  RInv'
<1>1. /\ d.id \in live /\ (kind \in BlueGreen => orig \in live /\ orig # d.id)
      /\ pc \in Calls
  BY DEF IInv, TargetLive, AfterCreate, Calls
<1>2. kind \in {"create", "bgDeploy"} \cup Keeping \cup {"bgRestage"}
  BY <1>1 DEF IInv, TypeOK, Kinds, RInv, Branches, Keeping
<1>2a. /\ pc \in {"upload", "localSha"} => kind \in {"create", "bgDeploy"}
       /\ pc = "copyBits" => kind = "bgRestage"
  BY <1>1, <1>2 DEF IInv, TargetLive, RInv, Branches, Restarting, Keeping, Calls
<1>3. pc' \in (Calls \ {"rename", "create", "revRename"}) \cup {"return"}
  BY DEF Onward, AfterCreate, Calls
<1>4. NamesAreBack'
  <2>1. /\ OrigName' = OrigName /\ d.name = cfg.name /\ pc \notin {"rename", "revDelete"}
        /\ kind \in BlueGreen => pc' \in Calls
        /\ pc' \notin {"rename", "revRename", "plan"}
    BY <1>1, <1>3 DEF OrigName, RInv, NamesAreBack, Onward, Calls, AfterCreate
  <2>2. \A g, h \in live' : app'[g].name = app'[h].name => g = h
    <3>1. \A g, h \in live : app[g].name = app[h].name => g = h
      BY DEF RInv, NamesAreBack
    <3>2. QED
      BY <3>1 DEF NameTaken
  <2>3. \A g \in live' : ~Renamed(g)' => app'[g].name \in Configured
    <3>1. \A g \in live : ~Renamed(g) => app[g].name \in Configured
      BY DEF RInv, NamesAreBack
    <3>2. QED
      BY <1>1, <2>1, <3>1, ConfiguredFacts DEF Renamed
  <2>4. ASSUME NEW g \in live', Renamed(g)'
        PROVE  /\ app'[g].name = Venerable(OrigName)
               /\ \A h \in live' \ {g, d'.id} : app'[h].name # OrigName
    <3>1. Renamed(g) /\ g # d.id
      BY <1>1, <2>4 DEF Renamed
    <3>2. /\ app[g].name = Venerable(OrigName)
          /\ \A h \in live \ {g, d.id} : app[h].name # OrigName
      BY <2>1, <3>1 DEF RInv, NamesAreBack
    <3>3. QED
      BY <3>1, <3>2
  <2>5. /\ tf'.name \in Configured /\ d'.name = cfg'.name
        /\ OnePath => tf'.path = cfg'.path /\ d'.path = cfg'.path
    BY <2>1 DEF RInv, NamesAreBack
  <2> HIDE DEF OrigName
  <2>6. QED
    BY <2>1, <2>2, <2>3, <2>4, <2>5 DEF NamesAreBack, Configured
<1>5. Branches'
  BY <1>1 DEF Onward, RInv, Branches, AfterCreate, BlueGreen, Calls
<1>6. ChecksumIsTrue'
  <2>1. pc' # "idle" /\ pc' # "plan" /\ d'.path = d.path /\ local' = local
    BY <1>3 DEF Calls
  <2>2. CASE kind \in Keeping
    <3>1. HasArchive(d.id, d)
      BY <1>1, <2>2 DEF RInv, ChecksumIsTrue
    <3>2. d'.id \in live' /\ HasArchive(d.id, d)'
      BY <1>1, <1>2a, <2>1, <2>2, <3>1 DEF HasArchive, Keeping
    <3>3. QED
      BY <2>1, <2>2, <3>2 DEF ChecksumIsTrue, Keeping, HasArchive
  <2>3. CASE kind = "bgRestage"
    <3>1. HasArchive(orig, d)
      BY <1>1, <2>3 DEF RInv, ChecksumIsTrue, AfterCreate
    <3>2. HasArchive(orig, d)'
      BY <1>1, <1>2a, <2>1, <2>3, <3>1 DEF HasArchive, BlueGreen
    <3>3. pc' # "return"
      BY <2>3 DEF Onward, AfterCreate, BlueGreen
    <3>4. QED
      BY <2>1, <2>3, <3>2, <3>3 DEF ChecksumIsTrue, Keeping
  <2>4. CASE kind \in {"create", "bgDeploy"}
    <3>1. /\ pc \in WithBits => app[d.id].bits = local[d.path]
          /\ pc \in WithBits \ {"localSha"} => HasArchive(d.id, d)
      BY <1>1, <2>4 DEF RInv, ChecksumIsTrue
    <3>2. /\ pc \in WithBits => app'[d.id].bits = local[d.path]
          /\ pc \in WithBits \ {"localSha"} => d'.localSha = local[d.path]
      BY <1>2a, <2>4, <3>1 DEF HasArchive
    <3>3. /\ pc' \in WithBits => app'[d'.id].bits = local'[d'.path]
          /\ pc' \in WithBits \ {"localSha"} => HasArchive(d.id, d)'
      BY <2>1, <2>4, <3>2 DEF Onward, HasArchive, WithBits
    <3>4. pc' = "return" =>
            IF result' = "ok" THEN d'.id \in live' /\ HasArchive(d.id, d)'
                              ELSE kind' = "create"
      BY <1>1, <2>1, <2>4, <3>2 DEF Onward, HasArchive, WithBits, AfterCreate, BlueGreen,
                                    Keeping
    <3>5. QED
      BY <2>1, <2>4, <3>3, <3>4 DEF ChecksumIsTrue, Keeping, HasArchive
  <2>5. QED
    BY <1>2, <2>2, <2>3, <2>4
<1>7. QED
  BY <1>4, <1>5, <1>6 DEF RInv

(* What a call on the target changes: the target, or nothing.               *)
LEMMA TargetEffect ==
  ASSUME TypeOK, NEW a, NEW new, Effect(a, d.id, new)
  PROVE  /\ live' = live
         /\ \A h \in live : app'[h] = IF a \in {"ok", "lost"} /\ h = d.id THEN new
                                      ELSE app[h]
  BY DEF Effect, live, TypeOK

(* The same for a call that goes on with next or fails.                     *)
LEMMA TargetCallKeeps ==
  ASSUME IInv, RInv, IInv', NEW a, NEW new, NEW next \in AfterCreate \cup {"stop"},
         pc \in (AfterCreate \ {"deleteOrig"}) \cup {"stop", "params", "attrs"},
         Effect(a, d.id, new), Then(a, next), UNCHANGED <<world, tf, op, d>>,
         \/ new.name = app[d.id].name
         \/ /\ kind \notin BlueGreen /\ new.name = d.name
            /\ a \in {"ok", "lost"} => ~NameTaken(d.name, d.id),
         \/ new.bits = app[d.id].bits \/ pc = "copyBits"
         \/ pc = "upload" /\ new.bits = local[d.path],
         next = "stop" => kind = "restart",
         kind = "restart" => next \in Restarting,
         next \in WithBits /\ kind \in {"create", "bgDeploy"} =>
           \/ pc \in WithBits \ {"localSha"}
           \/ next = "localSha" /\ new.bits = local[d.path]
  PROVE  RInv'
<1>1. d.id \in live /\ UNCHANGED <<local, cfg, tf, kind, orig, d>>
  BY DEF IInv, TargetLive, world, op, AfterCreate
<1>2. /\ live' = live
      /\ \A h \in live : app'[h] = IF a \in {"ok", "lost"} /\ h = d.id THEN new
                                   ELSE app[h]
  BY TargetEffect DEF IInv
<1>3. /\ a = "ok" => pc' = next /\ result' = result
      /\ a # "ok" /\ kind \in BlueGreen => pc' = "revDelete" /\ result' = "failed"
      /\ a # "ok" /\ kind \notin BlueGreen => pc' = "return" /\ result' = "failed"
  BY ThenFacts
<1>4. Onward
  <2>1. CASE a = "ok"
    BY <1>1, <1>2, <1>3, <2>1 DEF Onward, WithBits
  <2>2. CASE a # "ok"
    BY <1>3, <2>2 DEF Onward
  <2>3. QED
    BY <2>1, <2>2
<1>5. QED
  BY <1>1, <1>2, <1>4, TargetKeeps

(* What is bound to, started or stopped is an application.                  *)
LEMMA TargetIsApp ==
  ASSUME IInv, pc \in AfterCreate \cup {"stop", "params", "attrs"}
  PROVE  d.id \in live /\ app[d.id] \in App
  BY DEF IInv, TargetLive, TypeOK, AfterCreate, Calls

(* Routes and services are bound to the target, whose package they keep.    *)
LEMMA BindKeeps == IInv /\ RInv /\ IInv' /\ (BindRoutes \/ BindServices) => RInv'
<1> SUFFICES ASSUME IInv, RInv, IInv', BindRoutes \/ BindServices PROVE RInv'
  OBVIOUS
<1>1. /\ pc \in {"routes", "services"} /\ UNCHANGED <<world, tf, op, d>>
      /\ UNCHANGED <<local, cfg, tf, kind, orig>>
      /\ d.id \in live /\ app[d.id] \in App /\ kind # "restart"
  BY TargetIsApp
     DEF BindRoutes, BindServices, AfterCreate, world, op, RInv, Branches, Restarting, Calls
<1>2. CASE UNCHANGED app
  <2>1. \/ pc' = "return" /\ kind = "routes"
        \/ pc' \in {"services", "copyBits", "upload"}
        \/ \E a \in Answers, next \in {"routes", "services"} : Then(a, next)
    <3>1. CASE BindRoutes
      BY <3>1 DEF BindRoutes, Proceed, Return
    <3>2. CASE BindServices /\ d.svcs \subseteq app[d.id].svcs
      BY <3>2 DEF BindServices, Proceed
    <3>3. CASE BindServices /\ ~(d.svcs \subseteq app[d.id].svcs)
      BY <3>3 DEF BindServices
    <3>4. QED
      BY <3>1, <3>2, <3>3
  <2>2. Onward
    <3>1. ASSUME NEW a \in Answers, NEW next \in {"routes", "services"}, Then(a, next)
          PROVE  Onward
      BY <1>1, <3>1, ThenFacts DEF Onward, AfterCreate, WithBits
    <3>2. QED
      BY <1>1, <2>1, <3>1 DEF Onward, AfterCreate, WithBits, Keeping, BlueGreen
  <2>3. QED
    BY <1>1, <1>2, <2>2, TargetKeeps DEF AfterCreate, live
<1>3. CASE BindRoutes /\ ToBind \cup ToUnbind # {}
  <2>1. PICK a \in Answers :
          /\ \/ \E r \in ToBind :
                  Effect(a, d.id, [app[d.id] EXCEPT !.routes = @ \cup {r}])
             \/ \E r \in ToUnbind :
                  Effect(a, d.id, [app[d.id] EXCEPT !.routes = @ \ {r}])
          /\ Then(a, "routes")
    BY <1>3 DEF BindRoutes
  <2>2. PICK R : Effect(a, d.id, [app[d.id] EXCEPT !.routes = R])
    BY <2>1
  <2> DEFINE new == [app[d.id] EXCEPT !.routes = R]
  <2>3. new.name = app[d.id].name /\ new.bits = app[d.id].bits
    BY <1>1 DEF App
  <2>4. Effect(a, d.id, new)
    BY <2>2
  <2> HIDE DEF new
  <2>5. QED
    BY <1>1, <2>1, <2>3, <2>4, TargetCallKeeps DEF AfterCreate, WithBits
<1>4. CASE BindServices /\ ~(d.svcs \subseteq app[d.id].svcs)
  <2>1. PICK a \in Answers, s \in d.svcs \ app[d.id].svcs :
          /\ Effect(a, d.id, [app[d.id] EXCEPT !.svcs = @ \cup {s}])
          /\ Then(a, "services")
    BY <1>4 DEF BindServices
  <2> DEFINE new == [app[d.id] EXCEPT !.svcs = app[d.id].svcs \cup {s}]
  <2>2. new.name = app[d.id].name /\ new.bits = app[d.id].bits
    BY <1>1 DEF App
  <2>3. Effect(a, d.id, new)
    BY <2>1
  <2> HIDE DEF new
  <2>4. QED
    BY <1>1, <2>1, <2>2, <2>3, TargetCallKeeps DEF AfterCreate, WithBits
<1>5. QED
  BY <1>2, <1>3, <1>4 DEF BindRoutes, BindServices

(* The upload and the copy give the target its package.                     *)
LEMMA PackageKeeps == IInv /\ RInv /\ IInv' /\ (Upload \/ CopyBits) => RInv'
<1> SUFFICES ASSUME IInv, RInv, IInv', Upload \/ CopyBits PROVE RInv'
  OBVIOUS
<1>1. /\ pc \in {"upload", "copyBits"} /\ UNCHANGED <<world, tf, op, d>>
      /\ d.id \in live /\ app[d.id] \in App
      /\ pc = "copyBits" => kind = "bgRestage" /\ orig \in live
      /\ kind # "restart"
  BY TargetIsApp DEF Upload, CopyBits, AfterCreate, IInv, TargetLive, BlueGreen, Calls,
                     RInv, Branches, Restarting
<1>2. PICK a, b, next :
        /\ Effect(a, d.id, Package(app[d.id], b)) /\ Then(a, next)
        /\ b \in Bits \cup {NoBits}
        /\ \/ pc = "upload" /\ next = "localSha" /\ b = local[d.path]
           \/ pc = "copyBits" /\ next = "start" /\ kind = "bgRestage"
  <2>1. local[d.path] \in Bits
    BY DEF IInv, TypeOK, Data
  <2>2. pc = "copyBits" => app[orig].bits \in Bits \cup {NoBits}
    BY <1>1 DEF IInv, TypeOK, App
  <2>3. QED
    BY <1>1, <2>1, <2>2 DEF Upload, CopyBits
<1> DEFINE new == Package(app[d.id], b)
<1>3. new.name = app[d.id].name /\ new.bits = b
  BY <1>1, <1>2, PackageFacts
<1>4. Effect(a, d.id, new)
  BY <1>2
<1> HIDE DEF new
<1>5. QED
  BY <1>1, <1>2, <1>3, <1>4, TargetCallKeeps DEF AfterCreate, WithBits

(* Starting, stopping and updating in place keep the package.               *)
LEMMA InPlaceKeeps ==
  IInv /\ RInv /\ IInv' /\ (Start \/ Stop \/ UpdateParams \/ UpdateAttrs) => RInv'
<1> SUFFICES ASSUME IInv, RInv, IInv', Start \/ Stop \/ UpdateParams \/ UpdateAttrs
             PROVE  RInv'
  OBVIOUS
<1>1. /\ pc \in {"start", "stop", "params", "attrs"} /\ UNCHANGED <<world, tf, op, d>>
      /\ d.id \in live /\ app[d.id] \in App /\ d \in Data
  BY TargetIsApp DEF Start, Stop, UpdateParams, UpdateAttrs, AfterCreate, IInv, TypeOK
<1>2. /\ pc \in {"stop", "params"} => kind = "restart"
      /\ pc = "attrs" => kind = "attrs"
      /\ {"restart", "attrs"} \cap BlueGreen = {}
      /\ \A a \in Answers : /\ Answer(a, ~NameTaken(d.name, d.id))
                            /\ a \in {"ok", "lost"}
                            => ~NameTaken(d.name, d.id)
  BY AnswerFacts DEF RInv, Branches, BlueGreen, IInv
<1>3. CASE Start
  <2>1. PICK a \in Answers :
          /\ Effect(a, d.id, Settle([app[d.id] EXCEPT !.state = "STARTED",
                                       !.pkg = IF @ = "FAILED" THEN "PENDING" ELSE @]))
          /\ Then(a, "staging")
    BY <1>3 DEF Start
  <2> DEFINE x == [app[d.id] EXCEPT !.state = "STARTED",
                     !.pkg = IF @ = "FAILED" THEN "PENDING" ELSE @]
             new == Settle(x)
  <2>2. x \in App /\ x.name = app[d.id].name /\ x.bits = app[d.id].bits
    BY <1>1 DEF App
  <2>3. Effect(a, d.id, new)
    BY <2>1
  <2> HIDE DEF x
  <2>4. new.name = app[d.id].name /\ new.bits = app[d.id].bits
    BY <2>2, SettleFacts
  <2> HIDE DEF new
  <2>5. pc = "start"
    BY <1>3 DEF Start
  <2>6. QED
    BY <1>1, <2>1, <2>3, <2>4, <2>5, TargetCallKeeps DEF AfterCreate, WithBits, Restarting
<1>4. CASE Stop
  <2>1. PICK a \in Answers :
          /\ Effect(a, d.id, Settle([app[d.id] EXCEPT !.state = "STOPPED"]))
          /\ Then(a, "start")
    BY <1>2, <1>4 DEF Stop
  <2> DEFINE x == [app[d.id] EXCEPT !.state = "STOPPED"]
             new == Settle(x)
  <2>2. x \in App /\ x.name = app[d.id].name /\ x.bits = app[d.id].bits
    BY <1>1 DEF App
  <2>3. Effect(a, d.id, new)
    BY <2>1
  <2> HIDE DEF x
  <2>4. new.name = app[d.id].name /\ new.bits = app[d.id].bits
    BY <2>2, SettleFacts
  <2> HIDE DEF new
  <2>5. kind = "restart"
    BY <1>2, <1>4 DEF Stop
  <2>6. QED
    BY <1>1, <2>1, <2>3, <2>4, <2>5, TargetCallKeeps DEF AfterCreate, Restarting
<1>5. CASE UpdateParams
  <2>1. PICK a \in Answers :
          /\ Answer(a, ~NameTaken(d.name, d.id))
          /\ Effect(a, d.id, Settle([app[d.id] EXCEPT !.name = d.name, !.par = d.par,
                                       !.inst = d.inst, !.state = "STOPPED"]))
          /\ Then(a, "stop")
    BY <1>5 DEF UpdateParams
  <2> DEFINE x == [app[d.id] EXCEPT !.name = d.name, !.par = d.par,
                     !.inst = d.inst, !.state = "STOPPED"]
             new == Settle(x)
  <2>2. x \in App /\ x.name = d.name /\ x.bits = app[d.id].bits
    BY <1>1 DEF App, Data
  <2>3. Effect(a, d.id, new)
    BY <2>1
  <2> HIDE DEF x
  <2>4. new.name = d.name /\ new.bits = app[d.id].bits
    BY <2>2, SettleFacts
  <2> HIDE DEF new
  <2>5. pc = "params" /\ kind = "restart"
    BY <1>2, <1>5 DEF UpdateParams
  <2>6. QED
    BY <1>1, <1>2, <2>1, <2>3, <2>4, <2>5, TargetCallKeeps DEF WithBits, Restarting
<1>6. CASE UpdateAttrs
  <2>1. PICK a \in Answers :
          /\ Answer(a, ~NameTaken(d.name, d.id))
          /\ Effect(a, d.id, Settle([app[d.id] EXCEPT !.name = d.name, !.inst = d.inst]))
          /\ IF a = "ok" THEN Return("ok") ELSE Fail
    BY <1>6 DEF UpdateAttrs
  <2> DEFINE x == [app[d.id] EXCEPT !.name = d.name, !.inst = d.inst]
             new == Settle(x)
  <2>2. x \in App /\ x.name = d.name /\ x.bits = app[d.id].bits
    BY <1>1 DEF App, Data
  <2>3. Effect(a, d.id, new)
    BY <2>1
  <2> HIDE DEF x
  <2>4. new.name = d.name /\ new.bits = app[d.id].bits
    BY <2>2, SettleFacts
  <2> HIDE DEF new
  <2>5. pc = "attrs" /\ kind = "attrs" /\ kind \notin BlueGreen
    BY <1>6 DEF UpdateAttrs, RInv, Branches, BlueGreen
  <2>6. Onward
    BY <2>1, <2>5, FailFacts DEF Onward, Return, Keeping
  <2>7. /\ live' = live
        /\ \A h \in live \ {d.id} : app'[h] = app[h]
        /\ app'[d.id].bits = app[d.id].bits
        /\ \/ app'[d.id].name = app[d.id].name
           \/ app'[d.id].name = d.name /\ ~NameTaken(d.name, d.id)
    BY <1>1, <1>2, <2>1, <2>3, <2>4, TargetEffect DEF IInv
  <2>8. QED
    BY <1>1, <2>5, <2>6, <2>7, TargetKeeps DEF world, op
<1>7. QED
  BY <1>3, <1>4, <1>5, <1>6

(* The checksums are taken after the upload, and the polls change nothing.  *)
LEMMA ShaKeeps ==
  /\ IInv /\ RInv /\ IInv'
  /\ LocalSha \/ RemoteSha \/ SkipStart \/ PollStaging \/ PollInstances
  => RInv'
<1> SUFFICES ASSUME IInv, RInv, IInv',
                    LocalSha \/ RemoteSha \/ SkipStart \/ PollStaging \/ PollInstances
             PROVE  RInv'
  OBVIOUS
<1>1. /\ pc \in {"localSha", "remoteSha", "start", "staging", "running"}
      /\ UNCHANGED <<local, cfg, tf, app, kind, orig>> /\ live' = live
  BY DEF LocalSha, RemoteSha, SkipStart, PollStaging, PollInstances, world, op, live
<1>2. /\ d'.id = d.id /\ d'.name = d.name /\ d'.path = d.path
      /\ \/ d'.localSha = d.localSha
         \/ pc = "localSha" /\ d'.localSha = local[d.path]
      /\ LocalSha /\ pc' = "remoteSha" => d'.localSha = local[d.path]
  <2>1. d \in Data
    BY DEF IInv, TypeOK
  <2>2. CASE LocalSha
    <3>1. PICK a \in {"ok", "fail"} :
            /\ d' = IF a = "ok" THEN [d EXCEPT !.localSha = local[d.path]] ELSE d
            /\ Then(a, "remoteSha") /\ pc = "localSha"
      BY <2>2 DEF LocalSha
    <3>2. QED
      BY <2>1, <3>1, ThenFacts DEF Data
  <2>3. CASE ~LocalSha
    BY <2>1, <2>3 DEF RemoteSha, SkipStart, PollStaging, PollInstances, Data
  <2>4. QED
    BY <2>2, <2>3
<1>2a. /\ pc \in {"localSha", "remoteSha"} => kind # "restart"
       /\ SkipStart => kind \in BlueGreen
  BY DEF RInv, Branches, Restarting, Calls, SkipStart, BlueGreen
<1>3. Onward
  <2>1. CASE LocalSha
    <3>1. PICK a : Then(a, "remoteSha")
      BY <2>1 DEF LocalSha
    <3>2. pc = "localSha"
      BY <2>1 DEF LocalSha
    <3>3. QED
      BY <1>2, <1>2a, <2>1, <3>1, <3>2, ThenFacts DEF Onward, AfterCreate, WithBits
  <2>2. CASE ~LocalSha
    <3>1. pc \in {"remoteSha", "start", "staging", "running"}
      BY <2>2 DEF RemoteSha, SkipStart, PollStaging, PollInstances
    <3>2. \/ Succeed \/ Fail \/ pc' = "running"
          \/ pc = "remoteSha" /\ pc' = "start"
      BY <2>2 DEF RemoteSha, SkipStart, PollStaging, PollInstances, Proceed
    <3>3. QED
      BY <1>2a, <3>1, <3>2, SucceedFacts, FailFacts
         DEF Onward, AfterCreate, WithBits, BlueGreen, Restarting
  <2>3. QED
    BY <2>1, <2>2
<1>4. QED
  BY <1>1, <1>2, <1>3, TargetKeeps DEF AfterCreate

(* The calls that rename the original are not rejected: nothing else has    *)
(* either of its names.                                                     *)
LEMMA NoReject ==
  ASSUME IInv, RInv
  PROVE  /\ pc = "rename" =>
              /\ orig \in live /\ kind \in BlueGreen /\ d.id = orig
              /\ ~NameTaken(Venerable(OrigName), orig)
         /\ pc = "revRename" =>
              /\ kind \in BlueGreen /\ d.id \notin live
              /\ orig \in live => ~NameTaken(OrigName, orig)
         /\ pc \in Calls => OrigName \in Configured
<1>1. pc \in Calls => OrigName \in Configured
  BY ConfiguredFacts DEF OrigName, RInv, NamesAreBack
<1>2. ASSUME pc = "rename"
      PROVE  /\ orig \in live /\ kind \in BlueGreen /\ d.id = orig
             /\ ~NameTaken(Venerable(OrigName), orig)
  <2>1. orig \in live /\ kind \in BlueGreen /\ d.id = orig
    BY <1>2 DEF IInv, TargetLive, Calls
  <2>2. \A g \in live \ {orig} : app[g].name \in Configured
    BY DEF RInv, NamesAreBack, Renamed
  <2>3. QED
    BY <1>1, <1>2, <2>1, <2>2, ConfiguredFacts DEF NameTaken, Calls
<1>3. ASSUME pc = "revRename"
      PROVE  /\ kind \in BlueGreen /\ d.id \notin live
             /\ orig \in live => ~NameTaken(OrigName, orig)
  <2>1. kind \in BlueGreen /\ d.id \notin live
    BY <1>3 DEF IInv, TargetLive, RInv, NamesAreBack
  <2>2. orig \in live => \A h \in live \ {orig, d.id} : app[h].name # OrigName
    BY <1>3, <2>1 DEF RInv, NamesAreBack, Renamed, Calls
  <2>3. QED
    BY <2>1, <2>2 DEF NameTaken
<1>4. QED
  BY <1>1, <1>2, <1>3

(* renameApplication gives the original its other name.                     *)
LEMMA RenameKeeps == Recoverable /\ IInv /\ RInv /\ RenameOrig => RInv'
<1> SUFFICES ASSUME Recoverable, IInv, RInv, RenameOrig PROVE RInv'
  OBVIOUS
<1>1. /\ pc = "rename" /\ UNCHANGED <<local, cfg, tf, kind, orig, d>>
      /\ orig \in live /\ kind \in BlueGreen /\ d.id = orig /\ app[orig] \in App
      /\ OrigName \in Configured /\ OrigName' = OrigName
  BY NoReject DEF RenameOrig, world, op, IInv, TypeOK, Calls, OrigName
<1>2. /\ Effect("ok", d.id, [app[orig] EXCEPT !.name = Venerable(OrigName)])
      /\ pc' = "create"
  <2>1. PICK a \in Answers :
          /\ Answer(a, orig \in live /\ ~NameTaken(Venerable(OrigName), orig))
          /\ Effect(a, orig, [app[orig] EXCEPT !.name = Venerable(OrigName)])
          /\ IF a = "ok" THEN Proceed("create") ELSE Return("failed")
    BY DEF RenameOrig
  <2>2. (orig \in live /\ ~NameTaken(Venerable(OrigName), orig)) = TRUE
    BY <1>1, NoReject DEF NameTaken
  <2>3. a = "ok"
    BY <1>1, <2>1, <2>2, Succeeds DEF Sure
  <2>4. QED
    BY <1>1, <2>1, <2>3 DEF Proceed
<1>3. /\ live' = live /\ \A h \in live \ {orig} : app'[h] = app[h]
      /\ app'[orig] = [app[orig] EXCEPT !.name = Venerable(OrigName)]
  BY <1>1, <1>2, TargetEffect DEF IInv
<1>4. app'[orig].name = Venerable(OrigName) /\ app'[orig].bits = app[orig].bits
  BY <1>1, <1>3 DEF App
<1>5. NamesAreBack'
  <2>1. /\ \A g, h \in live : app[g].name = app[h].name => g = h
        /\ \A h \in live \ {orig} : app[h].name \in Configured /\ app[h].name # OrigName
    BY <1>1 DEF RInv, NamesAreBack, Renamed, Calls
  <2>2. \A g, h \in live' : app'[g].name = app'[h].name => g = h
    <3>1. \A h \in live \ {orig} : app[h].name # Venerable(OrigName)
      BY <1>1, <2>1, ConfiguredFacts
    <3>2. \A h \in live' : h # orig => app'[h].name = app[h].name
      BY <1>3
    <3>3. \A h \in live' : h # orig => app'[h].name # app'[orig].name
      BY <1>3, <1>4, <3>1, <3>2
    <3>4. ASSUME NEW g \in live', NEW h \in live', app'[g].name = app'[h].name
          PROVE  g = h
      <4>1. g = orig <=> h = orig
        BY <3>3, <3>4
      <4>2. QED
        BY <1>3, <2>1, <3>2, <3>4, <4>1
    <3>5. QED
      BY <3>4
  <2>3. \A h \in live' \ {orig} : app'[h].name \in Configured /\ app'[h].name # OrigName
    BY <1>3, <2>1
  <2>4. /\ tf.name \in Configured /\ d.name = cfg.name
        /\ OnePath => tf.path = cfg.path /\ d.path = cfg.path
    BY <1>1 DEF RInv, NamesAreBack, Calls
  <2> HIDE DEF OrigName
  <2>5. QED
    BY <1>1, <1>2, <1>4, <2>2, <2>3, <2>4 DEF NamesAreBack, Renamed, Calls
<1>6. Branches' /\ ChecksumIsTrue'
  BY <1>1, <1>2, <1>3, <1>4
     DEF RInv, Branches, ChecksumIsTrue, HasArchive, Calls, WithBits, BlueGreen, Keeping
<1>7. QED
  BY <1>5, <1>6 DEF RInv

(* createApp makes the application that is to have the name, if none has    *)
(* it; when it fails, what it may have made is what the reverse leaves.     *)
LEMMA CreateKeeps == IInv /\ RInv /\ CreateApp => RInv'
<1> SUFFICES ASSUME IInv, RInv, CreateApp PROVE RInv'
  OBVIOUS
<1>1. /\ pc = "create" /\ pc \in Calls /\ UNCHANGED <<local, cfg, tf, kind, orig>>
      /\ kind \in BlueGreen \cup {"create"} /\ d \in Data
      /\ kind = "create" => orig = NoGuid /\ d.id = NoGuid /\ tf.id = NoGuid
      /\ kind \in BlueGreen => d.id = orig /\ orig \in live
      /\ tf.name \in Configured /\ d.name = cfg.name /\ cfg.name \in Configured
      /\ OnePath => tf.path = cfg.path /\ d.path = cfg.path
  <2>1. pc = "create" /\ pc \in Calls /\ UNCHANGED <<local, cfg, tf, kind, orig>>
    BY DEF CreateApp, world, op, Calls
  <2>2. /\ kind \in BlueGreen \cup {"create"}
        /\ kind = "create" => orig = NoGuid /\ d.id = NoGuid /\ tf.id = NoGuid
    BY <2>1 DEF RInv, Branches
  <2>3. /\ tf.name \in Configured /\ d.name = cfg.name
        /\ OnePath => tf.path = cfg.path /\ d.path = cfg.path
    BY <2>1 DEF RInv, NamesAreBack
  <2>4. d \in Data /\ (kind \in BlueGreen => d.id = orig /\ orig \in live)
    BY <2>1 DEF IInv, TypeOK, TargetLive
  <2>5. QED
    BY <2>1, <2>2, <2>3, <2>4, ConfiguredFacts
<1>2. PICK a \in Answers, g \in Guids \ (live \cup {tf.id, d.id, orig}) :
        /\ Answer(a, ~NameTaken(d.name, NoGuid))
        /\ app' = IF a \in {"ok", "lost"}
                  THEN [h \in live \cup {g} |-> IF h = g THEN NewApp(d) ELSE app[h]]
                  ELSE app
        /\ d' = IF a = "ok" THEN [d EXCEPT !.id = g] ELSE d
        /\ Then(a, "routes")
  BY DEF CreateApp
<1>3. /\ live' = IF a \in {"ok", "lost"} THEN live \cup {g} ELSE live
      /\ a \in {"ok", "lost"} => app'[g].name = cfg.name
      /\ \A h \in live : app'[h] = app[h]
      /\ d'.id = IF a = "ok" THEN g ELSE d.id
      /\ d'.name = d.name /\ d'.path = d.path /\ d'.localSha = d.localSha
      /\ OrigName' = OrigName
  BY <1>1, <1>2 DEF live, NewApp, Data, OrigName
<1>4. /\ a = "ok" => pc' = "routes"
      /\ a # "ok" /\ kind \in BlueGreen => pc' = "revDelete" /\ result' = "failed"
      /\ a # "ok" /\ kind \notin BlueGreen => pc' = "return" /\ result' = "failed"
  BY <1>2, ThenFacts
<1>5. NamesAreBack'
  <2>1. a \in {"ok", "lost"} => \A h \in live : app[h].name # cfg.name
    BY <1>1, <1>2, AnswerFacts, ConfiguredFacts DEF IInv, NameTaken
  <2>2. \A g1, h \in live : app[g1].name = app[h].name => g1 = h
    BY DEF RInv, NamesAreBack
  <2>3. \A g1, h \in live' : app'[g1].name = app'[h].name => g1 = h
    BY <1>3, <2>1, <2>2
  <2>4. \A h \in live' : h # orig \/ kind \notin BlueGreen => app'[h].name \in Configured
    <3>1. \A h \in live : h # orig \/ kind \notin BlueGreen => app[h].name \in Configured
      BY DEF RInv, NamesAreBack, Renamed
    <3>2. QED
      BY <1>1, <1>3, <3>1
  <2>5. ASSUME kind \in BlueGreen
        PROVE  /\ app'[orig].name = Venerable(OrigName)
               /\ a = "ok" => \A h \in live' \ {orig, g} : app'[h].name # OrigName
    <3>1. /\ app[orig].name = Venerable(OrigName)
          /\ \A h \in live \ {orig} : app[h].name # OrigName
      BY <1>1, <2>5 DEF RInv, NamesAreBack, Renamed
    <3>2. QED
      BY <1>1, <1>3, <2>5, <3>1
  <2> HIDE DEF OrigName
  <2>6. \A h \in live' : Renamed(h)' =>
          /\ app'[h].name = IF pc' = "rename" THEN OrigName' ELSE Venerable(OrigName)'
          /\ \/ pc' = "revDelete" /\ d'.id = h
             \/ \A k \in live' \ {h, d'.id} : app'[k].name # OrigName'
    BY <1>1, <1>3, <1>4, <2>5 DEF Renamed
  <2>7. \A h \in live' : ~Renamed(h)' => app'[h].name \in Configured
    BY <1>1, <1>4, <2>4 DEF Renamed, Calls, BlueGreen
  <2>8. pc' \in {"routes", "revDelete", "return"}
    BY <1>1, <1>4
  <2>9. QED
    BY <1>1, <1>3, <2>3, <2>6, <2>7, <2>8 DEF NamesAreBack, Configured
<1>6. Branches'
  BY <1>1, <1>4 DEF Branches, Calls, BlueGreen
<1>7. ChecksumIsTrue'
  <2>1. CASE kind \in BlueGreen
    <3>1. pc' \in {"routes", "revDelete"}
      BY <1>4, <2>1
    <3>2. QED
      BY <1>1, <1>3, <2>1, <3>1
         DEF RInv, ChecksumIsTrue, HasArchive, Calls, WithBits, BlueGreen, Keeping
  <2>2. CASE kind = "create"
    <3>1. pc' \in {"routes", "return"} /\ (pc' = "return" => result' = "failed")
      BY <1>4, <2>2 DEF BlueGreen
    <3>2. QED
      BY <1>1, <2>2, <3>1 DEF ChecksumIsTrue, WithBits, Keeping
  <2>3. QED
    BY <1>1, <2>1, <2>2
<1>8. QED
  BY <1>5, <1>6, <1>7 DEF RInv

(* Whatever an operation leaves has a configured name.                      *)
LEMMA NamesLeft ==
  ASSUME IInv, RInv, pc \in Calls \cup {"return"}, pc' \notin Calls \cup {"plan"},
         UNCHANGED <<cfg, kind, orig>>, live' \subseteq live,
         \A h \in live' : \/ app'[h].name = app[h].name /\ ~Renamed(h)
                          \/ app'[h].name = OrigName /\ h = orig /\ pc = "revRename",
         tf'.name \in Configured, d'.name = d.name,
         OnePath => tf'.path = cfg.path /\ d'.path = cfg.path
  PROVE  NamesAreBack'
<1>1. /\ \A g, h \in live : app[g].name = app[h].name => g = h
      /\ \A h \in live : ~Renamed(h) => app[h].name \in Configured
  BY DEF RInv, NamesAreBack
<1>2. orig \in live' /\ pc = "revRename" =>
        \A h \in live \ {orig} : app[h].name # OrigName
  BY NoReject DEF NameTaken
<1>3. pc = "revRename" => OrigName \in Configured
  BY NoReject DEF Calls
<1>4. /\ \A g, h \in live' : app'[g].name = app'[h].name => g = h
      /\ \A h \in live' : app'[h].name \in Configured
  BY <1>1, <1>2, <1>3
<1>5. d'.name = cfg'.name /\ pc' \notin {"plan", "revRename"}
  BY DEF RInv, NamesAreBack, Calls
<1>6. QED
  BY <1>4, <1>5 DEF NamesAreBack, Renamed, Configured

(* The original is deleted when its replacement is there.                   *)
LEMMA DeleteOrigKeeps == Recoverable /\ IInv /\ RInv /\ DeleteOrig => RInv'
<1> SUFFICES ASSUME Recoverable, IInv, RInv, DeleteOrig PROVE RInv'
  OBVIOUS
<1>1. /\ pc = "deleteOrig" /\ UNCHANGED <<local, cfg, tf, kind, orig, d>>
      /\ kind \in BlueGreen /\ pc \in Calls
  BY DEF DeleteOrig, world, op, IInv, TargetLive, Calls
<1>2. /\ orig \in live /\ d.id \in live /\ d.id # orig
      /\ kind = "bgRestage" => app[d.id].bits = app[orig].bits
  BY <1>1 DEF IInv, ReplacementReady
<1>3. DeleteApp("ok", orig) /\ pc' = "return" /\ result' = "ok"
  <2>1. PICK a \in Answers : /\ Answer(a, orig \in live) /\ DeleteApp(a, orig)
                             /\ Return(IF a = "ok" THEN "ok" ELSE "failed")
    BY DEF DeleteOrig
  <2>2. (orig \in live) = TRUE
    BY <1>2
  <2>3. a = "ok"
    BY <1>1, <2>1, <2>2, Succeeds DEF Sure
  <2>4. QED
    BY <2>1, <2>3 DEF Return
<1>4. /\ live' = live \ {orig} /\ \A h \in live' : app'[h] = app[h]
  BY <1>3, DeleteFacts DEF IInv, TypeOK
<1>5. HasArchive(d.id, d)
  BY <1>1, <1>2 DEF RInv, ChecksumIsTrue, HasArchive, BlueGreen, WithBits
<1>6. d'.id \in live' /\ HasArchive(d.id, d)'
  BY <1>1, <1>2, <1>4, <1>5 DEF HasArchive
<1>7. /\ tf'.name \in Configured
      /\ OnePath => tf'.path = cfg.path /\ d'.path = cfg.path
  BY <1>1 DEF RInv, NamesAreBack
<1>8. NamesAreBack'
  BY <1>1, <1>3, <1>4, <1>7, NamesLeft DEF Renamed, Calls
<1>9. Branches' /\ ChecksumIsTrue'
  BY <1>1, <1>3, <1>6 DEF RInv, Branches, ChecksumIsTrue, Calls, HasArchive
<1>10. QED
  BY <1>8, <1>9 DEF RInv

(* The reverse deletes what the resource data names.                        *)
LEMMA ReverseDeleteKeeps == Recoverable /\ IInv /\ RInv /\ ReverseDelete => RInv'
<1> SUFFICES ASSUME Recoverable, IInv, RInv, ReverseDelete PROVE RInv'
  OBVIOUS
<1>1. /\ pc = "revDelete" /\ pc' = "revRename" /\ OrigName' = OrigName
      /\ UNCHANGED <<local, cfg, tf, kind, orig, d>> /\ kind \in BlueGreen
  BY DEF ReverseDelete, Proceed, world, op, IInv, TargetLive, OrigName
<1>2. live' = live \ {d.id} /\ \A h \in live' : app'[h] = app[h]
  <2>1. PICK a \in Answers : Answer(a, d.id \in live) /\ DeleteApp(a, d.id)
    BY DEF ReverseDelete
  <2>2. /\ live' = IF a \in {"ok", "lost"} THEN live \ {d.id} ELSE live
        /\ \A h \in live' : app'[h] = app[h]
    BY <2>1, DeleteFacts DEF IInv, TypeOK
  <2>3. CASE d.id \in live
    <3>1. (d.id \in live) = TRUE
      BY <2>3
    <3>2. a = "ok"
      BY <1>1, <2>1, <3>1, Succeeds DEF Sure
    <3>3. QED
      BY <2>2, <3>2
  <2>4. CASE d.id \notin live
    BY <2>2, <2>4
  <2>5. QED
    BY <2>3, <2>4
<1>3. NamesAreBack'
  <2>1. /\ \A g, h \in live' : app'[g].name = app'[h].name => g = h
        /\ \A g \in live' : ~Renamed(g) => app'[g].name \in Configured
        /\ tf'.name \in Configured /\ d'.name = cfg'.name
        /\ OnePath => tf'.path = cfg'.path /\ d'.path = cfg'.path
    BY <1>1, <1>2 DEF RInv, NamesAreBack, Calls
  <2>2. \A g \in live' : Renamed(g) =>
          /\ app'[g].name = Venerable(OrigName)
          /\ \A h \in live' \ {g, d.id} : app'[h].name # OrigName
    BY <1>1, <1>2 DEF RInv, NamesAreBack
  <2>3. \A g : Renamed(g)' <=> Renamed(g)
    BY <1>1 DEF Renamed, Calls
  <2> HIDE DEF OrigName
  <2>4. QED
    BY <1>1, <1>2, <2>1, <2>2, <2>3 DEF NamesAreBack, Configured
<1>4. Branches' /\ ChecksumIsTrue'
  BY <1>1 DEF RInv, Branches, ChecksumIsTrue, Calls, WithBits, BlueGreen, Keeping
<1>5. QED
  BY <1>3, <1>4 DEF RInv

(* The reverse gives the original its name back, unless it deleted it.      *)
LEMMA ReverseRenameKeeps == Recoverable /\ IInv /\ RInv /\ ReverseRename => RInv'
<1> SUFFICES ASSUME Recoverable, IInv, RInv, ReverseRename PROVE RInv'
  OBVIOUS
<1>1. /\ pc = "revRename" /\ pc \in Calls /\ UNCHANGED <<local, cfg, tf, kind, orig, d>>
      /\ kind \in BlueGreen /\ d.id \notin live
      /\ orig \in live => ~NameTaken(OrigName, orig)
  BY NoReject DEF ReverseRename, world, op, Calls
<1>2. PICK a \in Answers :
        /\ Answer(a, orig \in live /\ ~NameTaken(OrigName, orig))
        /\ Effect(a, orig, [app[orig] EXCEPT !.name = OrigName])
        /\ Return(IF a = "ok" THEN "rolledBack" ELSE "rewindFailed")
  BY DEF ReverseRename
<1>3. pc' = "return" /\ result' \in {"rolledBack", "rewindFailed"} /\ live' = live
  BY <1>2 DEF Return, Effect, live
<1>4. \A h \in live : IF h = orig THEN app'[h].name = OrigName ELSE app'[h] = app[h]
  <2>1. CASE orig \notin live
    BY <1>2, <2>1 DEF Effect, live
  <2>2. CASE orig \in live
    <3>1. (orig \in live /\ ~NameTaken(OrigName, orig)) = TRUE
      BY <1>1, <2>2 DEF NameTaken
    <3>2. a = "ok"
      BY <1>1, <1>2, <3>1, Succeeds DEF Sure
    <3>3. app' = [app EXCEPT ![orig] = [app[orig] EXCEPT !.name = OrigName]]
      BY <1>2, <3>2 DEF Effect
    <3>4. app[orig] \in App
      BY <2>2 DEF IInv, TypeOK
    <3>5. QED
      BY <2>2, <3>3, <3>4 DEF live, App
  <2>3. QED
    BY <2>1, <2>2
<1>5. /\ tf'.name \in Configured
      /\ OnePath => tf'.path = cfg.path /\ d'.path = cfg.path
  BY <1>1 DEF RInv, NamesAreBack
<1>6. NamesAreBack'
  BY <1>1, <1>3, <1>4, <1>5, NamesLeft DEF Renamed, Calls
<1>7. Branches' /\ ChecksumIsTrue'
  BY <1>1, <1>3 DEF RInv, Branches, ChecksumIsTrue, Calls, BlueGreen, Keeping, WithBits
<1>8. QED
  BY <1>6, <1>7 DEF RInv

(* A resource that Terraform keeps without taint has the package that its   *)
(* path_sha1 says.                                                          *)
LEMMA EndKeeps == IInv /\ RInv /\ EndOperation => RInv'
<1> SUFFICES ASSUME IInv, RInv, EndOperation PROVE RInv'
  OBVIOUS
<1>1. /\ pc = "return" /\ pc' = "idle" /\ UNCHANGED <<local, cfg, app, kind, orig, d>>
      /\ live' = live /\ NoGuid \notin live /\ d \in Data
  BY AppsAssumption DEF AppsAssumption, EndOperation, world, op, live, IInv, TypeOK
<1>2. /\ tf'.id = d.id /\ tf'.name = d.name /\ tf'.path = d.path
      /\ tf'.localSha = d.localSha
      /\ tf'.tainted = (tf.id = NoGuid /\ d.id # NoGuid /\ result # "ok")
  BY <1>1 DEF EndOperation, Data
<1>3. /\ tf'.name \in Configured
      /\ OnePath => tf'.path = cfg.path /\ d'.path = cfg.path
  BY <1>1, <1>2, ConfiguredFacts DEF RInv, NamesAreBack
<1>4. NamesAreBack'
  BY <1>1, <1>3, NamesLeft DEF Renamed, Calls
<1>5. tf'.id \in live' /\ ~tf'.tainted => app'[tf'.id].bits = tf'.localSha
  BY <1>1, <1>2 DEF RInv, ChecksumIsTrue, Branches, HasArchive
<1>6. Branches' /\ ChecksumIsTrue'
  BY <1>1, <1>5 DEF Branches, ChecksumIsTrue, Calls
<1>7. QED
  BY <1>4, <1>6 DEF RInv

(* The platform touches neither names nor packages.                         *)
LEMMA PlatformKeeps == IInv /\ RInv /\ Platform => RInv'
<1> SUFFICES ASSUME IInv, RInv, NEW g \in live, Stage(g) \/ RunInstances(g)
             PROVE  RInv'
  BY DEF Platform
<1>1. UNCHANGED <<local, cfg, tf, pc, kind, d, orig, result>>
  BY DEF Stage, RunInstances, world, op
<1>2. /\ live' = live
      /\ \A h \in live : /\ app'[h].name = app[h].name /\ app'[h].bits = app[h].bits
                         /\ app'[h].routes = app[h].routes
  <2>1. app[g] \in App /\ app \in [live -> App]
    BY DEF IInv, TypeOK
  <2>2. PICK new : /\ Effect("ok", g, new) /\ new.name = app[g].name
                   /\ new.bits = app[g].bits /\ new.routes = app[g].routes
    <3>1. /\ [app[g] EXCEPT !.pkg = "STAGED"] \in App
          /\ [app[g] EXCEPT !.pkg = "STAGED"].name = app[g].name
          /\ [app[g] EXCEPT !.pkg = "STAGED"].bits = app[g].bits
          /\ [app[g] EXCEPT !.pkg = "STAGED"].routes = app[g].routes
      BY <2>1 DEF App
    <3>2. /\ Settle([app[g] EXCEPT !.pkg = "STAGED"]).name = app[g].name
          /\ Settle([app[g] EXCEPT !.pkg = "STAGED"]).bits = app[g].bits
          /\ Settle([app[g] EXCEPT !.pkg = "STAGED"]).routes = app[g].routes
      BY <3>1, SettleFacts
    <3>3. CASE Effect("ok", g, Settle([app[g] EXCEPT !.pkg = "STAGED"]))
      BY <3>2, <3>3
    <3>4. CASE Effect("ok", g, [app[g] EXCEPT !.pkg = "FAILED"])
      BY <2>1, <3>4 DEF App
    <3>5. CASE Effect("ok", g, [app[g] EXCEPT !.up = "running"])
      BY <2>1, <3>5 DEF App
    <3>6. CASE Effect("ok", g, [app[g] EXCEPT !.up = "crashed"])
      BY <2>1, <3>6 DEF App
    <3>7. QED
      BY <3>3, <3>4, <3>5, <3>6 DEF Stage, RunInstances
  <2>3. QED
    BY <2>1, <2>2 DEF Effect, live
<1>3. pc \in Calls /\ kind \in BlueGreen => orig \in live \/ pc = "revRename"
  BY DEF IInv, TargetLive
<1>4. NamesAreBack'
  <2>1. pc = "plan" /\ tf.id # NoGuid => tf.id \in live
    BY DEF IInv, TargetLive
  <2>2. OrigName' = OrigName /\ \A h : Renamed(h)' <=> Renamed(h)
    BY <1>1 DEF OrigName, Renamed
  <2> HIDE DEF OrigName, Renamed
  <2>3. /\ \A h, k \in live' : app'[h].name = app'[k].name => h = k
        /\ \A h \in live' : ~Renamed(h) => app'[h].name \in Configured
        /\ \A h \in live' : Renamed(h) =>
             /\ app'[h].name = IF pc = "rename" THEN OrigName ELSE Venerable(OrigName)
             /\ \/ pc = "revDelete" /\ d.id = h
                \/ \A k \in live' \ {h, d.id} : app'[k].name # OrigName
    BY <1>2 DEF RInv, NamesAreBack
  <2>4. QED
    BY <1>1, <1>2, <2>1, <2>2, <2>3 DEF RInv, NamesAreBack, Configured
<1>5. Branches'
  BY <1>1 DEF RInv, Branches
<1>6. ChecksumIsTrue'
  <2>1. pc = "plan" /\ tf.id # NoGuid => tf.id \in live
    BY DEF IInv, TargetLive
  <2>2. pc \in Calls /\ kind = "bgRestage" /\ pc # "revRename" => orig \in live
    BY <1>3 DEF BlueGreen
  <2>3. pc \in WithBits => d.id \in live
    BY DEF IInv, TargetLive, WithBits, AfterCreate
  <2>4. QED
    BY <1>1, <1>2, <2>1, <2>2, <2>3 DEF RInv, ChecksumIsTrue, HasArchive
<1>7. QED
  BY <1>4, <1>5, <1>6 DEF RInv

(* An edit of the configuration is to another one, and the archive is       *)
(* edited between two runs only.                                            *)
LEMMA EditKeeps ==
  Recoverable /\ IInv /\ RInv /\ (EditConfig \/ EditArchive) => RInv'
<1> SUFFICES ASSUME Recoverable, IInv, RInv, EditConfig \/ EditArchive PROVE RInv'
  OBVIOUS
<1>1. /\ pc = "idle" /\ UNCHANGED <<tf, app, pc, kind, orig, d, result>>
      /\ live' = live
  BY DEF Recoverable, EditConfig, EditArchive, op, world, live
<1>2. OnePath => cfg'.path = cfg.path
  BY DEF EditConfig, EditArchive, OnePath, IInv, TypeOK
<1>3. NamesAreBack'
  <2>1. /\ \A g, h \in live : app[g].name = app[h].name => g = h
        /\ \A g \in live : app[g].name \in Configured
        /\ tf.name \in Configured
        /\ OnePath => tf.path = cfg.path /\ d.path = cfg.path
    BY <1>1 DEF RInv, NamesAreBack, Renamed, Calls
  <2>2. QED
    BY <1>1, <1>2, <2>1 DEF NamesAreBack, Renamed, Calls, Configured
<1>4. QED
  BY <1>1, <1>3 DEF RInv, Branches, ChecksumIsTrue, Calls

(* The resource data of a plan that has no resource.                        *)
LEMMA AbsentFacts ==
  /\ Absent.id = NoGuid /\ Absent.name = cfg.name /\ Absent.path = cfg.path
  /\ Absent.modified = FALSE
  BY DEF Absent, Planned

(* A run begins with what is there: when it is what was there, the package  *)
(* is the archive.                                                          *)
LEMMA RefreshKeeps == IInv /\ RInv /\ Refresh => RInv'
<1> SUFFICES ASSUME IInv, RInv, Refresh PROVE RInv'
  OBVIOUS
<1>1. /\ pc = "idle" /\ pc' = "plan" /\ UNCHANGED <<local, cfg, app, kind, orig, d>>
      /\ live' = live /\ NoGuid \notin live /\ tf \in Data
  BY AppsAssumption DEF AppsAssumption, Refresh, world, op, live, IInv, TypeOK
<1>2. /\ \A g, h \in live : app[g].name = app[h].name => g = h
      /\ \A g \in live : app[g].name \in Configured
      /\ OnePath => tf.path = cfg.path /\ d.path = cfg.path
  BY <1>1 DEF RInv, NamesAreBack, Renamed, Calls
<1>3. ASSUME tf'.name \in Configured, tf'.id # NoGuid => tf'.name = app[tf'.id].name,
             OnePath => tf'.path = cfg.path
      PROVE  NamesAreBack'
  BY <1>1, <1>2, <1>3 DEF NamesAreBack, Renamed, Calls, Configured
<1>4. CASE tf.id \in live
  <2>1. PICK remote : tf' = Read(tf, remote)
    BY <1>4 DEF Refresh
  <2>2. /\ tf'.id = tf.id /\ tf'.name = app[tf.id].name /\ tf'.path = tf.path
        /\ tf'.localSha = local[tf.path] /\ tf'.routes \subseteq app[tf.id].routes
        /\ tf'.tainted = tf.tainted
        /\ tf'.modified = (local[tf.path] # tf.localSha \/ remote # tf.remoteSha)
    BY <1>1, <2>1 DEF Read, Data
  <2>3. NamesAreBack'
    BY <1>2, <1>3, <1>4, <2>2
  <2>4. ~tf'.tainted /\ ~tf'.modified => app[tf.id].bits = local[tf.path]
    BY <1>1, <1>4, <2>2 DEF RInv, ChecksumIsTrue
  <2>5. Branches' /\ ChecksumIsTrue'
    BY <1>1, <2>2, <2>4 DEF Branches, ChecksumIsTrue, Calls
  <2>6. QED
    BY <2>3, <2>5 DEF RInv
<1>5. CASE tf.id \notin live
  <2>1. tf' = Absent
    BY <1>5 DEF Refresh
  <2>2. tf'.id = NoGuid /\ tf'.name = cfg.name /\ tf'.path = cfg.path
    BY <2>1, AbsentFacts
  <2>3. NamesAreBack'
    BY <1>3, <2>2, ConfiguredFacts
  <2>4. Branches' /\ ChecksumIsTrue'
    BY <1>1, <2>2 DEF Branches, ChecksumIsTrue, Calls
  <2>5. QED
    BY <2>3, <2>4 DEF RInv
<1>6. QED
  BY <1>4, <1>5

(* A run that has nothing to do ends; none ends before its operation.       *)
LEMMA IdleKeeps == Recoverable /\ IInv /\ RInv /\ (NothingToDo \/ RefreshOnly) => RInv'
<1> SUFFICES ASSUME Recoverable, IInv, RInv, NothingToDo \/ RefreshOnly PROVE RInv'
  OBVIOUS
<1>1. ~RefreshOnly
  BY DEF RefreshOnly, Mishap, Recoverable, Sure
<1>2. /\ pc = "plan" /\ pc' = "idle" /\ InSync
      /\ UNCHANGED <<local, cfg, tf, app, kind, orig, d>> /\ live' = live
  BY <1>1 DEF NothingToDo, world, op, live
<1>3. ~tf.modified /\ ~tf.tainted /\ tf.id # NoGuid
  <2>1. tf.modified = Absent.modified
    BY <1>2 DEF InSync, Attrs
  <2>2. QED
    BY <1>2, <2>1, AbsentFacts DEF InSync
<1>4. QED
  <2>1. NamesAreBack'
    BY <1>2 DEF RInv, NamesAreBack, Renamed, Calls, Configured
  <2>2. QED
    BY <1>2, <1>3, <2>1 DEF RInv, Branches, ChecksumIsTrue, Calls

(* A deletion that is asked for leaves what has other names.                *)
LEMMA DestroyKeeps == Recoverable /\ IInv /\ RInv /\ (Destroy \/ Replace) => RInv'
<1> SUFFICES ASSUME Recoverable, IInv, RInv, Destroy \/ Replace PROVE RInv'
  OBVIOUS
<1>1. PICK next \in {"idle", "plan"} : Delete(next)
  BY DEF Destroy, Replace
<1>2. /\ pc = "plan" /\ tf.id \in live
      /\ UNCHANGED <<local, cfg, kind, orig, d>>
  BY <1>1 DEF Delete, op, IInv, TargetLive
<1>3. DeleteApp("ok", tf.id) /\ tf' = Absent /\ pc' = next
  <2>1. PICK a \in Answers : /\ Answer(a, tf.id \in live)
                             /\ DeleteApp(a, tf.id)
                             /\ tf' = IF a = "ok" THEN Absent ELSE tf
                             /\ pc' = IF a = "ok" THEN next ELSE "idle"
    BY <1>1 DEF Delete
  <2>2. (tf.id \in live) = TRUE
    BY <1>2
  <2>3. a = "ok"
    BY <1>2, <2>1, <2>2, Succeeds DEF Sure
  <2>4. QED
    BY <2>1, <2>3
<1>4. live' = live \ {tf.id} /\ \A h \in live' : app'[h] = app[h]
  BY <1>3, DeleteFacts DEF IInv, TypeOK
<1>5. tf'.id = NoGuid /\ tf'.name = cfg.name /\ tf'.path = cfg.path
  BY <1>3, AbsentFacts
<1>6. NamesAreBack'
  <2>1. /\ \A g, h \in live : app[g].name = app[h].name => g = h
        /\ \A g \in live : app[g].name \in Configured
        /\ OnePath => d.path = cfg.path
    BY <1>2 DEF RInv, NamesAreBack, Renamed, Calls
  <2>2. QED
    BY <1>2, <1>3, <1>4, <1>5, <2>1, ConfiguredFacts
       DEF NamesAreBack, Renamed, Calls, Configured
<1>7. QED
  BY <1>2, <1>3, <1>4, <1>5, <1>6, ConfiguredFacts DEF RInv, Branches, ChecksumIsTrue, Calls

(* createOrUpdate with a change of the package deploys it.                  *)
LEMMA BranchKeeps ==
  ASSUME NEW x, ~x.noDeploy, x.id # NoGuid
  PROVE  /\ Branch(x) \in {"bgDeploy", "bgRestage"} \cup Keeping
         /\ "modified" \in Changed(x) => Branch(x) = "bgDeploy"
<1>1. Branch(x) =
        IF Changed(x) = {"routes"} THEN "routes"
        ELSE IF Changed(x) \in SUBSET {"inst", "name"} THEN "attrs"
        ELSE IF IsBitsDiff(x) THEN "bgDeploy"
        ELSE IF x.noRestage THEN "restart" ELSE "bgRestage"
  BY DEF Branch
<1>2. "modified" \in Changed(x) => IsBitsDiff(x)
  BY DEF IsBitsDiff
<1>3. QED
  BY <1>1, <1>2 DEF Keeping

(* An operation begins with an application that has the name it is to give  *)
(* back, or none; when it is not to deploy, that one's package is true.     *)
LEMMA BeginKeeps ==
  ASSUME IInv, RInv, pc = "plan", NEW x, createOrUpdate(x),
         UNCHANGED <<world, tf, app>>, x.name = cfg.name, x.path = cfg.path,
         \/ x.id = NoGuid /\ tf.id = NoGuid
         \/ /\ x.id \in live /\ ~x.noDeploy
            /\ app[x.id].name = IF tf.id = NoGuid THEN x.name ELSE tf.name
            /\ "modified" \notin Changed(x) => HasArchive(x.id, x)
  PROVE  RInv'
<1>1. /\ kind' = Branch(x) /\ (kind' = "create" <=> x.id = NoGuid)
      /\ pc' = FirstCall[kind'] /\ d' = x /\ orig' = x.id /\ kind' \in Kinds
      /\ UNCHANGED <<local, cfg, tf, app, result>> /\ live' = live
  BY BranchCases DEF createOrUpdate, Proceed, world, live
<1>2. /\ pc' \in {"create", "routes", "attrs", "stop", "params", "rename"}
      /\ kind' \in BlueGreen <=> pc' = "rename"
      /\ kind' = "create" <=> pc' = "create"
      /\ kind' \in {"routes", "attrs"} => pc' = kind'
      /\ pc' = "stop" => kind' = "inPlace"
      /\ pc' = "params" <=> kind' = "restart"
      /\ pc' = "attrs" => kind' = "attrs"
  BY <1>1 DEF Kinds, FirstCall, BlueGreen
<1>3. NoGuid \notin live
  BY ConfiguredFacts
<1>4. NamesAreBack'
  <2>1. /\ \A g, h \in live : app[g].name = app[h].name => g = h
        /\ \A g \in live : app[g].name \in Configured
        /\ tf.name \in Configured /\ (OnePath => tf.path = cfg.path)
    BY DEF RInv, NamesAreBack, Renamed, Calls
  <2>2. kind' \in BlueGreen /\ orig' \in live => app[orig'].name = OrigName'
    BY <1>1, <1>3 DEF OrigName
  <2>3. \A h \in live' : Renamed(h)' =>
          /\ pc' = "rename" /\ app'[h].name = OrigName'
          /\ \A k \in live' \ {h, d'.id} : app'[k].name # OrigName'
    BY <1>1, <1>2, <2>1, <2>2 DEF Renamed
  <2> HIDE DEF OrigName
  <2>4. QED
    BY <1>1, <1>2, <2>1, <2>3 DEF NamesAreBack, Configured
<1>5. CASE x.id = NoGuid /\ tf.id = NoGuid
  <2>1. kind' = "create" /\ pc' = "create" /\ orig' = NoGuid /\ d'.id = NoGuid
    BY <1>1, <1>2, <1>5
  <2>2. Branches' /\ ChecksumIsTrue'
    BY <1>1, <1>5, <2>1 DEF Branches, ChecksumIsTrue, WithBits, Keeping
  <2>3. QED
    BY <1>4, <2>2 DEF RInv
<1>6. CASE /\ x.id \in live /\ ~x.noDeploy
           /\ "modified" \notin Changed(x) => HasArchive(x.id, x)
  <2>1. /\ kind' \in {"bgDeploy", "bgRestage"} \cup Keeping
        /\ kind' # "bgDeploy" => HasArchive(x.id, x)
    BY <1>1, <1>3, <1>6, BranchKeeps
  <2>2. pc' \in Calls /\ pc' \notin {"create", "stop", "return", "plan", "idle"}
        /\ pc' \notin WithBits
    BY <1>2, <2>1 DEF Calls, Keeping, WithBits
  <2>3. Branches'
    BY <1>1, <1>2, <2>1, <2>2 DEF Branches, Keeping, Restarting
  <2>4. ChecksumIsTrue'
    BY <1>1, <1>6, <2>1, <2>2 DEF ChecksumIsTrue, HasArchive, Keeping
  <2>5. QED
    BY <1>4, <2>3, <2>4 DEF RInv
<1>7. QED
  BY <1>5, <1>6

(* Create takes over what it finds under the name, or makes an application; *)
(* Update works on the resource of the state.                               *)
LEMMA OperationKeeps ==
  Recoverable /\ IInv /\ RInv /\ (Create \/ Update) => RInv'
<1> SUFFICES ASSUME Recoverable, IInv, RInv, Create \/ Update PROVE RInv'
  OBVIOUS
<1>1. /\ pc = "plan" /\ UNCHANGED <<world, tf, app>> /\ NoGuid \notin live
      /\ ~cfg.noDeploy /\ tf \in Data
  BY AppsAssumption DEF AppsAssumption, Create, Update, IInv, TypeOK, Recoverable
<1>2. ASSUME NEW g \in live, app[g].name = cfg.name,
             createOrUpdate([Planned(g, NoBits, NoBits) EXCEPT !.modified = TRUE]),
             tf.id = NoGuid
      PROVE  RInv'
  <2> DEFINE x == [Planned(g, NoBits, NoBits) EXCEPT !.modified = TRUE]
  <2>1. /\ x.id = g /\ x.name = cfg.name /\ x.path = cfg.path
        /\ x.noDeploy = cfg.noDeploy
    BY DEF Planned
  <2>2. createOrUpdate(x)
    BY <1>2
  <2> HIDE DEF x
  <2>3. "modified" \in Changed(x)
    BY <1>2 DEF Changed, Attrs
  <2>4. QED
    BY <1>1, <1>2, <2>1, <2>2, <2>3, BeginKeeps
<1>3. ASSUME createOrUpdate(Absent), tf.id = NoGuid PROVE RInv'
  BY <1>1, <1>3, AbsentFacts, BeginKeeps
<1>4. CASE Create
  BY <1>2, <1>3, <1>4 DEF Create
<1>5. CASE Update
  <2> DEFINE x == Planned(tf.id, tf.localSha, tf.remoteSha)
  <2>1. /\ x.id = tf.id /\ x.name = cfg.name /\ x.path = cfg.path
        /\ x.noDeploy = cfg.noDeploy /\ x.modified = FALSE /\ x.localSha = tf.localSha
    BY DEF Planned
  <2>2. createOrUpdate(x) /\ tf.id # NoGuid /\ ~tf.tainted
    BY <1>5 DEF Update
  <2> HIDE DEF x
  <2>3. tf.id \in live
    BY <1>1, <2>2 DEF IInv, TargetLive
  <2>4. "modified" \notin Changed(x) => ~tf.modified
    BY <2>1, <2>2 DEF Changed, Attrs
  <2>5. "modified" \notin Changed(x) => HasArchive(x.id, x)
    <3>1. ~tf.modified => app[tf.id].bits = tf.localSha /\ tf.localSha = local[tf.path]
      BY <1>1, <2>2 DEF RInv, ChecksumIsTrue
    <3>2. OnePath => tf.path = cfg.path
      BY DEF RInv, NamesAreBack
    <3>3. QED
      BY <2>1, <2>4, <3>1, <3>2 DEF HasArchive
  <2>6. app[x.id].name = tf.name
    BY <1>1, <2>1, <2>2 DEF RInv, NamesAreBack
  <2>7. QED
    BY <1>1, <2>1, <2>2, <2>3, <2>5, <2>6, BeginKeeps
<1>6. QED
  BY <1>4, <1>5

(* Every step keeps what runs leave behind. *)
LEMMA RecoveryStep == Recoverable /\ IInv /\ RInv /\ [Next]_vars => RInv'
<1> SUFFICES ASSUME Recoverable, IInv, RInv, [Next]_vars PROVE RInv'
  OBVIOUS
<1>1. IInv'
  BY Inductive
<1>2. CASE UNCHANGED vars
  BY <1>2 DEF vars, RInv, NamesAreBack, Renamed, OrigName, Configured, Branches,
              ChecksumIsTrue, HasArchive, live
<1>3. CASE Terraform
  BY <1>3, RefreshKeeps, IdleKeeps, DestroyKeeps, OperationKeeps DEF Terraform
<1>4. CASE Provider
  BY <1>1, <1>4, RenameKeeps, CreateKeeps, BindKeeps, PackageKeeps, ShaKeeps,
     InPlaceKeeps, DeleteOrigKeeps, ReverseDeleteKeeps, ReverseRenameKeeps, EndKeeps DEF Provider
<1>5. CASE Platform
  BY <1>5, PlatformKeeps
<1>6. CASE Operator
  <2>1. ~Crash
    BY DEF Crash, Mishap, Recoverable, Sure
  <2>2. QED
    BY <1>6, <2>1, EditKeeps, IdleKeeps, DestroyKeeps DEF Operator
<1>7. QED
  BY <1>2, <1>3, <1>4, <1>5, <1>6 DEF Next

(* What holds of every run that Recoverable speaks of.                      *)
LEMMA Recovery == ASSUME Recoverable PROVE Spec => []RInv
<1>1. Init => RInv
  BY RecoveryInit
<1>2. IInv /\ RInv /\ [Next]_vars => RInv'
  BY RecoveryStep
<1>3. QED
  BY <1>1, <1>2, Invariance, PTL DEF Spec

(* An update that succeeds leaves the archive it was run with deployed      *)
(* (README.md:750), if the code is always at the same path.                 *)
THEOREM SuccessDeploys ==
  ASSUME Recoverable, OnePath PROVE Spec => []UpdateDeploysBits
<1>1. RInv => UpdateDeploysBits
  BY DEF RInv, ChecksumIsTrue, HasArchive, UpdateDeploysBits
<1>2. QED
  BY <1>1, Recovery, PTL

(* A plan that finds nothing to do speaks of an application that has the    *)
(* archive and every route (README.md:748).                                 *)
THEOREM EmptyPlanIsDeployed == ASSUME Recoverable PROVE Spec => []NoChangeIsDeployed
<1>1. RInv => NoChangeIsDeployed
  <2> SUFFICES ASSUME RInv, pc = "plan", InSync
               PROVE  app[tf.id].bits = tf.localSha /\ cfg.routes \subseteq app[tf.id].routes
    BY DEF NoChangeIsDeployed
  <2>1. tf.modified = Absent.modified /\ tf.routes = Absent.routes
    BY DEF InSync, Attrs
  <2>2. ~tf.modified /\ tf.routes = cfg.routes
    BY <2>1 DEF Absent, Planned
  <2>3. QED
    BY <2>2 DEF InSync, RInv, ChecksumIsTrue
<1>2. QED
  BY <1>1, Recovery, PTL

(* A plan that finds nothing to do leaves no other application behind, if   *)
(* the application always has the same name.                                *)
THEOREM EmptyPlanIsAlone ==
  ASSUME Recoverable, OneName PROVE Spec => []NoLeftovers
<1>1. IInv /\ RInv => NoLeftovers
  <2> SUFFICES ASSUME IInv, RInv, pc = "plan", InSync PROVE live = {tf.id}
    BY DEF NoLeftovers
  <2>1. tf.id \in live
    BY DEF IInv, TargetLive, InSync
  <2>2. \A g \in live : app[g].name \in Configured
    BY DEF RInv, NamesAreBack, Renamed, Calls
  <2>3. \A g, h \in live : app[g].name = app[h].name
    BY <2>2 DEF Configured, OneName
  <2>4. QED
    BY <2>1, <2>3 DEF RInv, NamesAreBack
<1>2. QED
  BY <1>1, Recovery, Invariance, PTL
=============================================================================
