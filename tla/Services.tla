------------------------------ MODULE Services ------------------------------
(***************************************************************************)
(* The service resources (resources/services.go) of one configuration.     *)
(* Terraform runs their operations at the same time, in one provider       *)
(* process; the CLI's repositories they call take the space they act in    *)
(* from a setting that all operations share (cf_client/                    *)
(* terraform_repository.go), and that each operation sets when it begins.  *)
(*                                                                         *)
(* The Cloud Controller, the CLI's repositories and Terraform's core are   *)
(* modelled from how services.go uses them. An instance is ready at once:  *)
(* services.go does not wait for a broker that is not.                     *)
(***************************************************************************)
EXTENDS Naturals, Functions

CONSTANTS
  Resources,   \* the service resources of the configuration
  Guids, NoGuid,
  Spaces, NoSpace,
  Names, Plans, NoPlan,
  Tags, NoTags,  \* sets of tags; the empty one
  Urls, NoUrl, \* the syslog drain and route service URLs as one; none of them
  Params,      \* update_params
  Apps,        \* applications that may be bound to an instance
  Configs,     \* what the operator may write for each resource
  Existing,    \* instances the spaces may hold at first
  Failing, MaxMishaps,   \* which calls may fail, how often
  MaxEdits     \* bound on the operator's edits and on bindings of others

Config == [name : Names, space : Spaces, ups : BOOLEAN, plan : Plans,
           tags : Tags, url : Urls, upd : Params]
Data == [id : Guids \cup {NoGuid}, name : Names, space : Spaces, ups : BOOLEAN,
         plan : Plans, tags : Tags, url : Urls, upd : Params, tainted : BOOLEAN]

(* An instance: user provided ones have no plan. "told" is what its broker  *)
(* was sent last when the instance was updated.                             *)
Instance == [name : Names, space : Spaces \cup {NoSpace}, plan : Plans \cup {NoPlan},
             tags : Tags, url : Urls, told : Params \cup {NoPlan}, bound : SUBSET Apps]

ASSUME ServicesAssumption ==
  /\ NoGuid \notin Guids /\ NoSpace \notin Spaces /\ NoPlan \notin Plans
  /\ NoTags \in Tags /\ NoUrl \in Urls
  /\ Existing \subseteq Instance /\ Configs \in [Resources -> SUBSET Config]
  /\ MaxMishaps \in Nat /\ MaxEdits \in Nat

VARIABLES
  space,    \* SpaceFields of the shared configuration
  svc,      \* the instances of all spaces, by GUID
  cfg,      \* the configuration of each resource
  tf,       \* Terraform's state of each resource
  pc,       \* the next call of each resource's operation
  op,       \* which operation that is
  d,        \* its resource data
  asked,    \* planGuid of a Create
  bindings, \* what a Delete listed and has not deleted yet
  result,   \* what it returned
  edits, mishaps

world == <<cfg, edits>>
mine  == <<tf, op, bindings>>
vars  == <<space, svc, cfg, tf, pc, op, d, asked, bindings, result, edits, mishaps>>

live == DOMAIN svc

Planned(r, id) ==
  [id |-> id, name |-> cfg[r].name, space |-> cfg[r].space, ups |-> cfg[r].ups,
   plan |-> cfg[r].plan, tags |-> cfg[r].tags, url |-> cfg[r].url,
   upd |-> cfg[r].upd, tainted |-> FALSE]

InSync(r) == tf[r] = Planned(r, tf[r].id) /\ tf[r].id # NoGuid

(* Mutants: any instance of the space is taken; one of any space.           *)
FoundAny(n) == {g \in live : svc[g].space = space}
FoundAnywhere(n) == {g \in live : svc[g].name = n}

(* FindInstanceByName looks in the shared space. *)
FoundByName(n) == {g \in live : svc[g].name = n /\ svc[g].space = space}

IsUserProvided(g) == svc[g].plan = NoPlan

(* resourceObject sets no plan. *)
ObjectPlan(x) == NoPlan

-----------------------------------------------------------------------------
Go(r, next)    == pc' = [pc EXCEPT ![r] = next] /\ UNCHANGED result
Return(r, res) == pc' = [pc EXCEPT ![r] = "return"] /\ result' = [result EXCEPT ![r] = res]

(* A call that is possible succeeds ("ok"), fails ("fail"), or takes effect *)
(* and its answer is lost ("lost"); one that is not is "rejected".          *)
Answers == {"ok", "fail", "lost", "rejected"}
Mishap(where) == where \in Failing /\ mishaps < MaxMishaps /\ mishaps' = mishaps + 1
Answer(a, where, possible) ==
  \/ possible  /\ a = "ok"               /\ UNCHANGED mishaps
  \/ possible  /\ a \in {"fail", "lost"} /\ Mishap(where)
  \/ ~possible /\ a = "rejected"         /\ UNCHANGED mishaps

Put(a, g, new) ==
  svc' = IF a \in {"ok", "lost"}
         THEN [h \in live \cup {g} |-> IF h = g THEN new ELSE svc[h]] ELSE svc

SetSpaceFields(s) == space' = s

(* GUIDs are not used again. *)
Fresh == Guids \ (live \cup UNION {{tf[r].id, d[r].id} : r \in Resources})

-----------------------------------------------------------------------------
(* A run of Terraform begins, with no other under way: every resource is    *)
(* read, in any order. Read does not look at the space or the plan's name.  *)
(* Mutant: user_provided is the instance's plan, not the test of it. *)
ReadPlan(x) ==
  IF x.id \in live THEN [x EXCEPT !.ups = svc[x.id].plan] ELSE [x EXCEPT !.id = NoGuid]

Read(x) ==
  IF x.id \in live
  THEN [x EXCEPT !.name = svc[x.id].name, !.tags = svc[x.id].tags,
                 !.ups = IsUserProvided(x.id), !.url = svc[x.id].url]
  ELSE [x EXCEPT !.id = NoGuid]

Refresh ==
  /\ \A r \in Resources : pc[r] = "idle"
  /\ tf' = [r \in Resources |-> Read(tf[r])]
  /\ pc' = [r \in Resources |-> "plan"]
  /\ \E r \in Resources : SetSpaceFields(tf[r].space)
  /\ result' = [r \in Resources |-> "none"]
  /\ UNCHANGED <<svc, world, op, d, asked, bindings, mishaps>>

NothingToDo(r) ==
  /\ pc[r] = "plan" /\ InSync(r)
  /\ Go(r, "idle")
  /\ UNCHANGED <<space, svc, world, mine, d, asked, mishaps>>

(* A tainted resource, and one whose user_provided changes, is deleted and  *)
(* created again.                                                           *)
ToReplace(r) == tf[r].id # NoGuid /\ (tf[r].tainted \/ tf[r].ups # cfg[r].ups)

Begin(r, name, x) ==
  /\ op' = [op EXCEPT ![r] = name] /\ d' = [d EXCEPT ![r] = x]
  /\ UNCHANGED <<svc, world, tf, bindings, mishaps>>

(* Create sets the shared space, and Exists, which it calls, again.         *)
Create(r) ==
  /\ pc[r] = "plan" /\ tf[r].id = NoGuid
  /\ Begin(r, "create", Planned(r, NoGuid))
  /\ SetSpaceFields(cfg[r].space)
  /\ asked' = [asked EXCEPT ![r] = NoPlan]
  /\ Go(r, "find")

Update(r) ==
  /\ pc[r] = "plan" /\ tf[r].id # NoGuid /\ ~InSync(r) /\ ~ToReplace(r)
  /\ Begin(r, "update", Planned(r, tf[r].id))
  /\ SetSpaceFields(cfg[r].space)
  /\ Go(r, "get")
  /\ UNCHANGED asked

Delete(r) ==
  /\ pc[r] = "plan" /\ ToReplace(r)
  /\ Begin(r, "delete", tf[r])
  /\ Go(r, "list")
  /\ UNCHANGED <<space, asked>>

-----------------------------------------------------------------------------
(* Exists without an id. In a Create an error counts as not found.          *)
Found(r, next, other) ==
  /\ \/ \E g \in FoundByName(d[r].name) :
          /\ d' = [d EXCEPT ![r].id = g]
          /\ Go(r, next) /\ UNCHANGED mishaps
     \/ /\ IF FoundByName(d[r].name) # {} THEN Mishap("find") ELSE UNCHANGED mishaps
        /\ Go(r, other) /\ UNCHANGED d
  /\ UNCHANGED <<space, svc, world, mine, asked>>

(* Mutant: Create does not look for the instance first. *)
FindNothing(r) ==
  /\ pc[r] = "find" /\ Go(r, "post")
  /\ UNCHANGED <<space, svc, world, mine, d, asked, mishaps>>

Find(r)      == pc[r] = "find" /\ Found(r, "compare", "post")
FindAgain(r) == pc[r] = "findAgain" /\ Found(r, "compare", "compare")

(* The request names the space that is set when it is made. A user provided *)
(* instance gets no tags.                                                   *)
Post(r) ==
  /\ pc[r] = "post"
  /\ asked' = [asked EXCEPT ![r] = IF d[r].ups THEN NoPlan ELSE d[r].plan]
  /\ \E a \in Answers, g \in Fresh :
       /\ Answer(a, "post", FoundByName(d[r].name) = {})
       /\ Put(a, g, [name |-> d[r].name, space |-> space, plan |-> asked'[r],
                     tags |-> IF d[r].ups THEN NoTags ELSE d[r].tags,
                     url |-> IF d[r].ups THEN d[r].url ELSE NoUrl, told |-> NoPlan,
                     bound |-> {}])
       /\ IF a = "ok" THEN Go(r, "again") ELSE Return(r, "failed")
  /\ UNCHANGED <<space, world, mine, d>>

(* Exists sets the space once more before it looks for the new instance.    *)
SetAgain(r) ==
  /\ pc[r] = "again"
  /\ SetSpaceFields(d[r].space)
  /\ Go(r, "findAgain")
  /\ UNCHANGED <<svc, world, mine, d, asked, mishaps>>

(* Create reads the instance, and updates it where it differs. Without an   *)
(* id it finds an empty one, and an update of that fails.                   *)
Differs(r) ==
  LET x == d[r]
      i == IF x.id \in live THEN svc[x.id] ELSE [plan |-> NoPlan, tags |-> NoTags, url |-> NoUrl]
  IN IF x.ups THEN i.url # x.url ELSE i.plan # asked[r] \/ i.tags # x.tags

Compare(r) ==
  /\ pc[r] = "compare"
  /\ \/ /\ UNCHANGED mishaps
        /\ CASE ~Differs(r)              -> Return(r, "ok")
             [] Differs(r) /\ d[r].ups  -> Go(r, "putUps")
             [] Differs(r) /\ ~d[r].ups -> Go(r, "put")
     \/ Mishap("read") /\ Return(r, "failed")
  /\ UNCHANGED <<space, svc, world, mine, d, asked>>

(* Update reads the instance too, and calls what its own object is.         *)
Get(r) ==
  /\ pc[r] = "get"
  /\ \/ /\ d[r].id \notin live
        /\ d' = [d EXCEPT ![r].id = NoGuid] /\ Return(r, "ok") /\ UNCHANGED <<asked, mishaps>>
     \/ /\ d[r].id \in live /\ ObjectPlan(d[r]) = NoPlan
        /\ Go(r, "putUps") /\ UNCHANGED <<d, asked, mishaps>>
     \/ /\ d[r].id \in live /\ ObjectPlan(d[r]) # NoPlan
        /\ Go(r, "put") /\ UNCHANGED <<d, mishaps>>
        /\ asked' = [asked EXCEPT ![r] = d[r].plan]
     \/ Mishap("read") /\ Return(r, "failed") /\ UNCHANGED <<d, asked>>
  /\ UNCHANGED <<space, svc, world, mine>>

Finish(r, a) == Return(r, IF a = "ok" THEN "ok" ELSE "failed")

(* UpdateServiceInstance: the broker gets the parameters and the plan, if   *)
(* there is one in the request.                                             *)
PutManaged(r) ==
  /\ pc[r] = "put"
  /\ LET g == d[r].id
     IN \E a \in Answers :
          /\ Answer(a, "put", g \in live /\ ~IsUserProvided(g))
          /\ Put(a, g, [svc[g] EXCEPT !.tags = d[r].tags, !.told = d[r].upd,
                                      !.plan = IF asked[r] = NoPlan THEN @ ELSE asked[r]])
          /\ Finish(r, a)
  /\ UNCHANGED <<space, world, mine, d, asked>>

(* UserProvidedService().Update: neither the name nor the space is sent.    *)
PutUserProvided(r) ==
  /\ pc[r] = "putUps"
  /\ LET g == d[r].id
     IN \E a \in Answers :
          /\ Answer(a, "putUps", g \in live /\ IsUserProvided(g))
          /\ Put(a, g, [svc[g] EXCEPT !.tags = d[r].tags, !.url = d[r].url])
          /\ Finish(r, a)
  /\ UNCHANGED <<space, world, mine, d, asked>>

(* Delete lists the bindings once, deletes them with one call each, and     *)
(* then the instance.                                                       *)
List(r) ==
  /\ pc[r] = "list"
  /\ \/ /\ d[r].id \in live
        /\ bindings' = [bindings EXCEPT ![r] = svc[d[r].id].bound]
        /\ Go(r, "unbind") /\ UNCHANGED mishaps
     \/ /\ IF d[r].id \in live THEN Mishap("read") ELSE UNCHANGED mishaps
        /\ Return(r, "failed") /\ UNCHANGED bindings
  /\ UNCHANGED <<space, svc, world, tf, op, d, asked>>

Unbind(r) ==
  /\ pc[r] = "unbind"
  /\ LET g == d[r].id
     IN \/ /\ bindings[r] = {}
           /\ Go(r, "delete") /\ UNCHANGED <<svc, bindings, mishaps>>
        \/ \E a \in Answers, b \in bindings[r] :
             /\ Answer(a, "unbind", g \in live /\ b \in svc[g].bound)
             /\ Put(a, g, [svc[g] EXCEPT !.bound = @ \ {b}])
             /\ bindings' = [bindings EXCEPT ![r] = @ \ {b}]
             /\ IF a = "ok" THEN Go(r, "unbind") ELSE Return(r, "failed")
  /\ UNCHANGED <<space, world, tf, op, d, asked>>

(* Mutant: the answer of the last call is not looked at. *)
DeleteInstanceBlind(r) ==
  /\ pc[r] = "delete"
  /\ LET g == d[r].id
     IN \E a \in Answers :
          /\ Answer(a, "delete", g \in live /\ svc[g].bound = {})
          /\ svc' = IF a \in {"ok", "lost"} THEN Restrict(svc, live \ {g}) ELSE svc
          /\ Return(r, "ok")
  /\ UNCHANGED <<space, world, mine, d, asked>>

DeleteInstance(r) ==
  /\ pc[r] = "delete"
  /\ LET g == d[r].id
     IN \E a \in Answers :
          /\ Answer(a, "delete", g \in live /\ svc[g].bound = {})
          /\ svc' = IF a \in {"ok", "lost"} THEN Restrict(svc, live \ {g}) ELSE svc
          /\ Finish(r, a)
  /\ UNCHANGED <<space, world, mine, d, asked>>

(* The operation returns. A deleted resource is created again at once.      *)
EndOperation(r) ==
  /\ pc[r] = "return"
  /\ LET x == d[r]
         gone == op[r] = "delete" /\ result[r] = "ok"
     IN /\ tf' = [tf EXCEPT ![r] =
                    IF gone THEN Planned(r, NoGuid)
                    ELSE [x EXCEPT !.tainted = \/ @
                                               \/ /\ op[r] = "create" /\ x.id # NoGuid
                                                  /\ result[r] = "failed"]]
        /\ pc' = [pc EXCEPT ![r] = IF gone THEN "plan" ELSE "idle"]
  /\ UNCHANGED <<space, svc, world, op, d, asked, bindings, result, mishaps>>

-----------------------------------------------------------------------------
(* Between two runs the operator edits a resource; others bind applications *)
(* to an instance at any time.                                              *)
Edit(r) ==
  /\ \A q \in Resources : pc[q] = "idle"
  /\ edits < MaxEdits /\ edits' = edits + 1
  /\ \E c \in Configs[r] \ {cfg[r]} : cfg' = [cfg EXCEPT ![r] = c]
  /\ UNCHANGED <<space, svc, mine, pc, d, asked, result, mishaps>>

Bind(g, b) ==
  /\ edits < MaxEdits /\ edits' = edits + 1
  /\ b \notin svc[g].bound
  /\ svc' = [svc EXCEPT ![g].bound = @ \cup {b}]
  /\ UNCHANGED <<space, cfg, mine, pc, d, asked, result, mishaps>>

Init ==
  /\ space = NoSpace
  /\ cfg \in {c \in [Resources -> UNION {Configs[r] : r \in Resources}] :
                \A r \in Resources : c[r] \in Configs[r]}
  /\ \/ svc = [g \in {} |-> CHOOSE i \in Instance : TRUE]
     \/ \E g \in Guids, i \in Existing : svc = [h \in {g} |-> i]
  /\ tf = [r \in Resources |-> Planned(r, NoGuid)] /\ d = tf
  /\ pc = [r \in Resources |-> "idle"] /\ op = [r \in Resources |-> "create"]
  /\ asked = [r \in Resources |-> NoPlan] /\ bindings = [r \in Resources |-> {}]
  /\ result = [r \in Resources |-> "none"]
  /\ edits = 0 /\ mishaps = 0

Operation(r) ==
  \/ NothingToDo(r) \/ Create(r) \/ Update(r) \/ Delete(r)
  \/ Find(r) \/ Post(r) \/ SetAgain(r) \/ FindAgain(r) \/ Compare(r)
  \/ Get(r) \/ PutManaged(r) \/ PutUserProvided(r)
  \/ List(r) \/ Unbind(r) \/ DeleteInstance(r) \/ EndOperation(r)

Next ==
  \/ Refresh
  \/ \E r \in Resources : Operation(r) \/ Edit(r)
  \/ \E g \in live, b \in Apps : Bind(g, b)

Spec == Init /\ [][Next]_vars

(* Terraform runs again and again, and its calls return. *)
FairSpec == /\ Spec
            /\ WF_vars(Refresh) /\ \A r \in Resources : WF_vars(Operation(r))

-----------------------------------------------------------------------------
TypeOK ==
  /\ space \in Spaces \cup {NoSpace} /\ cfg \in [Resources -> Config]
  /\ live \subseteq Guids /\ svc \in [live -> Instance]
  /\ tf \in [Resources -> Data] /\ d \in [Resources -> Data]
  /\ pc \in [Resources -> {"idle", "plan", "find", "post", "again", "findAgain", "get",
                           "compare", "put", "putUps", "list", "unbind", "delete", "return"}]
  /\ op \in [Resources -> {"create", "update", "delete"}]
  /\ asked \in [Resources -> Plans \cup {NoPlan}]
  /\ bindings \in [Resources -> SUBSET Apps]
  /\ result \in [Resources -> {"none", "ok", "failed"}]
  /\ edits \in 0 .. MaxEdits /\ mishaps \in 0 .. MaxMishaps

Held(r) == tf[r].id \in live

(* "Space id ... to register service inside" (README.md:431): the instance  *)
(* of a resource is in the resource's space.                                *)
InItsSpace == \A r \in Resources : Held(r) => svc[tf[r].id].space = tf[r].space

(* No instance belongs to two resources (of different names or spaces).     *)
NotShared ==
  \A r, q \in Resources : r # q /\ Held(r) => tf[r].id # tf[q].id

(* Operations that set the shared space under each other still take only    *)
(* instances of their own name, and no instance in no space at all.         *)
OwnName ==
  \A r \in Resources : Held(r) /\ pc[r] # "plan" =>
    svc[tf[r].id].space # NoSpace /\ svc[tf[r].id].name = tf[r].name

(* The state lets go of an instance only when the instance is gone: a       *)
(* deletion that fails half way (services.go:212, 220) can be run again.    *)
NeverForgets ==
  [][\A r \in Resources : Held(r) /\ tf'[r].id # tf[r].id => tf[r].id \notin live']_vars

(* What an Update cannot make good. Of any instance a new name is not sent  *)
(* (services.go:171). Of a managed one nothing is: the update is one for    *)
(* user provided services, which is refused (191).                          *)
Recovers(r) ==
  Held(r) /\ ~ToReplace(r) =>
    /\ svc[tf[r].id].name = cfg[r].name
    /\ IsUserProvided(tf[r].id) \/ Read(tf[r]) = Planned(r, tf[r].id)

(* Once nobody edits and no call fails, every run of Terraform ends, and    *)
(* finds every resource in sync with an instance, but for one that Recovers *)
(* excepts: creation, adoption, replacement and updates of user provided    *)
(* services come to an empty plan, updates of managed ones do not.          *)
Converges ==
  \A r \in Resources : /\ []<>(pc[r] = "plan")
                        /\ <>[]Recovers(r) => <>[](pc[r] = "plan" => InSync(r))
=============================================================================
