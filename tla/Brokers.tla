------------------------------ MODULE Brokers -------------------------------
(***************************************************************************)
(* The service broker resource (resources/service_broker.go): one broker,  *)
(* registered in the Cloud Controller, and who may use its plans. A plan   *)
(* is public, or visible in single organizations; the resource says it     *)
(* with entries of a service, and perhaps a plan, an organization or both, *)
(* and finds the entries again from what is visible.                       *)
(*                                                                         *)
(* The Cloud Controller, the CLI's repositories and Terraform's core are   *)
(* modelled from how service_broker.go uses them. Nobody else changes what *)
(* is visible; the broker may be deleted and may change its catalog.       *)
(***************************************************************************)
EXTENDS Naturals, SequencesExt

CONSTANTS
  Offerings,   \* the services of the broker
  Plans,       \* their plans
  ServiceOf,   \* the service of a plan
  Orgs,
  None,        \* an entry without a plan or without an organization
  Urls,        \* where a broker is: the url and the user name as one
  Passwords,
  Catalogs,    \* contents of /v2/catalog; also their checksum
  NoCatalog,   \* the checksum of a catalog that cannot be read
  Configs,     \* configurations the operator may write
  Failing, MaxMishaps,  \* which calls may fail, how often
  MaxEdits     \* bound on what the operator and others do

Entry == [svc : Offerings, plan : Plans \cup {None}, org : Orgs \cup {None}]
PlansOf(s) == {p \in Plans : ServiceOf[p] = s}
Alone(e)   == e.plan = None /\ e.org = None

(* checkAccess: "service_access" or "space_id" must be set. Of a broker of  *)
(* a space the entries are not looked at.                                   *)
Config == [url : Urls, pass : Passwords, scoped : BOOLEAN, access : SUBSET Entry]

ASSUME BrokersAssumption ==
  /\ None \notin Plans \cup Orgs \cup Passwords /\ NoCatalog \notin Catalogs
  /\ ServiceOf \in [Plans -> Offerings] /\ \A s \in Offerings : PlansOf(s) # {}
  /\ IsFiniteSet(Entry) /\ Configs \subseteq Config
  /\ \A c \in Configs : /\ c.scoped <=> c.access = {}
                        /\ \A e \in c.access : e.plan \in PlansOf(e.svc) \cup {None}
  /\ MaxMishaps \in Nat /\ MaxEdits \in Nat

(* The state Terraform keeps: "prev" is previous_password, "sha" is         *)
(* catalog_sha1, "modified" is catalog_has_changed.                         *)
Data == [there : BOOLEAN, url : Urls, pass : Passwords, scoped : BOOLEAN,
         access : SUBSET Entry, prev : Passwords \cup {None},
         sha : Catalogs \cup {NoCatalog}, modified : BOOLEAN, tainted : BOOLEAN]

(* The broker of the configured name; "cat" is the catalog the Cloud        *)
(* Controller read last.                                                    *)
Broker == [there : BOOLEAN, url : Urls, pass : Passwords, cat : Catalogs]

(* What an operation asks the Cloud Controller to do about a plan. *)
Call == [do : {"public", "private"}, plan : Plans, org : {None}]
        \cup [do : {"grant", "revoke"}, plan : Plans, org : Orgs]

VARIABLES
  served,   \* the catalog that is served at each url
  cfg,
  broker,
  pub,      \* the plans that are public
  vis,      \* the plans that are visible in an organization
  tf,       \* Terraform's state of the resource
  pc, op,   \* the operation's next step; which operation it is
  d,        \* its resource data
  seen,     \* the public plans of the broker that an Update read
  todo,     \* calls to make: sets of calls, one after the other
  result, edits, mishaps

world == <<served, cfg>>
cf    == <<broker, pub, vis>>
left  == <<seen, todo>>
vars  == <<served, cfg, broker, pub, vis, tf, pc, op, d, seen, todo,
           result, edits, mishaps>>

Access == {x \in Plans \X Orgs : x[1] \in pub \/ x \in vis}

(* What entries say (README.md:724-726): a service, or one plan of it, in   *)
(* all organizations or in one.                                             *)
Wanted(access) ==
  {x \in Plans \X Orgs : \E e \in access : /\ e.svc = ServiceOf[x[1]]
                                           /\ e.plan \in {None, x[1]}
                                           /\ e.org \in {None, x[2]}}

Planned(there, prev, sha) ==
  [there |-> there, url |-> cfg.url, pass |-> cfg.pass, scoped |-> cfg.scoped,
   access |-> cfg.access, prev |-> prev, sha |-> sha,
   modified |-> FALSE, tainted |-> FALSE]
Absent == Planned(FALSE, None, NoCatalog)

InSync == tf = Planned(TRUE, tf.prev, tf.sha)

(* Another space is a ForceNew. *)
ToReplace == tf.there /\ (tf.tainted \/ tf.scoped # cfg.scoped)

-----------------------------------------------------------------------------
Answers == {"ok", "fail", "lost", "rejected"}
Mishap(where) == where \in Failing /\ mishaps < MaxMishaps /\ mishaps' = mishaps + 1
Answer(a, where, possible) ==
  \/ possible  /\ a = "ok"               /\ UNCHANGED mishaps
  \/ possible  /\ a \in {"fail", "lost"} /\ Mishap(where)
  \/ ~possible /\ a = "rejected"         /\ UNCHANGED mishaps

Go(next)    == pc' = next /\ UNCHANGED result
Return(res) == pc' = "return" /\ result' = res

(* generateCatalogSha1: no checksum if the broker does not answer in time.  *)
CatalogSha1(url, sha) ==
  \/ sha = served[url] /\ UNCHANGED mishaps
  \/ sha = NoCatalog /\ Mishap("sha")

-----------------------------------------------------------------------------
(* Mutants: an organization that has one plan of a service is taken for one *)
(* that has them all; plan and organization of an entry are swapped.        *)
RetrievedAnyPlan(s, public) ==
  LET everywhere == {p \in PlansOf(s) : {p} \X Orgs \subseteq vis}
      single == {x \in vis : x[1] \in PlansOf(s) \ everywhere}
  IN IF PlansOf(s) \cap public # {} \/ everywhere = PlansOf(s)
     THEN {[svc |-> s, plan |-> None, org |-> None]}
     ELSE {[svc |-> s, plan |-> p, org |-> None] : p \in everywhere}
          \cup {[svc |-> s, plan |-> None, org |-> x[2]] : x \in single}
RetrievedSwapped(s, public) ==
  IF PlansOf(s) \cap public # {}
  THEN {[svc |-> s, plan |-> None, org |-> None]}
  ELSE {[svc |-> s, plan |-> x[2], org |-> x[1]] :
          x \in {y \in vis : y[1] \in PlansOf(s)}}

(* retrieveServicesAccessFromBroker: the entries of a service. One public   *)
(* plan is taken for all.                                                   *)
Retrieved(s, public) ==
  LET everywhere == {p \in PlansOf(s) : {p} \X Orgs \subseteq vis}
      single == {x \in vis : x[1] \in PlansOf(s) \ everywhere}
      whole  == {o \in Orgs : PlansOf(s) \X {o} \subseteq single}
  IN IF PlansOf(s) \cap public # {} \/ everywhere = PlansOf(s)
     THEN {[svc |-> s, plan |-> None, org |-> None]}
     ELSE {[svc |-> s, plan |-> p, org |-> None] : p \in everywhere}
          \cup {[svc |-> s, plan |-> None, org |-> o] : o \in whole}
          \cup {[svc |-> s, plan |-> x[1], org |-> x[2]] :
                  x \in {y \in single : y[2] \notin whole}}

(* getFullServiceAccessDef: the plans and organizations of an entry. The    *)
(* plan decides if there is one; a service alone stands for nothing.        *)
Full(e) == IF e.plan # None THEN {e.plan} \X Orgs
           ELSE IF e.org # None THEN PlansOf(e.svc) \X {e.org}
           ELSE {}

Calls(what, pairs) == {[do |-> what, plan |-> x[1], org |-> x[2]] : x \in pairs}
Flags(what, s)     == Calls(what, PlansOf(s) \X {None})

(* updateServiceAccess: what a Create asks for, for an entry.               *)
CreateCalls(e) ==
  IF e.plan # None /\ e.org # None THEN Calls("grant", {<<e.plan, e.org>>})
  ELSE IF Alone(e) THEN Flags("public", e.svc)
  ELSE Calls("grant", Full(e))

(* updateServicesAccessToPublicServicePlan: what an Update asks for first.  *)
FlagCalls(e) ==
  Flags(IF Alone(e) THEN "public" ELSE "private", e.svc)

(* The entries are a set, which the code goes through in some order.        *)
Orders == SetToSeqs(d.access)

-----------------------------------------------------------------------------
(* The operator edits the configuration; the catalog changes; the broker is *)
(* deleted, with its plans, by somebody else.                               *)
EditConfig ==
  /\ pc = "idle" /\ edits < MaxEdits /\ edits' = edits + 1
  /\ \E c \in Configs \ {cfg} : cfg' = c
  /\ UNCHANGED <<served, cf, tf, pc, op, d, left, result, mishaps>>

EditCatalog ==
  /\ edits < MaxEdits /\ edits' = edits + 1
  /\ \E u \in Urls, c \in Catalogs : /\ c # served[u]
                                     /\ served' = [served EXCEPT ![u] = c]
  /\ UNCHANGED <<cfg, cf, tf, pc, op, d, left, result, mishaps>>

Gone == /\ broker' = [broker EXCEPT !.there = FALSE]
        /\ pub' = {} /\ vis' = {}

DeletedByOthers ==
  /\ broker.there /\ edits < MaxEdits /\ edits' = edits + 1
  /\ Gone
  /\ UNCHANGED <<world, tf, pc, op, d, left, result, mishaps>>

(* Read: the password is said to be the one that was sent last. The old     *)
(* checksum is overwritten by the one it is compared with. An error of the  *)
(* retrieval is not looked at, and leaves the services before it.           *)
Read(x, access, sha) ==
  [x EXCEPT !.url = broker.url, !.pass = x.prev, !.sha = sha,
            !.modified = (sha # x.sha),
            !.access = IF x.scoped THEN @ ELSE access]

Retrieve(services) == UNION {Retrieved(s, pub) : s \in services}

Refresh ==
  /\ pc = "idle"
  /\ IF tf.there /\ broker.there
     THEN \/ \E sha \in Catalogs \cup {NoCatalog} :
               /\ CatalogSha1(broker.url, sha)
               /\ tf' = Read(tf, Retrieve(Offerings), sha)
          \/ \E S \in SUBSET Offerings \ {Offerings} :
               /\ Mishap("refresh")
               /\ tf' = Read(tf, Retrieve(S), served[broker.url])
     ELSE tf' = Absent /\ UNCHANGED mishaps
  /\ Go("plan")
  /\ UNCHANGED <<world, cf, op, d, left, edits>>

NothingToDo ==
  /\ pc = "plan" /\ InSync
  /\ Go("idle")
  /\ UNCHANGED <<world, cf, tf, op, d, left, edits, mishaps>>

(* Delete, of a resource the operator removes or of one to replace.         *)
Delete(next) ==
  /\ pc = "plan" /\ tf.there
  /\ \E a \in Answers : /\ Answer(a, "delete", broker.there)
                        /\ IF a \in {"ok", "lost"} THEN Gone ELSE UNCHANGED cf
                        /\ tf' = IF a = "ok" THEN Absent ELSE tf
                        /\ Go(IF a = "ok" THEN next ELSE "idle")
  /\ UNCHANGED <<world, op, d, left>>

Destroy == Delete("idle") /\ edits < MaxEdits /\ edits' = edits + 1
Replace == Delete("plan") /\ ToReplace /\ UNCHANGED edits

-----------------------------------------------------------------------------
(* Create takes a broker of the name as it is. An error counts as not found.*)
Create ==
  /\ pc = "plan" /\ ~tf.there
  /\ op' = "create"
  /\ \/ /\ broker.there /\ Go("sha") /\ UNCHANGED mishaps
        /\ d' = [Absent EXCEPT !.there = TRUE]
     \/ /\ IF broker.there THEN Mishap("find") ELSE UNCHANGED mishaps
        /\ Go("post") /\ d' = Absent
  /\ UNCHANGED <<world, cf, tf, left, edits>>

Post ==
  /\ pc = "post"
  /\ \E a \in Answers :
       /\ Answer(a, "post", ~broker.there)
       /\ broker' = IF a \in {"ok", "lost"}
                    THEN [there |-> TRUE, url |-> d.url, pass |-> d.pass,
                          cat |-> served[d.url]]
                    ELSE broker
       /\ IF a = "ok" THEN Go("findAgain") ELSE Return("failed")
  /\ UNCHANGED <<world, pub, vis, tf, op, d, left, edits>>

(* Its id is looked up by name; an error is not looked at.                  *)
FindAgain ==
  /\ pc = "findAgain"
  /\ \/ d' = [d EXCEPT !.there = broker.there] /\ UNCHANGED mishaps
     \/ d' = d /\ Mishap("find")
  /\ Go("sha")
  /\ UNCHANGED <<world, cf, tf, op, left, edits>>

(* Update reads the broker once; what it sees of the plans gets old.        *)
Update ==
  /\ pc = "plan" /\ tf.there /\ ~ToReplace /\ ~InSync
  /\ op' = "update" /\ d' = Planned(TRUE, tf.prev, tf.sha)
  /\ Go("get")
  /\ UNCHANGED <<world, cf, tf, left, edits, mishaps>>

Get ==
  /\ pc = "get"
  /\ \/ /\ broker.there /\ seen' = pub /\ Go("sha") /\ UNCHANGED <<d, mishaps>>
     \/ /\ ~broker.there /\ d' = [d EXCEPT !.there = FALSE] /\ Return("ok")
        /\ UNCHANGED <<seen, mishaps>>
     \/ Return("failed") /\ Mishap("get") /\ UNCHANGED <<d, seen>>
  /\ UNCHANGED <<world, cf, tf, op, todo, edits>>

(* Mutant: what was sent before is not compared. *)
DiffersNoPassword(sha) == d.url # broker.url \/ sha # d.sha

(* The broker is written if it differs; the state takes the password and    *)
(* the checksum before. The entries of a broker of a space are left alone.  *)
Differs(sha) == d.url # broker.url \/ d.pass # d.prev \/ sha # d.sha

Expose == IF d.scoped THEN Return("ok") /\ UNCHANGED todo
          ELSE /\ Go("expose")
               /\ \E q \in Orders : todo' = [i \in DOMAIN q |-> FlagCalls(q[i])]

Sha ==
  /\ pc = "sha"
  /\ \E sha \in Catalogs \cup {NoCatalog} :
       /\ CatalogSha1(IF op = "create" THEN d.url ELSE broker.url, sha)
       /\ d' = [d EXCEPT !.sha = sha, !.prev = d.pass]
       /\ IF op = "create"
          THEN /\ UNCHANGED todo
               /\ IF d.scoped THEN Return("ok") ELSE Go("open")
          ELSE IF Differs(sha) THEN Go("put") /\ UNCHANGED todo ELSE Expose
  /\ UNCHANGED <<world, cf, tf, op, seen, edits>>

(* The request has the url the broker has already, and the new password.    *)
Put ==
  /\ pc = "put"
  /\ \E a \in Answers :
       /\ Answer(a, "put", broker.there)
       /\ broker' = IF a \in {"ok", "lost"}
                    THEN [broker EXCEPT !.pass = d.pass, !.cat = served[broker.url]]
                    ELSE broker
       /\ IF a = "ok" THEN Expose ELSE Return("failed") /\ UNCHANGED todo
  /\ UNCHANGED <<world, pub, vis, tf, op, d, seen, edits>>

(* A Create reads its broker; without it no service is found. *)
Open ==
  /\ pc = "open"
  /\ \/ /\ d.there /\ broker.there /\ Go("change") /\ UNCHANGED mishaps
        /\ \E q \in Orders : todo' = [i \in DOMAIN q |-> CreateCalls(q[i])]
     \/ /\ IF d.there /\ broker.there THEN Mishap("get") ELSE UNCHANGED mishaps
        /\ Return("failed") /\ UNCHANGED todo
  /\ UNCHANGED <<world, cf, tf, op, d, seen, edits>>

(* Mutant: the entries that are there are not deleted. *)
DiffGrantOnly ==
  /\ pc = "expose" /\ todo = <<>>
  /\ todo' = <<Calls("grant", UNION {Full(e) : e \in d.access} \ vis)>>
  /\ Go("change")
  /\ UNCHANGED <<world, cf, tf, op, d, seen, edits, mishaps>>

(* Mutant: what is there is revoked first, and granted again. *)
DiffRevokeAll ==
  /\ pc = "expose" /\ todo = <<>>
  /\ todo' = <<Calls("revoke", vis), Calls("grant", UNION {Full(e) : e \in d.access})>>
  /\ Go("change")
  /\ UNCHANGED <<world, cf, tf, op, d, seen, edits, mishaps>>

(* An Update compares what is asked for with what it retrieves, with the    *)
(* public plans of before. The error of expanding what it retrieved is not  *)
(* looked at: then nothing is there to revoke.                              *)
Diff ==
  /\ pc = "expose" /\ todo = <<>>
  /\ LET dest == UNION {Full(e) : e \in d.access}
         source == UNION {Full(e) : e \in UNION {Retrieved(s, seen) : s \in Offerings}}
     IN \/ /\ UNCHANGED mishaps /\ Go("change")
           /\ todo' = <<Calls("grant", dest \ source), Calls("revoke", source \ dest)>>
        \/ /\ Mishap("diff") /\ Go("change")
           /\ todo' = <<Calls("grant", dest)>>
        \/ Mishap("diff") /\ Return("failed") /\ UNCHANGED todo
  /\ UNCHANGED <<world, cf, tf, op, d, seen, edits>>

(* One call. What is granted already is no error, what is not granted is    *)
(* not revoked. The first error ends the operation.                         *)
Perform ==
  /\ pc \in {"expose", "change"} /\ todo # <<>>
  /\ IF Head(todo) = {}
     THEN todo' = Tail(todo) /\ UNCHANGED <<pub, vis, pc, result, mishaps>>
     ELSE \E c \in Head(todo), a \in Answers :
            /\ Answer(a, c.do, broker.there \/ c.do = "revoke")
            /\ LET x == <<c.plan, c.org>>
                   done == a \in {"ok", "lost"}
               IN /\ pub' = CASE done /\ c.do = "public"  -> pub \cup {c.plan}
                              [] done /\ c.do = "private" -> pub \ {c.plan}
                              [] OTHER                    -> pub
                  /\ vis' = CASE done /\ c.do = "grant"   -> vis \cup {x}
                              [] done /\ c.do = "revoke"  -> vis \ {x}
                              [] OTHER                    -> vis
            /\ IF a = "ok"
               THEN todo' = <<Head(todo) \ {c}>> \o Tail(todo) /\ UNCHANGED <<pc, result>>
               ELSE todo' = <<>> /\ Return("failed")
  /\ UNCHANGED <<world, broker, tf, op, d, seen, edits>>

Finish ==
  /\ pc = "change" /\ todo = <<>>
  /\ Return("ok")
  /\ UNCHANGED <<world, cf, tf, op, d, left, edits, mishaps>>

(* Terraform keeps the resource data of an operation, failed or not.        *)
EndOperation ==
  /\ pc = "return"
  /\ tf' = IF d.there THEN [d EXCEPT !.tainted = op = "create" /\ result = "failed"]
                      ELSE Absent
  /\ Go("idle")
  /\ UNCHANGED <<world, cf, op, d, left, edits, mishaps>>

(* Terraform is killed, and its state stays what it was. *)
Crash ==
  /\ pc # "idle" /\ Mishap("crash")
  /\ Go("idle") /\ todo' = <<>>
  /\ UNCHANGED <<world, cf, tf, op, d, seen, edits>>

-----------------------------------------------------------------------------
(* At first Terraform knows no broker; somebody may have registered one.    *)
Init ==
  /\ served \in [Urls -> Catalogs] /\ cfg \in Configs
  /\ broker \in {[there |-> b, url |-> u, pass |-> p, cat |-> served[u]] :
                   b \in BOOLEAN, u \in Urls, p \in Passwords}
  /\ pub = {} /\ vis = {}
  /\ tf = Absent /\ d = Absent /\ seen = {} /\ todo = <<>>
  /\ pc = "idle" /\ op = "create" /\ result = "none"
  /\ edits = 0 /\ mishaps = 0

Terraform == Refresh \/ NothingToDo \/ Replace \/ Create \/ Update
Provider  == \/ Post \/ FindAgain \/ Sha \/ Open \/ Get \/ Put
             \/ Diff \/ Perform \/ Finish \/ EndOperation
Others    == EditConfig \/ EditCatalog \/ DeletedByOthers \/ Destroy \/ Crash

Next == Terraform \/ Provider \/ Others

Spec == Init /\ [][Next]_vars

(* Terraform runs again and again, and its calls return. *)
FairSpec == Spec /\ WF_vars(Terraform) /\ WF_vars(Provider)

-----------------------------------------------------------------------------
TypeOK ==
  /\ served \in [Urls -> Catalogs] /\ cfg \in Configs /\ broker \in Broker
  /\ pub \subseteq Plans /\ vis \subseteq Plans \X Orgs /\ seen \subseteq Plans
  /\ tf \in Data /\ d \in Data
  /\ \A i \in DOMAIN todo : todo[i] \subseteq Call
  /\ pc \in {"idle", "plan", "post", "findAgain", "sha", "open", "get", "put",
             "expose", "change", "return"}
  /\ op \in {"create", "update"} /\ result \in {"none", "ok", "failed"}
  /\ edits \in 0 .. MaxEdits /\ mishaps \in 0 .. MaxMishaps

(* An empty plan, when nobody deleted the broker since the refresh, tells   *)
(* the truth of every service that the configuration names together with a  *)
(* plan or an organization: exactly the plans of it that are asked for are  *)
(* visible, and where they are (service_broker.go:154, 584), whatever       *)
(* failed or was killed before.                                             *)
Restricted(s) == /\ \E e \in cfg.access : e.svc = s
                 /\ \A e \in cfg.access : e.svc = s => ~Alone(e)

AccessIsTrue ==
  pc = "plan" /\ InSync /\ broker.there =>
    \A s \in Offerings : Restricted(s) =>
      \A x \in PlansOf(s) \X Orgs : x \in Access <=> x \in Wanted(cfg.access)

(* An update does not take away, not even for a moment and not when it      *)
(* fails, what is visible and stays asked for: it grants before it revokes  *)
(* (service_broker.go:647, 658). Not so for a service that had a public     *)
(* plan, nor for one that is named both alone and with a plan or an         *)
(* organization, whose flags are set one way and then the other (412).      *)
Clear(s) == \A e, f \in d.access : e.svc = s /\ f.svc = s => (Alone(e) <=> Alone(f))

KeepsAccess ==
  [][op = "update" /\ pc \in {"put", "expose", "change"} /\ broker'.there
       => \A x \in Access \cap Wanted(d.access) :
            LET s == ServiceOf[x[1]]
            IN PlansOf(s) \cap seen = {} /\ Clear(s) => x \in Access']_vars

(* A plan in one organization is for that organization (README.md:724-726): *)
(* an update that succeeds makes nothing visible beyond what is asked for.  *)
NotBeyond ==
  pc = "return" /\ op = "update" /\ result = "ok"
    => Access \subseteq Wanted(d.access)

(* A password that an update changes is the broker's when the update        *)
(* reports success, although previous_password, which decides whether it is *)
(* sent, is overwritten before the request (service_broker.go:611-619). It  *)
(* says nothing of an update that fails, whose password no later one sends. *)
PasswordIsSent ==
  pc = "return" /\ op = "update" /\ result = "ok" /\ d.there /\ d.pass # tf.prev
    => broker.pass = d.pass

(* What runs may never settle. Another url is compared, and never sent      *)
(* (617, 619). Entries with a plan are retrieved in another way than they   *)
(* are written (see NotBeyond), and so are a service named alone and again  *)
(* with an organization. Two organizations of a service may be left with    *)
(* one plan each; the update takes each of the two for visible in both, and *)
(* grants nothing (78-81). Nobody makes a plan private whose service no     *)
(* entry names (408). And a service whose plans are visible in every        *)
(* organization is retrieved as the service alone (163-196), which stands   *)
(* for no visibility that could be revoked (82).                            *)
UrlIsThere == broker.there => broker.url = cfg.url

ReadAsWritten == /\ \A e \in cfg.access : e.plan = None
                 /\ \A e, f \in cfg.access : e.svc = f.svc => e = f

NothingStuck ==
  \A s \in Offerings :
    LET es == {e \in cfg.access : e.svc = s}
    IN /\ PlansOf(s) \cap pub # {} => es # {}
       /\ PlansOf(s) \X Orgs \subseteq vis => \E e \in es : Alone(e)

(* Once nobody edits and nothing fails any more, runs of Terraform come to  *)
(* an empty plan and stay there, with the exceptions above.                 *)
Converges ==
  /\ []<>(pc = "plan")
  /\ <>[](UrlIsThere /\ ReadAsWritten /\ NothingStuck) => <>[](pc = "plan" => InSync)
=============================================================================
