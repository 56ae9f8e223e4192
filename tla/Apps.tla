-------------------------------- MODULE Apps --------------------------------
(***************************************************************************)
(* The application resource (resources/apps.go): one cloudfoundry_app of a *)
(* configuration, the provider's operations on it, one call to the Cloud   *)
(* Controller per step, and the applications of its space.                 *)
(*                                                                         *)
(* The Cloud Controller and Terraform's core are not in the repository;    *)
(* they are modelled from how apps.go calls them and is called by them.    *)
(* Other resources and other clients do not touch the space.               *)
(***************************************************************************)
EXTENDS Naturals, Functions

CONSTANTS
  Guids,       \* what the Cloud Controller names applications with
  NoGuid,      \* the empty resource id: not in the state
  Bases,       \* application names; <<b, k>> is b followed by k "-venerable"
  MaxVen,      \* bound on k when a run begins
  MaxInst,     \* bound on the number of instances
  Params,      \* every other parameter of an application, as one value
  Routes, Services,
  Paths,       \* values of "path"
  Bits,        \* contents of an archive; also their checksum
  NoBits,      \* an application without a package; also the empty checksum
  Configs,     \* configurations the operator may write
  MaxEdits,    \* bound on the operator's edits
  Failing,     \* where calls may fail, and "crash", "platform": see Mishap
  MaxMishaps,  \* bound on what goes wrong
  LiveEdits    \* may the archive change while Terraform runs?

Names == Bases \X Nat
Venerable(n) == <<n[1], n[2] + 1>>

(* What a configuration says of the application. *)
Config == [name : Bases \X {0}, inst : 0 .. MaxInst, started : BOOLEAN,
           par : Params, routes : SUBSET Routes, svcs : SUBSET Services,
           path : Paths, noDeploy : BOOLEAN, noRestage : BOOLEAN]

ASSUME AppsAssumption ==
  /\ NoGuid \notin Guids /\ NoBits \notin Bits
  /\ MaxInst \in Nat \ {0} /\ MaxEdits \in Nat /\ MaxMishaps \in Nat /\ MaxVen \in Nat
  /\ LiveEdits \in BOOLEAN
  /\ Configs \subseteq Config

(* The attributes a plan compares; "modified" is bits_has_changed.          *)
Attrs == {"name", "inst", "started", "par", "routes", "svcs", "path",
          "noDeploy", "noRestage", "modified"}

(* schema.ResourceData, and the state Terraform keeps: the id, the          *)
(* attributes, path_sha1 and remote_sha1, and Terraform's taint.            *)
Data == [id : Guids \cup {NoGuid}, name : Names, inst : 0 .. MaxInst,
         started : BOOLEAN, par : Params, routes : SUBSET Routes,
         svcs : SUBSET Services, path : Paths, noDeploy : BOOLEAN,
         noRestage : BOOLEAN, modified : BOOLEAN, tainted : BOOLEAN,
         localSha : Bits \cup {NoBits}, remoteSha : Bits \cup {NoBits}]

(* An application of the space. "up" sums up its instances.                 *)
App == [name : Names, inst : 0 .. MaxInst, par : Params,
        state : {"STARTED", "STOPPED"}, pkg : {"PENDING", "STAGED", "FAILED"},
        up : {"down", "starting", "running", "crashed"},
        bits : Bits \cup {NoBits}, routes : SUBSET Routes, svcs : SUBSET Services]

(* The branches of createOrUpdate, and the first call each one makes.       *)
Kinds == {"create", "routes", "attrs", "inPlace", "bgDeploy", "restart", "bgRestage"}
BlueGreen == {"bgDeploy", "bgRestage"}
FirstCall == [create |-> "create", routes |-> "routes", attrs |-> "attrs",
              inPlace |-> "stop", restart |-> "params",
              bgDeploy |-> "rename", bgRestage |-> "rename"]

Calls == {"rename", "create", "routes", "services", "upload", "localSha",
          "remoteSha", "copyBits", "start", "staging", "running", "stop",
          "params", "attrs", "deleteOrig", "revDelete", "revRename"}
Results == {"none", "ok", "failed", "rolledBack", "rewindFailed"}

VARIABLES
  local,    \* the archive behind each path
  cfg,      \* the operator's configuration
  tf,       \* Terraform's state of the resource
  app,      \* the applications of the space, by GUID
  pc,       \* the operation's next call; "idle" between two runs
  kind,     \* the branch of createOrUpdate the operation took last
  d,        \* the operation's resource data
  orig,     \* origAppGuid
  result,   \* what the operation returned last
  edits,    \* number of edits so far
  mishaps   \* number of mishaps so far

world == <<local, cfg, edits>>
op    == <<kind, orig>>
vars  == <<local, cfg, tf, app, pc, kind, d, orig, result, edits, mishaps>>

live == DOMAIN app

-----------------------------------------------------------------------------
(* The resource data a plan makes of the configuration for resource id,     *)
(* with the computed attributes of x.                                       *)
Planned(id, local1, remote1) ==
  [id |-> id, name |-> cfg.name, inst |-> cfg.inst, started |-> cfg.started,
   par |-> cfg.par, routes |-> cfg.routes, svcs |-> cfg.svcs,
   path |-> cfg.path, noDeploy |-> cfg.noDeploy, noRestage |-> cfg.noRestage,
   modified |-> FALSE, tainted |-> FALSE,
   localSha |-> local1, remoteSha |-> remote1]

Absent == Planned(NoGuid, NoBits, NoBits)

(* d.HasChange of x: in a Create of everything, path and name for sure.     *)
Changed(x) == IF tf.id = NoGuid THEN Attrs ELSE {k \in Attrs : tf[k] # x[k]}

(* Mutant: a change of bits_has_changed that goes back is not seen.          *)
IsBitsDiffNow(x) == x.modified

IsBitsDiff(x) == x.modified \/ "modified" \in Changed(x)

(* createOrUpdate's choice. *)
Branch(x) ==
  CASE x.id = NoGuid                                           -> "create"
    [] x.id # NoGuid /\ Changed(x) = {"routes"}                -> "routes"
    [] x.id # NoGuid /\ Changed(x) \in SUBSET {"inst", "name"} -> "attrs"
    [] OTHER -> IF IsBitsDiff(x)
                THEN IF x.noDeploy THEN "inPlace" ELSE "bgDeploy"
                ELSE IF x.noRestage THEN "restart" ELSE "bgRestage"

NameTaken(n, g) == \E h \in live \ {g} : app[h].name = n

(* What the platform's scheduler makes of an application that was changed.  *)
Settle(a) ==
  [a EXCEPT !.up = IF a.state = "STARTED" /\ a.pkg = "STAGED" /\ a.inst > 0
                   THEN IF @ = "down" THEN "starting" ELSE @
                   ELSE "down"]

(* createApp's request: the application is created stopped and empty.       *)
NewApp(x) == [name |-> x.name, inst |-> x.inst, par |-> x.par,
              state |-> "STOPPED", pkg |-> "PENDING", up |-> "down",
              bits |-> NoBits, routes |-> {}, svcs |-> {}]

-----------------------------------------------------------------------------
(* A call that the Cloud Controller can carry out is answered "ok", or it   *)
(* fails without effect ("fail"), or its answer is lost after it took       *)
(* effect ("lost"); a call it cannot carry out is "rejected".               *)
Answers == {"ok", "fail", "lost", "rejected"}
Mishap(where) == /\ where \in Failing /\ mishaps < MaxMishaps
                 /\ mishaps' = mishaps + 1

Answer(a, possible) ==
  \/ possible  /\ a = "ok"               /\ UNCHANGED mishaps
  \/ possible  /\ a \in {"fail", "lost"} /\ Mishap(pc)
  \/ ~possible /\ a = "rejected"         /\ UNCHANGED mishaps

(* The effect of a call on application g, if it took any. *)
Effect(a, g, new) ==
  app' = IF a \in {"ok", "lost"} THEN [app EXCEPT ![g] = new] ELSE app

DeleteApp(a, g) ==
  app' = IF a \in {"ok", "lost"} THEN Restrict(app, live \ {g}) ELSE app

Proceed(next) == pc' = next /\ UNCHANGED result
Return(res)   == pc' = "return" /\ result' = res

(* An error of a Forward, in Actions.Execute: run its ReversePrevious.      *)
(* Outside of updateBg: return the error.                                   *)
Fail == IF kind \in BlueGreen THEN pc' = "revDelete" /\ result' = "failed"
                              ELSE Return("failed")

(* The end of createApp, startApp or CopyBits: the list of a blue-green     *)
(* update goes on with the deletion of the original; others return.         *)
Succeed == IF kind \in BlueGreen THEN Proceed("deleteOrig") ELSE Return("ok")

(* A call that either succeeds, and goes on with next, or fails.            *)
Then(a, next) == IF a = "ok" THEN Proceed(next) ELSE Fail

-----------------------------------------------------------------------------
(* The operator edits the configuration or an archive between two runs, an  *)
(* archive also while Terraform runs if LiveEdits says so.                  *)
EditConfig ==
  /\ pc = "idle" /\ edits < MaxEdits
  /\ \E c \in Configs \ {cfg} : cfg' = c
  /\ edits' = edits + 1
  /\ UNCHANGED <<local, tf, app, pc, op, d, result, mishaps>>

EditArchive ==
  /\ pc = "idle" \/ LiveEdits
  /\ edits < MaxEdits
  /\ \E p \in Paths, b \in Bits : /\ b # local[p]
                                  /\ local' = [local EXCEPT ![p] = b]
  /\ edits' = edits + 1
  /\ UNCHANGED <<cfg, tf, app, pc, op, d, result, mishaps>>

(* Mutant: only the package's checksum is compared.                         *)
ReadRemoteOnly(x, remote) ==
  LET a == app[x.id]
  IN [x EXCEPT !.name = a.name, !.inst = a.inst, !.par = a.par,
               !.started = (a.state = "STARTED"),
               !.routes = @ \cap a.routes, !.svcs = @ \cap a.svcs,
               !.modified = (remote # x.remoteSha),
               !.localSha = local[x.path], !.remoteSha = remote]

(* Read reports the application, of its routes and services those the state *)
(* knows of; updateBitsDiff compares the two checksums of the state with    *)
(* those of the archive and of the package, and overwrites them.            *)
Read(x, remote) ==
  LET a == app[x.id]
  IN [x EXCEPT !.name = a.name, !.inst = a.inst, !.par = a.par,
               !.started = (a.state = "STARTED"),
               !.routes = @ \cap a.routes, !.svcs = @ \cap a.svcs,
               !.modified = (local[x.path] # x.localSha \/ remote # x.remoteSha),
               !.localSha = local[x.path], !.remoteSha = remote]

(* A run of Terraform begins: Exists by id, then Read. A resource that does *)
(* not exist leaves the state. The answer of a download that fails is taken *)
(* for the package, its status is not looked at (bitsmanager/repository.go).*)
Refresh ==
  /\ pc = "idle" /\ (tf.id # NoGuid => tf.name[2] <= MaxVen)
  /\ IF tf.id \in live
     THEN \/ tf' = Read(tf, app[tf.id].bits) /\ UNCHANGED mishaps
          \/ tf' = Read(tf, NoBits) /\ Mishap("refresh")
     ELSE tf' = Absent /\ UNCHANGED mishaps
  /\ pc' = "plan" /\ result' = "none"
  /\ UNCHANGED <<world, app, op, d>>

(* The plan is empty. *)
InSync == /\ tf.id # NoGuid /\ ~tf.tainted
          /\ \A k \in Attrs : tf[k] = Absent[k]

NothingToDo ==
  /\ pc = "plan" /\ InSync
  /\ pc' = "idle"
  /\ UNCHANGED <<world, tf, app, op, d, result, mishaps>>

(* The run ends after its refresh (terraform refresh, an apply that is      *)
(* interrupted), whose outcome is kept.                                     *)
RefreshOnly ==
  /\ pc = "plan" /\ ~InSync /\ Mishap("plan")
  /\ pc' = "idle"
  /\ UNCHANGED <<world, tf, app, op, d, result>>

(* Delete, of a resource the operator removes from the configuration or of  *)
(* a tainted one, which Terraform then creates again.                       *)
Delete(next) ==
  /\ pc = "plan" /\ tf.id # NoGuid
  /\ \E a \in Answers : /\ Answer(a, tf.id \in live)
                        /\ DeleteApp(a, tf.id)
                        /\ tf' = IF a = "ok" THEN Absent ELSE tf
                        /\ pc' = IF a = "ok" THEN next ELSE "idle"
  /\ UNCHANGED <<local, cfg, op, d, result>>

Destroy == Delete("idle") /\ edits < MaxEdits /\ edits' = edits + 1
Replace == Delete("plan") /\ tf.tainted /\ UNCHANGED edits

-----------------------------------------------------------------------------
createOrUpdate(x) ==
  /\ d' = x /\ orig' = x.id
  /\ kind' = Branch(x)
  /\ Proceed(FirstCall[Branch(x)])

(* Mutant: Create does not look for the application first. *)
CreateBlind ==
  /\ pc = "plan" /\ tf.id = NoGuid
  /\ createOrUpdate(Absent)
  /\ UNCHANGED <<world, tf, app, mishaps>>

(* Create looks the name up in the space, and updates the application it    *)
(* finds as if its bits had changed. An error counts as not found.          *)
Create ==
  /\ pc = "plan" /\ tf.id = NoGuid
  /\ \/ \E g \in live : /\ app[g].name = cfg.name
                        /\ createOrUpdate([Planned(g, NoBits, NoBits)
                                             EXCEPT !.modified = TRUE])
                        /\ UNCHANGED mishaps
     \/ /\ IF NameTaken(cfg.name, NoGuid) THEN Mishap("plan") ELSE UNCHANGED mishaps
        /\ createOrUpdate(Absent)
  /\ UNCHANGED <<world, tf, app>>

Update ==
  /\ pc = "plan" /\ tf.id # NoGuid /\ ~tf.tainted /\ ~InSync
  /\ createOrUpdate(Planned(tf.id, tf.localSha, tf.remoteSha))
  /\ UNCHANGED <<world, tf, app, mishaps>>

(* updateBg's first action, which has no reverse: rename the original.      *)
OrigName == IF tf.id = NoGuid THEN d.name ELSE tf.name

RenameOrig ==
  /\ pc = "rename"
  /\ \E a \in Answers :
       /\ Answer(a, orig \in live /\ ~NameTaken(Venerable(OrigName), orig))
       /\ Effect(a, orig, [app[orig] EXCEPT !.name = Venerable(OrigName)])
       /\ IF a = "ok" THEN Proceed("create") ELSE Return("failed")
  /\ UNCHANGED <<world, tf, op, d>>

(* createApp: the id is set once the creation is answered.                  *)
CreateApp ==
  /\ pc = "create"
  /\ \E a \in Answers, g \in Guids \ (live \cup {tf.id, d.id, orig}) :
       /\ Answer(a, ~NameTaken(d.name, NoGuid))
       /\ app' = IF a \in {"ok", "lost"}
                 THEN [h \in live \cup {g} |-> IF h = g THEN NewApp(d) ELSE app[h]]
                 ELSE app
       /\ d' = IF a = "ok" THEN [d EXCEPT !.id = g] ELSE d
       /\ Then(a, "routes")
  /\ UNCHANGED <<world, tf, op>>

(* BindRoutes, one call per route; an empty list of routes is left alone.   *)
(* updateRoutes alone meets an application that has routes; GetAppFromCf,   *)
(* which it calls first, fails as its first call does.                      *)
ToBind   == d.routes \ app[d.id].routes
ToUnbind == IF d.routes = {} THEN {}
            ELSE (app[d.id].routes \cap tf.routes) \ d.routes

BindRoutes ==
  /\ pc = "routes"
  /\ IF ToBind \cup ToUnbind = {}
     THEN /\ IF kind = "routes" THEN Return("ok") ELSE Proceed("services")
          /\ UNCHANGED <<app, mishaps>>
     ELSE \E a \in Answers :
            /\ Answer(a, TRUE)
            /\ \/ \E r \in ToBind :
                    Effect(a, d.id, [app[d.id] EXCEPT !.routes = @ \cup {r}])
               \/ /\ ToBind = {}
                  /\ \E r \in ToUnbind :
                       Effect(a, d.id, [app[d.id] EXCEPT !.routes = @ \ {r}])
            /\ Then(a, "routes")
  /\ UNCHANGED <<world, tf, op, d>>

(* BindServices, one call per service, on an application that has none.     *)
BindServices ==
  /\ pc = "services"
  /\ LET next == IF kind = "bgRestage" THEN "copyBits" ELSE "upload"
     IN IF d.svcs \subseteq app[d.id].svcs
        THEN Proceed(next) /\ UNCHANGED <<app, mishaps>>
        ELSE \E a \in Answers, s \in d.svcs \ app[d.id].svcs :
               /\ Answer(a, TRUE)
               /\ Effect(a, d.id, [app[d.id] EXCEPT !.svcs = @ \cup {s}])
               /\ Then(a, "services")
  /\ UNCHANGED <<world, tf, op, d>>

(* SendBits: the archive is uploaded, then its checksum and the package's   *)
(* are taken. A failed request panics (Crash); an archive that cannot be    *)
(* read fails without effect.                                               *)
Package(a, b) == Settle([a EXCEPT !.bits = b, !.pkg = "PENDING"])

Upload ==
  /\ pc = "upload"
  /\ \E a \in {"ok", "fail"} :
       /\ Answer(a, TRUE)
       /\ Effect(a, d.id, Package(app[d.id], local[d.path]))
       /\ Then(a, "localSha")
  /\ UNCHANGED <<world, tf, op, d>>

LocalSha ==
  /\ pc = "localSha"
  /\ \E a \in {"ok", "fail"} :
       /\ Answer(a, TRUE)
       /\ d' = IF a = "ok" THEN [d EXCEPT !.localSha = local[d.path]] ELSE d
       /\ Then(a, "remoteSha")
  /\ UNCHANGED <<world, tf, app, op>>

(* The answer of a download that fails is taken for the package here too.   *)
RemoteSha ==
  /\ pc = "remoteSha"
  /\ \/ /\ \/ d' = [d EXCEPT !.remoteSha = app[d.id].bits] /\ UNCHANGED mishaps
           \/ d' = [d EXCEPT !.remoteSha = NoBits] /\ Mishap(pc)
        /\ IF d.started \/ kind = "inPlace" THEN Proceed("start") ELSE Succeed
     \/ d' = d /\ Fail /\ Mishap(pc)
  /\ UNCHANGED <<world, tf, app, op>>

(* Mutant: an action of the list that has no reverse.                       *)
CopyBitsNoReverse ==
  /\ pc = "copyBits"
  /\ \E a \in Answers :
       /\ Answer(a, orig \in live /\ app[orig].bits # NoBits)
       /\ Effect(a, d.id, Package(app[d.id], app[orig].bits))
       /\ IF a = "ok" THEN Proceed("start") ELSE Return("failed")
  /\ UNCHANGED <<world, tf, op, d>>

(* CopyBits and its polling of the job, without a bound on the time.        *)
CopyBits ==
  /\ pc = "copyBits"
  /\ \E a \in Answers :
       /\ Answer(a, orig \in live /\ app[orig].bits # NoBits)
       /\ Effect(a, d.id, Package(app[d.id], app[orig].bits))
       /\ Then(a, "start")
  /\ UNCHANGED <<world, tf, op, d>>

(* Mutant: a restage never starts its replacement.                          *)
SkipStartAlways ==
  /\ pc = "start" /\ kind = "bgRestage"
  /\ Succeed
  /\ UNCHANGED <<world, tf, app, op, d, mishaps>>

(* The start of a blue-green restage returns at once if nothing is to start. *)
SkipStart ==
  /\ pc = "start" /\ kind = "bgRestage" /\ ~d.started
  /\ Succeed
  /\ UNCHANGED <<world, tf, app, op, d, mishaps>>

(* Mutant: the state is not spelled as the Cloud Controller spells it.      *)
StartLowerCase ==
  /\ pc = "start" /\ (kind = "bgRestage" => d.started)
  /\ \E a \in Answers :
       /\ Answer(a, app[d.id].bits # NoBits)
       /\ Effect(a, d.id, Settle([app[d.id] EXCEPT !.state = "started"]))
       /\ Then(a, "staging")
  /\ UNCHANGED <<world, tf, op, d>>

(* startApp: ask for the start, poll the staging for at most 15 minutes,    *)
(* then poll the instances for ever. Only createApp passes the number of    *)
(* instances; without it a first answer about the instances is enough.      *)
Start ==
  /\ pc = "start" /\ (kind = "bgRestage" => d.started)
  /\ \E a \in Answers :
       /\ Answer(a, app[d.id].bits # NoBits)
       /\ Effect(a, d.id, Settle([app[d.id] EXCEPT !.state = "STARTED",
                                    !.pkg = IF @ = "FAILED" THEN "PENDING" ELSE @]))
       /\ Then(a, "staging")
  /\ UNCHANGED <<world, tf, op, d>>

PollStaging ==
  /\ pc = "staging"
  /\ \/ app[d.id].pkg = "STAGED" /\ Proceed("running") /\ UNCHANGED mishaps
     \/ app[d.id].pkg = "FAILED" /\ Fail               /\ UNCHANGED mishaps
     \/ Fail /\ Mishap(pc)     \* a failed poll, or the timeout
  /\ UNCHANGED <<world, tf, app, op, d>>

InstanceCount == IF kind \in {"create", "bgDeploy"} THEN d.inst ELSE 0

(* Mutant: instances that crash are waited for.                             *)
PollInstancesForEver ==
  /\ pc = "running"
  /\ \/ /\ InstanceCount = 0 \/ app[d.id].up = "running"
        /\ Succeed /\ UNCHANGED mishaps
     \/ Fail /\ Mishap(pc)
  /\ UNCHANGED <<world, tf, app, op, d>>

PollInstances ==
  /\ pc = "running"
  /\ \/ /\ InstanceCount = 0 \/ app[d.id].up = "running"
        /\ Succeed /\ UNCHANGED mishaps
     \/ InstanceCount > 0 /\ app[d.id].up = "crashed" /\ Fail /\ UNCHANGED mishaps
     \/ Fail /\ Mishap(pc)
  /\ UNCHANGED <<world, tf, app, op, d>>

Stop ==
  /\ pc = "stop"
  /\ \E a \in Answers :
       /\ Answer(a, TRUE)
       /\ Effect(a, d.id, Settle([app[d.id] EXCEPT !.state = "STOPPED"]))
       /\ Then(a, IF kind = "inPlace" THEN "upload" ELSE "start")
  /\ UNCHANGED <<world, tf, op, d>>

(* no_blue_green_restage: every parameter of resourceObject in one call,    *)
(* and the restart. Services and routes are not among them.                 *)
UpdateParams ==
  /\ pc = "params"
  /\ \E a \in Answers :
       /\ Answer(a, ~NameTaken(d.name, d.id))
       /\ Effect(a, d.id, Settle([app[d.id] EXCEPT !.name = d.name, !.par = d.par,
                                    !.inst = d.inst, !.state = "STOPPED"]))
       /\ Then(a, "stop")
  /\ UNCHANGED <<world, tf, op, d>>

(* Mutant: the whole resourceObject is sent, whose state is STOPPED.        *)
UpdateAttrsWhole ==
  /\ pc = "attrs"
  /\ \E a \in Answers :
       /\ Answer(a, ~NameTaken(d.name, d.id))
       /\ Effect(a, d.id, Settle([app[d.id] EXCEPT !.name = d.name, !.inst = d.inst,
                                    !.state = "STOPPED"]))
       /\ IF a = "ok" THEN Return("ok") ELSE Fail
  /\ UNCHANGED <<world, tf, op, d>>

(* The instant updates: the name, the number of instances, or both.         *)
UpdateAttrs ==
  /\ pc = "attrs"
  /\ \E a \in Answers :
       /\ Answer(a, ~NameTaken(d.name, d.id))
       /\ Effect(a, d.id, Settle([app[d.id] EXCEPT !.name = d.name, !.inst = d.inst]))
       /\ IF a = "ok" THEN Return("ok") ELSE Fail
  /\ UNCHANGED <<world, tf, op, d>>

(* updateBg's last action, which has no reverse.                            *)
DeleteOrig ==
  /\ pc = "deleteOrig"
  /\ \E a \in Answers : /\ Answer(a, orig \in live)
                        /\ DeleteApp(a, orig)
                        /\ Return(IF a = "ok" THEN "ok" ELSE "failed")
  /\ UNCHANGED <<world, tf, op, d>>

(* Mutants: the reverse deletes the original; it deletes nothing.           *)
ReverseDeleteOrig ==
  /\ pc = "revDelete"
  /\ \E a \in Answers : Answer(a, orig \in live) /\ DeleteApp(a, orig)
  /\ Proceed("revRename")
  /\ UNCHANGED <<world, tf, op, d>>
ReverseDeleteNone ==
  /\ pc = "revDelete"
  /\ Proceed("revRename")
  /\ UNCHANGED <<world, tf, app, op, d, mishaps>>

(* The ReversePrevious of the others: delete what the resource data names,  *)
(* whatever the answer, then give the original its name back.               *)
ReverseDelete ==
  /\ pc = "revDelete"
  /\ \E a \in Answers : Answer(a, d.id \in live) /\ DeleteApp(a, d.id)
  /\ Proceed("revRename")
  /\ UNCHANGED <<world, tf, op, d>>

(* Mutant: the reverse ignores the answer of its last call.                 *)
ReverseRenameBlind ==
  /\ pc = "revRename"
  /\ \E a \in Answers :
       /\ Answer(a, orig \in live /\ ~NameTaken(OrigName, orig))
       /\ Effect(a, orig, [app[orig] EXCEPT !.name = OrigName])
       /\ Return("rolledBack")
  /\ UNCHANGED <<world, tf, op, d>>

ReverseRename ==
  /\ pc = "revRename"
  /\ \E a \in Answers :
       /\ Answer(a, orig \in live /\ ~NameTaken(OrigName, orig))
       /\ Effect(a, orig, [app[orig] EXCEPT !.name = OrigName])
       /\ Return(IF a = "ok" THEN "rolledBack" ELSE "rewindFailed")
  /\ UNCHANGED <<world, tf, op, d>>

(* The operation returns: Terraform keeps its resource data, and taints a   *)
(* resource whose Create failed.                                            *)
EndOperation ==
  /\ pc = "return"
  /\ tf' = [d EXCEPT !.tainted = (tf.id = NoGuid /\ d.id # NoGuid /\ result # "ok")]
  /\ pc' = "idle"
  /\ UNCHANGED <<world, app, op, d, result, mishaps>>

(* Terraform is killed, and its state stays what it was; or the plugin      *)
(* panics, and the answer Terraform does not get counts as no state. A      *)
(* failed upload panics, when its request may have been carried out.        *)
Crash ==
  /\ pc \in Calls /\ Mishap("crash")
  /\ tf' \in {tf, Absent}
  /\ \/ UNCHANGED app
     \/ pc = "upload" /\ Effect("ok", d.id, Package(app[d.id], local[d.path]))
  /\ pc' = "idle"
  /\ UNCHANGED <<world, op, d, result>>

-----------------------------------------------------------------------------
(* The platform stages a started application and runs its instances. An     *)
(* instance that came up stays up: what the provider does is in question.   *)
Stage(g) ==
  /\ app[g].state = "STARTED" /\ app[g].pkg = "PENDING" /\ app[g].bits # NoBits
  /\ \/ Effect("ok", g, Settle([app[g] EXCEPT !.pkg = "STAGED"])) /\ UNCHANGED mishaps
     \/ Effect("ok", g, [app[g] EXCEPT !.pkg = "FAILED"]) /\ Mishap("platform")
  /\ UNCHANGED <<world, tf, pc, op, d, result>>

RunInstances(g) ==
  /\ app[g].up = "starting"
  /\ \/ Effect("ok", g, [app[g] EXCEPT !.up = "running"]) /\ UNCHANGED mishaps
     \/ Effect("ok", g, [app[g] EXCEPT !.up = "crashed"]) /\ Mishap("platform")
  /\ UNCHANGED <<world, tf, pc, op, d, result>>

(* At first the state is empty; the space may hold an application that      *)
(* Terraform does not know, in service under a configured name.             *)
Unknown(c, b) == [name |-> c.name, inst |-> 1, par |-> c.par, state |-> "STARTED",
                  pkg |-> "STAGED", up |-> "running", bits |-> b,
                  routes |-> {}, svcs |-> {}]

Init ==
  /\ local \in [Paths -> Bits]
  /\ cfg \in Configs
  /\ tf = Absent /\ d = Absent
  /\ \/ app = [g \in {} |-> NewApp(Absent)]
     \/ \E g \in Guids, b \in Bits, c \in Configs :
          app = [h \in {g} |-> Unknown(c, b)]
  /\ pc = "idle" /\ kind = "create" /\ orig = NoGuid /\ result = "none"
  /\ edits = 0 /\ mishaps = 0

Terraform == Refresh \/ NothingToDo \/ Replace \/ Create \/ Update
Provider == \/ RenameOrig \/ CreateApp \/ BindRoutes \/ BindServices
            \/ Upload \/ LocalSha \/ RemoteSha \/ CopyBits
            \/ SkipStart \/ Start \/ PollStaging \/ PollInstances
            \/ Stop \/ UpdateParams \/ UpdateAttrs
            \/ DeleteOrig \/ ReverseDelete \/ ReverseRename \/ EndOperation
Platform == \E g \in live : Stage(g) \/ RunInstances(g)
Operator == EditConfig \/ EditArchive \/ RefreshOnly \/ Destroy \/ Crash

Next == Terraform \/ Provider \/ Platform \/ Operator

Spec == Init /\ [][Next]_vars

(* Terraform runs again and again, and its calls return; the platform       *)
(* stages and runs what it is asked to.                                     *)
Fairness == /\ WF_vars(Terraform) /\ WF_vars(Provider)
            /\ \A g \in Guids : WF_vars(g \in live /\ (Stage(g) \/ RunInstances(g)))
FairSpec == Spec /\ Fairness

-----------------------------------------------------------------------------
TypeOK ==
  /\ local \in [Paths -> Bits] /\ cfg \in Configs
  /\ tf \in Data /\ d \in Data
  /\ live \subseteq Guids /\ app \in [live -> App]
  /\ pc \in Calls \cup {"idle", "plan", "return"}
  /\ kind \in Kinds /\ orig \in Guids \cup {NoGuid} /\ result \in Results
  /\ edits \in 0 .. MaxEdits /\ mishaps \in 0 .. MaxMishaps

(* When a blue-green update gets to the deletion of the original            *)
(* (apps.go:268, 315), its replacement is another application, it has the   *)
(* name, parameters, routes, services and a package, and it is in the state *)
(* the configuration asks for; a deployment has also seen it run.           *)
ReplacementReady ==
  pc = "deleteOrig" =>
    /\ {orig, d.id} \subseteq live /\ orig # d.id
    /\ LET a == app[d.id]
       IN /\ a.name = d.name /\ a.inst = d.inst /\ a.par = d.par
          /\ a.routes = d.routes /\ a.svcs = d.svcs /\ a.bits # NoBits
          /\ a.state = IF d.started THEN "STARTED" ELSE "STOPPED"
          /\ d.started => a.pkg = "STAGED"
          /\ kind = "bgRestage" => a.bits = app[orig].bits
          /\ kind = "bgDeploy" /\ d.started /\ d.inst > 0 => a.up = "running"

(* "By default, when updating, your app will never shutdown" (README.md:750) *)
(* for an update that is not asked to restart the application in place, to  *)
(* a configuration that has running instances: no step, whatever fails,     *)
(* takes the original out of service before its replacement is in service.  *)
Serves(g) == g \in live /\ app[g].up = "running"
Updating == /\ pc \in Calls /\ kind \in BlueGreen \cup {"attrs", "routes"}
            /\ d.started /\ d.inst > 0

NeverShutdown ==
  [][Updating /\ Serves(orig) => Serves(orig)' \/ Serves(d.id)']_vars

(* What apps.go keeps of it: no update but a restage takes the original out *)
(* of service early, except in the reverse of a failed creation, when the   *)
(* resource data still names the original (apps.go:264).                    *)
DeployNeverShutsDown ==
  [][Updating /\ kind # "bgRestage" /\ Serves(orig)
       => \/ Serves(orig)' \/ Serves(d.id)'
          \/ pc = "revDelete" /\ d.id = orig]_vars

(* A rollback that reports the original error, and not that it failed too   *)
(* (rewind.go:218-229): the original is back under its name, and no half    *)
(* made replacement is left under the same name.                            *)
RollbackRestores ==
  pc = "return" /\ result = "rolledBack" =>
    /\ orig \in live /\ app[orig].name = OrigName
    /\ (d.id # orig /\ d.name = OrigName) => d.id \notin live

(* "It always use blue-green deployment when app bits changed" (README:750): *)
(* an update that succeeds leaves the archive it was run with deployed.     *)
(* EditArchive between the operation's calls is excluded by LiveEdits.      *)
UpdateDeploysBits ==
  pc = "return" /\ result = "ok" => app[d.id].bits = local[d.path]

(* "It can see changes between code you have locally and code you have in   *)
(* your cloud foundry" (README.md:748): a plan that finds nothing to do     *)
(* speaks of an application that has the archive its refresh looked at, and *)
(* every route.                                                             *)
NoChangeIsDeployed ==
  pc = "plan" /\ InSync =>
    app[tf.id].bits = tf.localSha /\ cfg.routes \subseteq app[tf.id].routes

(* A plan that finds nothing to do leaves no application behind but the one *)
(* in the state: no "-venerable" and no half made replacement.              *)
NoLeftovers == pc = "plan" /\ InSync => live = {tf.id}

(* Every operation returns, and every run ends. *)
OperationReturns == pc # "idle" ~> pc = "idle"

(* Once nobody edits and nothing fails any more, runs of Terraform come to  *)
(* a plan that has nothing to do, and stay there.                           *)
Converges == []<>(pc = "plan") /\ <>[](pc = "plan" => InSync)
=============================================================================
