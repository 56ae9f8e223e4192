----------------------------- MODULE Buildpacks -----------------------------
(***************************************************************************)
(* The buildpack resource (resources/buildpacks.go): position, enabled and  *)
(* locked, which are one value here, and an archive that is uploaded when   *)
(* its file name differs. A buildpack without an archive and with the       *)
(* default options is left to the system.                                   *)
(***************************************************************************)
EXTENDS Terraform

CONSTANTS
  Paths, FileOf,   \* where archives are; the name of the file of each
  Options, DefaultOptions, None

Files  == {FileOf[p] : p \in Paths}
Config == [path : Paths \cup {None}, options : Options]
Data   == [path : Paths \cup Files \cup {None}, options : Options,
           there : BOOLEAN, tainted : BOOLEAN]
Buildpack == [there : BOOLEAN, file : Files \cup {None}, options : Options]

BuildpacksAssumption ==
  /\ DOMAIN FileOf = Paths /\ \A p, q \in Paths : FileOf[p] = FileOf[q] => p = q
  /\ DefaultOptions \in Options /\ None \notin Paths \cup Files
  /\ Paths \cap Files = {} /\ Configs \subseteq Config

Planned(there) == [path |-> cfg.path, options |-> cfg.options,
                   there |-> there, tainted |-> FALSE]
Absent == Planned(FALSE)
InSync == tf = Planned(TRUE)

-----------------------------------------------------------------------------
(* isSystemBuildpackManaged: such a resource is not read, changed, deleted. *)
SystemManaged(x) == x.path = None /\ x.options = DefaultOptions

(* generateFilename. A file name of the Cloud Controller is no path here:   *)
(* the read of a state that has one fails.                                  *)
Filename(path) == IF path \in Paths THEN FileOf[path] ELSE None
Readable == tf.path \in Paths \cup {None}

(* Mutant: the file is not read. *)
ReadOptions ==
  IF SystemManaged(tf) THEN tf ELSE [tf EXCEPT !.options = cf.options]

Read ==
  IF SystemManaged(tf) THEN tf
  ELSE [tf EXCEPT !.options = cf.options,
                  !.path = IF @ # None /\ Filename(@) # cf.file THEN cf.file ELSE @]

Refresh ==
  /\ tf.there /\ cf.there => Readable
  /\ NoMishap /\ Refreshed(IF tf.there /\ cf.there THEN Read ELSE Absent)

(* updateBuildpack: the options are sent always, for it is their addresses  *)
(* that are compared; the archive if its file name differs.                 *)
UpdateCalls(file) ==
  <<Call("put", cfg.options)>>
  \o IF Filename(cfg.path) \notin {None, file}
     THEN <<Call("zip", None), Call("upload", Filename(cfg.path))>> ELSE <<>>

Behind(file) == IF SystemManaged(cfg) THEN <<>> ELSE UpdateCalls(file)

(* After the request that made it its id is looked up, the error dropped:   *)
(* the requests behind it fail then, if there are any.                      *)
Create ==
  /\ ~tf.there
  /\ \/ cf.there /\ NoMishap
        /\ Begin("create", Planned(TRUE), <<Call("get", None)>> \o Behind(cf.file))
     \/ /\ IF cf.there THEN Mishap("find") ELSE NoMishap
        /\ Begin("create", Absent, <<Call("post", cfg.options), Call("setId", None)>> \o Behind(None))
     \/ /\ ~cf.there /\ Mishap("find")
        /\ Begin("create", Absent, <<Call("post", cfg.options)>>
                                   \o IF SystemManaged(cfg) THEN <<>> ELSE <<Call("nothing", None)>>)

Update ==
  /\ tf.there /\ ~tf.tainted /\ ~InSync
  /\ \/ cf.there /\ NoMishap /\ Begin("update", Planned(TRUE), UpdateCalls(cf.file))
     \/ ~cf.there /\ NoMishap /\ Begin("update", Absent, <<>>)
     \/ Mishap("get") /\ GivesUp("update", Planned(TRUE))

DeleteCalls == IF SystemManaged(tf) THEN <<>> ELSE <<Call("delete", None)>>
Replace == tf.there /\ tf.tainted /\ Readable /\ NoMishap /\ Begin("delete", tf, DeleteCalls)
Destroy == Readable /\ Removed(DeleteCalls)

Effect(c) ==
  CASE c.do = "post"   -> [there |-> TRUE, file |-> None, options |-> c.arg]
    [] c.do = "put"    -> [cf EXCEPT !.options = c.arg]
    [] c.do = "upload" -> [cf EXCEPT !.file = c.arg]
    [] c.do = "delete" -> [cf EXCEPT !.there = FALSE, !.file = None]
    [] OTHER -> cf

Possible(c) == CASE c.do = "post" -> ~cf.there
                 [] c.do = "nothing" -> FALSE
                 [] OTHER -> cf.there

Perform ==
  /\ todo # <<>>
  /\ LET c == Head(todo)
     IN Calling(Effect(c), [d EXCEPT !.there = @ \/ c.do = "setId"], Possible(c), FALSE)

OthersChange ==
  \E b \in Buildpack : Others(IF b.there THEN b ELSE [cf EXCEPT !.there = FALSE, !.file = None])

-----------------------------------------------------------------------------
Init == cf \in {b \in Buildpack : ~b.there => b.file = None} /\ Idle(Absent)

NothingToDo == Settled(InSync)
Run     == Refresh \/ NothingToDo \/ Create \/ Update \/ Replace
Operate == Perform \/ Finish \/ EndOperation(Absent)
Disturb == EditConfig \/ OthersChange \/ Destroy \/ Crash(Absent)

Next == Run \/ Operate \/ Disturb
Spec == Init /\ [][Next]_vars

-----------------------------------------------------------------------------
TypeOK ==
  /\ CoreOK /\ cf \in Buildpack /\ tf \in Data /\ d \in Data
  /\ todo \in Seq([do : {"post", "setId", "nothing", "get", "put", "zip", "upload", "delete"},
                   arg : Options \cup Files \cup {None}])

(* An empty plan is true of a buildpack that is not left to the system: it  *)
(* has the options and the archive asked for, also when an upload failed    *)
(* behind the request that made it (buildpacks.go:194).                     *)
AsAsked ==
  InSync /\ cf.there /\ ~SystemManaged(cfg)
    => cf.options = cfg.options /\ Filename(cfg.path) \in {None, cf.file}

(* Runs end in an empty plan unless the state got a file name for a path,   *)
(* which no later refresh gets over (buildpacks.go:138, 103).               *)
Recovers == Readable

(* A Create or Update that succeeded, of a buildpack that is not left to    *)
(* the system, left the options and the archive asked for.                  *)
Truthful ==
  Told /\ ~SystemManaged(d)
    => cf.there /\ cf.options = d.options /\ Filename(d.path) \in {None, cf.file}
=============================================================================
