------------------------------- MODULE Routes -------------------------------
(***************************************************************************)
(* The route resource (resources/routes.go): the route of one host, domain, *)
(* path and port, in a space, with at most one route service, which is      *)
(* bound with parameters. Spaces that no configuration names belong to      *)
(* others.                                                                  *)
(***************************************************************************)
EXTENDS Terraform

CONSTANTS RouteSpaces, RouteServices, RouteParams, None

(* "params" of a route: what the resource sent with the binding there is,   *)
(* None when others made it or there is none.                               *)
Config == [space : RouteSpaces, svc : RouteServices \cup {None}, params : RouteParams]
Data   == [space : RouteSpaces, svc : RouteServices \cup {None}, params : RouteParams,
           there : BOOLEAN, tainted : BOOLEAN]
Route  == [there : BOOLEAN, space : RouteSpaces, svc : RouteServices \cup {None},
           params : RouteParams \cup {None}]

RoutesAssumption ==
  None \notin RouteServices /\ None \notin RouteParams /\ Configs \subseteq Config

Planned(there) == [space |-> cfg.space, svc |-> cfg.svc, params |-> cfg.params,
                   there |-> there, tainted |-> FALSE]
Absent == Planned(FALSE)
InSync == tf = Planned(TRUE)

(* Another space is a ForceNew. *)
ToReplace == tf.tainted \/ tf.space # cfg.space

-----------------------------------------------------------------------------
(* Mutant: the space is not read. *)
ReadService == [tf EXCEPT !.svc = cf.svc]

(* The parameters of a binding are not read. *)
Read == [tf EXCEPT !.space = cf.space, !.svc = cf.svc]

Refresh == NoMishap /\ Refreshed(IF tf.there /\ cf.there THEN Read ELSE Absent)

(* updateBinding: the service is looked up and then bound, or unbound when  *)
(* none is wanted.                                                          *)
UpdateBinding(from, to) ==
  CASE from = to   -> <<>>
    [] from # to /\ to = None -> <<Call("getService", None), Call("unbind", from)>>
    [] from # to /\ to # None -> <<Call("getService", None), Call("bind", to)>>

(* Create takes the route as it is, of any space (the error of another      *)
(* space is made and dropped, 133), and binds nothing to it.                *)
Create ==
  /\ ~tf.there
  /\ \/ cf.there /\ NoMishap /\ Begin("create", Planned(TRUE), <<>>)
     \/ /\ IF cf.there THEN Mishap("find") ELSE NoMishap
        /\ Begin("create", Absent, <<Call("post", None)>> \o UpdateBinding(None, cfg.svc))

(* Update binds when the service differs. *)
Update ==
  /\ tf.there /\ ~ToReplace /\ ~InSync
  /\ \/ cf.there /\ NoMishap
        /\ Begin("update", Planned(TRUE), UpdateBinding(cf.svc, cfg.svc))
     \/ ~cf.there /\ NoMishap /\ Begin("update", Absent, <<>>)
     \/ Mishap("get") /\ GivesUp("update", Planned(TRUE))

(* Delete unbinds the service of the state first. *)
DeleteCalls == UpdateBinding(tf.svc, None) \o <<Call("delete", None)>>
Replace == tf.there /\ ToReplace /\ NoMishap /\ Begin("delete", tf, DeleteCalls)
Destroy == Removed(DeleteCalls)

Effect(c) ==
  CASE c.do = "post"   -> [there |-> TRUE, space |-> d.space, svc |-> None, params |-> None]
    [] c.do = "bind"   -> [cf EXCEPT !.svc = c.arg, !.params = d.params]
    [] c.do = "unbind" -> [cf EXCEPT !.svc = None, !.params = None]
    [] c.do = "delete" -> [cf EXCEPT !.there = FALSE, !.svc = None, !.params = None]
    [] OTHER -> cf

(* A route has one service; what is not bound is not unbound. *)
Possible(c) ==
  CASE c.do = "post"   -> ~cf.there
    [] c.do = "bind"   -> cf.there /\ cf.svc = None
    [] c.do = "unbind" -> cf.there /\ cf.svc = c.arg
    [] OTHER -> c.do = "getService" \/ cf.there

Perform ==
  /\ todo # <<>>
  /\ LET c == Head(todo)
     IN Calling(Effect(c), IF c.do = "post" THEN [d EXCEPT !.there = TRUE] ELSE d,
                Possible(c), FALSE)

OthersChange ==
  \/ \E s \in RouteSpaces, v \in RouteServices \cup {None} :
       Others([there |-> TRUE, space |-> s, svc |-> v,
               params |-> IF v = cf.svc THEN cf.params ELSE None])
  \/ Others([cf EXCEPT !.there = FALSE, !.svc = None, !.params = None])

-----------------------------------------------------------------------------
Init == /\ cf \in {r \in Route : r.params = None /\ (~r.there => r.svc = None)}
        /\ Idle(Absent)

NothingToDo == Settled(InSync)
Run     == Refresh \/ NothingToDo \/ Create \/ Update \/ Replace
Operate == Perform \/ Finish \/ EndOperation(Absent)
Disturb == EditConfig \/ OthersChange \/ Destroy \/ Crash(Absent)

Next == Run \/ Operate \/ Disturb
Spec == Init /\ [][Next]_vars

-----------------------------------------------------------------------------
TypeOK ==
  /\ CoreOK /\ cf \in Route /\ tf \in Data /\ d \in Data
  /\ todo \in Seq([do : {"post", "getService", "bind", "unbind", "delete"},
                   arg : RouteServices \cup {None}])

(* An empty plan is true: the route is in the space and has the service     *)
(* that are asked for, also when it was taken from another space. That the  *)
(* service has the parameters holds as long as nobody edits: they are not   *)
(* read, and a change of them alone is not sent (routes.go:149-152, 237). A *)
(* binding that Create finds keeps its own (133).                           *)
AsAsked ==
  InSync /\ cf.there => /\ cf.space = cfg.space /\ cf.svc = cfg.svc
                        /\ edits = 0 => cf.params \in {None, cfg.params}

(* A service is not replaced by another: the second is refused while the    *)
(* first is bound (routes.go:165).                                          *)
Recovers == cfg.svc # None => cf.svc \in {None, cfg.svc}

(* An Update that succeeded left the service asked for. (A Create may have  *)
(* taken a route with another.) When it is a service that the state did not *)
(* have, and the resource bound it, it did with the parameters asked for;   *)
(* other parameters of the same service Update takes over into the state    *)
(* without sending them (149-152).                                          *)
Truthful ==
  Told => /\ cf.there
          /\ op = "update" => /\ cf.svc = d.svc
                              /\ d.svc # tf.svc => cf.params \in {None, d.params}
=============================================================================
