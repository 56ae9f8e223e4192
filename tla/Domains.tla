------------------------------ MODULE Domains -------------------------------
(***************************************************************************)
(* The domain resource (resources/domains.go): a domain that is shared with *)
(* everybody, or owned by an organization and shared with others one call   *)
(* at a time. The router group of a shared domain is left out.              *)
(***************************************************************************)
EXTENDS Terraform

CONSTANTS Orgs, None

Config == [shared : BOOLEAN, owner : Orgs \cup {None}, orgs : SUBSET Orgs]
Data   == [shared : BOOLEAN, owner : Orgs \cup {None}, orgs : SUBSET Orgs,
           there : BOOLEAN, tainted : BOOLEAN]
Domain == [there : BOOLEAN, shared : BOOLEAN, owner : Orgs \cup {None}, orgs : SUBSET Orgs]

(* A shared domain has no owner and no organizations (README.md:476-479),   *)
(* and an owner is not shared with: such a plan never gets empty.           *)
Sensible(x) == /\ x.shared <=> x.owner = None
               /\ x.shared => x.orgs = {}
               /\ x.owner \notin x.orgs

DomainsAssumption ==
  None \notin Orgs /\ IsFiniteSet(Orgs) /\ Configs \subseteq {c \in Config : Sensible(c)}

Planned(there) == [shared |-> cfg.shared, owner |-> cfg.owner, orgs |-> cfg.orgs,
                   there |-> there, tainted |-> FALSE]
Absent == Planned(FALSE)
InSync == tf = Planned(TRUE)

(* Another owner, and private for shared, is a ForceNew. *)
ToReplace == tf.tainted \/ tf.shared # cfg.shared \/ tf.owner # cfg.owner

-----------------------------------------------------------------------------
(* getOrgsSharedIdFromCf: the organizations that list the domain, which the *)
(* owner does too.                                                          *)
Listing == IF cf.shared THEN Orgs ELSE cf.orgs \cup {cf.owner}

(* Mutant: the owner is one of those that it is shared with. *)
ReadWithOwner == [tf EXCEPT !.shared = cf.shared, !.owner = cf.owner,
                            !.orgs = IF cf.shared THEN {} ELSE Listing]

Read == [tf EXCEPT !.shared = cf.shared, !.owner = cf.owner,
                   !.orgs = IF cf.shared THEN {} ELSE Listing \ {cf.owner}]

(* GetDomainFromCf asks for a private domain and then, whatever went wrong, *)
(* for a shared one: a private domain that is not answered is not there.    *)
Vanishes == ~cf.shared /\ Mishap("private")

Refresh ==
  IF tf.there /\ cf.there
  THEN \/ NoMishap /\ Refreshed(Read)
       \/ Vanishes /\ Refreshed(Absent)
  ELSE NoMishap /\ Refreshed(Absent)

(* Mutants: everything is taken away first; only what is missing is shared. *)
SharedToOrgAnew(owner, current, wanted) ==
  InTurn(Each("unshare", current \ {owner}), Each("share", wanted))
SharedToOrgAlso(owner, current, wanted) == Each("share", wanted \ current)

(* updateSharedToOrg: first what is too much, but for the owner.            *)
SharedToOrg(owner, current, wanted) ==
  InTurn(Each("unshare", current \ (wanted \cup {owner})), Each("share", wanted \ current))

(* Create takes a domain of the name, whoever owns it, shared or not. It    *)
(* shares all, and then corrects what it finds to be different.             *)
Correct(current) ==
  IF cfg.shared THEN Each("share", cfg.orgs)
  ELSE InTurn(Each("share", cfg.orgs),
              InTurn({<<Call("list", None)>>},
                     SharedToOrg(IF cf.there THEN cf.owner ELSE cfg.owner,
                                 current \cup cfg.orgs, cfg.orgs)))

(* Of a domain that was not answered the id is set to nothing, and then     *)
(* there is nothing to share. The same when its id was not found.           *)
Nothing  == IF cfg.shared \/ cfg.orgs = {} THEN <<>> ELSE <<Call("nothing", None)>>
Forget   == InTurn(Each("share", cfg.orgs), {<<Call("forget", None)>> \o Nothing})
Post     == <<Call("post", None)>>
PostFind == Post \o <<Call("setId", None)>>

Adopt ==
  \/ /\ NoMishap
     /\ \E b \in Correct(Listing) : Begin("create", Planned(TRUE), b)
  \/ Vanishes /\ \E b \in Forget : Begin("create", Planned(TRUE), b)
  \/ Mishap("get") /\ GivesUp("create", Planned(TRUE))

Make ==
  \/ /\ NoMishap
     /\ \E b \in Correct({cfg.owner}) :
          Begin("create", Absent, PostFind \o <<Call("get", None)>> \o b)
  \/ /\ ~cfg.shared /\ Mishap("private")
     /\ \E b \in Forget : Begin("create", Absent, PostFind \o b)
  \/ Mishap("find") /\ Begin("create", Absent, Post \o Nothing)

Create ==
  /\ ~tf.there
  /\ \/ cf.there /\ Adopt
     \/ ~cf.there /\ Make
     \/ cf.there /\ Mishap("find") /\ Begin("create", Absent, Post)

(* Update shares a private domain that stays private. *)
Update ==
  /\ tf.there /\ ~ToReplace /\ ~InSync
  /\ \/ /\ cf.there /\ NoMishap
        /\ IF cf.shared \/ cfg.shared
           THEN Begin("update", Planned(TRUE), <<>>)
           ELSE \E u \in SharedToOrg(cfg.owner, Listing, cfg.orgs) :
                  Begin("update", Planned(TRUE), u)
     \/ ~cf.there /\ NoMishap /\ Begin("update", Absent, <<>>)
     \/ cf.there /\ Vanishes /\ Begin("update", Absent, <<>>)
     \/ Mishap("get") /\ GivesUp("update", Planned(TRUE))

(* Delete tries it as a shared and then as a private domain; one is right.  *)
DeleteCalls == <<Call("delete", None)>>
Replace == tf.there /\ ToReplace /\ NoMishap /\ Begin("delete", tf, DeleteCalls)
Destroy == Removed(DeleteCalls)

Effect(c) ==
  CASE c.do = "post"    -> [there |-> TRUE, shared |-> d.shared, owner |-> d.owner, orgs |-> {}]
    [] c.do = "share"   -> [cf EXCEPT !.orgs = @ \cup ({c.arg} \ {cf.owner})]
    [] c.do = "unshare" -> [cf EXCEPT !.orgs = @ \ {c.arg}]
    [] c.do = "delete"  -> [cf EXCEPT !.there = FALSE, !.orgs = {}]
    [] OTHER -> cf

Learned(c) ==
  CASE c.do = "setId"  -> [d EXCEPT !.there = TRUE]
    [] c.do = "forget" -> [d EXCEPT !.there = FALSE]
    [] OTHER -> d

Possible(c) ==
  CASE c.do = "post" -> ~cf.there
    [] c.do = "nothing" -> FALSE
    [] c.do \in {"share", "unshare"} -> cf.there /\ ~cf.shared
    [] OTHER -> cf.there

Perform ==
  /\ todo # <<>>
  /\ LET c == Head(todo) IN Calling(Effect(c), Learned(c), Possible(c), FALSE)

(* Others make, share and delete the domain. *)
OthersChange ==
  \E x \in Domain : /\ Sensible(x) /\ (~x.there => x.orgs = {})
                   /\ Others(IF x.there THEN x ELSE [cf EXCEPT !.there = FALSE, !.orgs = {}])

-----------------------------------------------------------------------------
Init == cf \in {x \in Domain : Sensible(x) /\ (~x.there => x.orgs = {})} /\ Idle(Absent)

NothingToDo == Settled(InSync)
Run     == Refresh \/ NothingToDo \/ Create \/ Update \/ Replace
Operate == Perform \/ Finish \/ EndOperation(Absent)
Disturb == EditConfig \/ OthersChange \/ Destroy \/ Crash(Absent)

Next == Run \/ Operate \/ Disturb
Spec == Init /\ [][Next]_vars

-----------------------------------------------------------------------------
TypeOK ==
  /\ CoreOK /\ cf \in Domain /\ tf \in Data /\ d \in Data
  /\ todo \in Seq([do : {"post", "setId", "get", "list", "share", "unshare",
                         "nothing", "forget", "delete"}, arg : Orgs \cup {None}])

(* An empty plan is true: the domain is shared or owned as asked, and those *)
(* that it is shared with are exactly those asked for.                      *)
AsAsked ==
  InSync /\ cf.there
    => cf.shared = cfg.shared /\ cf.owner = cfg.owner /\ cf.orgs = cfg.orgs

(* An operation does not take the domain from an organization that it is    *)
(* asked to share it with, not even for a moment, although it takes away    *)
(* before it gives (domains.go:98-114).                                     *)
KeepsShares == op \in {"create", "update"} => cf.orgs \cap d.orgs \subseteq cf'.orgs

(* A Create or Update that succeeded, of a domain that is owned and shared  *)
(* the way it was asked for, shares it with those asked for and no others.  *)
Truthful ==
  Told => cf.there /\ (cf.shared = d.shared /\ cf.owner = d.owner => cf.orgs = d.orgs)
=============================================================================
