----------------------------- MODULE MCBrokers ------------------------------
(***************************************************************************)
(* Small instances of Brokers: a service with two plans and one with one,  *)
(* and two organizations.                                                  *)
(***************************************************************************)
EXTENDS Brokers

CONSTANTS v, w, v1, v2, w1, o1, o2, u1, u2, k1, k2, c1, c2

PlanServices == [p \in {v1, v2, w1} |-> IF p = w1 THEN w ELSE v]

All(s)    == [svc |-> s, plan |-> None, org |-> None]
In(s, o)  == [svc |-> s, plan |-> None, org |-> o]
Of(s, p)  == [svc |-> s, plan |-> p, org |-> None]
Only(p, o) == [svc |-> PlanServices[p], plan |-> p, org |-> o]

Base == [url |-> u1, pass |-> k1, scoped |-> FALSE, access |-> {In(v, o1)}]

(* Every kind of entry, alone or two of them, and a broker of a space;      *)
(* with some of them another password or another url.                       *)
AnyEntries == {Base, [Base EXCEPT !.pass = k2, !.access = {All(v)}],
               [Base EXCEPT !.url = u2, !.access = {In(w, o1)}],
               [Base EXCEPT !.access = {In(v, o1), In(v, o2)}],
               [Base EXCEPT !.access = {Of(v, v1), In(w, o1)}],
               [Base EXCEPT !.access = {Only(v1, o1)}],
               [Base EXCEPT !.access = {All(v), Of(v, v1)}],
               [Base EXCEPT !.scoped = TRUE, !.access = {}]}

(* One organization: first all plans, then one. *)
OneOrg == {Base, [Base EXCEPT !.access = {Only(v1, o1)}]}

(* At first every url serves the same catalog, and the record of a broker   *)
(* that is not there, which nothing reads, is one and the same.             *)
StartInit ==
  /\ Init
  /\ served \in [Urls -> {c1}]
  /\ ~ broker.there => broker.url = u1 /\ broker.pass = k1

FairSpecFromStart ==
  StartInit /\ [][Next]_vars /\ WF_vars(Terraform) /\ WF_vars(Provider)

Anything == {"sha", "refresh", "delete", "find", "post", "get", "put", "diff",
             "public", "private", "grant", "revoke", "crash"}
=============================================================================
