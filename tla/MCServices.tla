----------------------------- MODULE MCServices -----------------------------
(***************************************************************************)
(* Small instances of Services: one or two resources, of one space or two. *)
(***************************************************************************)
EXTENDS Services, TLC

CONSTANTS ra, rb, s1, s2, plan1, plan2, t0, t1, t2, u0, u1, m1, m2

Managed(n, s) == [name |-> n, space |-> s, ups |-> FALSE, plan |-> plan1,
                  tags |-> t1, url |-> u0, upd |-> m1]
UserProvided(n, s) == [Managed(n, s) EXCEPT !.ups = TRUE, !.url = u1]

(* Two resources, of two spaces, under the same name or not.                *)
TwoSpaces == [r \in {ra, rb} |->
                {Managed("db", IF r = ra THEN s1 ELSE s2)}]
TwoNames == [r \in {ra, rb} |->
               IF r = ra THEN {Managed("db", s1), UserProvided("db", s1)}
                         ELSE {Managed("mq", s2), UserProvided("mq", s2)}]

(* Two resources of one space: one may become user provided or get other    *)
(* tags, the other gets tags, or a new name.                                *)
OneSpace == [r \in {ra, rb} |->
               IF r = ra THEN {Managed("db", s1), UserProvided("db", s1),
                               [Managed("db", s1) EXCEPT !.tags = t2]}
                         ELSE {UserProvided("mq", s1),
                               [UserProvided("mq", s1) EXCEPT !.tags = t0],
                               UserProvided("es", s1)}]

(* Instances of the name that Terraform does not know of, in the same space *)
(* or another, of a broker or user provided.                                *)
Namesakes == {[name |-> "db", space |-> s, plan |-> p, tags |-> t1, url |-> u0,
               told |-> NoPlan, bound |-> {}] : s \in {s1, s2}, p \in {plan2, NoPlan}}

Anything == {"find", "post", "read", "put", "putUps", "unbind", "delete"}
=============================================================================
