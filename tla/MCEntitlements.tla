--------------------------- MODULE MCEntitlements ---------------------------
(* Two segments of one organization; one of them is the default, or none.   *)
EXTENDS Entitlements

CONSTANTS s1, s2

TwoSegments == {s1, s2}

Wishes ==
  {[wanted |-> {s1, s2}, default |-> s1], [wanted |-> {s1, s2}, default |-> s2],
   [wanted |-> {s1, s2}, default |-> None], [wanted |-> {s1}, default |-> s1],
   [wanted |-> {s2}, default |-> None]}

AnyCall == {"entitle", "default", "clear", "revoke", "crash"}
=============================================================================
