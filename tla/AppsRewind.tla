----------------------------- MODULE AppsRewind -----------------------------
(***************************************************************************)
(* The blue-green updates of Apps are executions of rewind.Actions: the    *)
(* lists of rewindActionsBgDeploy and rewindActionsBgRestage, and which    *)
(* calls to the Cloud Controller are part of the Forward of which action.  *)
(***************************************************************************)
EXTENDS MCApps, Sequences

(* Whether the actions of a list have a ReversePrevious, and the calls of   *)
(* each one's Forward.                                                      *)
Reversible == [bgDeploy  |-> <<FALSE, TRUE, FALSE>>,
               bgRestage |-> <<FALSE, TRUE, TRUE, TRUE, FALSE>>]

ForwardCalls ==
  [bgDeploy  |-> <<{"rename"},
                   {"create", "routes", "services", "upload", "localSha",
                    "remoteSha", "start", "staging", "running"},
                   {"deleteOrig"}>>,
   bgRestage |-> <<{"rename"}, {"create", "routes", "services"}, {"copyBits"},
                   {"start", "staging", "running"}, {"deleteOrig"}>>]

executing == kind \in BlueGreen /\ pc \in Calls \cup {"return"}

mode == IF ~executing THEN "idle"
        ELSE IF pc = "return" THEN "returned"
        ELSE IF pc \in {"revDelete", "revRename"} THEN "reverse"
        ELSE "forward"

list == IF executing THEN Reversible[kind] ELSE <<>>

at == IF mode # "forward" THEN 0
      ELSE CHOOSE i \in 1 .. Len(list) : pc \in ForwardCalls[kind][i]

outcome == IF mode # "returned" THEN "none"
           ELSE CASE result = "ok"         -> "ok"
                  [] result = "failed"     -> "error"
                  [] result = "rolledBack" -> "rewound"
                  [] OTHER                 -> "rewindFailed"

Lists == {Reversible[k] : k \in BlueGreen}

Rewinding ==
  INSTANCE Rewind WITH Lists <- Lists, mode <- mode, list <- list, at <- at, outcome <- outcome

(* A blue-green update goes through its list in order, each action once,    *)
(* undoes with one reverse every failure of an action that has one, undoes  *)
(* nothing on a failure of the first or the last, and never reports success *)
(* after a failure (rewind.go:212, apps.go:245, 275).                       *)
ImplementsRewind == Rewinding!Spec
=============================================================================
