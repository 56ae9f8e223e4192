----------------------------- MODULE Deploying ------------------------------
(***************************************************************************)
(* What an upload of bits promises its caller (bitsmanager/manager.go, the  *)
(* interface BitsManager): the application keeps the package that it had or *)
(* gets the whole archive, never a part of it; the caller hears of a        *)
(* success only when the archive is stored; and the caller hears something. *)
(* Of a failure it cannot conclude that nothing was, or will be, stored.    *)
(***************************************************************************)
VARIABLES
  package,   \* of the application: "old" or "whole"
  answer     \* to the caller: "none", "ok" or "failed"

deploying == <<package, answer>>

Init == package = "old" /\ answer = "none"

Store   == package = "old" /\ package' = "whole" /\ UNCHANGED answer
Succeed == answer = "none" /\ package = "whole" /\ answer' = "ok" /\ UNCHANGED package
Fail    == answer = "none" /\ answer' = "failed" /\ UNCHANGED package

Next == Store \/ Succeed \/ Fail

Spec == Init /\ [][Next]_deploying /\ WF_deploying(Succeed \/ Fail)
=============================================================================
