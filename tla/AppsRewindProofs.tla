-------------------------- MODULE AppsRewindProofs --------------------------
(***************************************************************************)
(* The blue-green updates of an application implement rewind's             *)
(* Actions.Execute, step by step, for all values of the constants.         *)
(***************************************************************************)
EXTENDS AppsRewind, AppsProofs

(* The action of its list that a call is part of, of each kind of update.   *)
InDeploy == [n \in 1 .. 3 |->
               CASE n = 1 -> {"rename"}
                 [] n = 2 -> {"create", "routes", "services", "upload", "localSha",
                              "remoteSha", "start", "staging", "running"}
                 [] n = 3 -> {"deleteOrig"}]
InRestage == [n \in 1 .. 5 |->
                CASE n = 1 -> {"rename"}
                  [] n = 2 -> {"create", "routes", "services"}
                  [] n = 3 -> {"copyBits"}
                  [] n = 4 -> {"start", "staging", "running"}
                  [] n = 5 -> {"deleteOrig"}]
Part(k, n) == IF k = "bgDeploy" THEN InDeploy[n] ELSE InRestage[n]
Size(k)    == IF k = "bgDeploy" THEN 3 ELSE 5

(* The list of an update: which of its steps have a reverse.                *)
LEMMA ListFacts ==
  ASSUME NEW k \in BlueGreen
  PROVE  /\ Len(Reversible[k]) = Size(k) /\ Reversible[k] # <<>> /\ Reversible[k] \in Lists
         /\ \A n \in 1 .. Size(k) : /\ ForwardCalls[k][n] = Part(k, n)
                                    /\ Reversible[k][n] <=> n \notin {1, Size(k)}
<1>0. Reversible[k] \in Lists
  BY DEF Lists
<1>1. CASE k = "bgDeploy"
  <2>1. Reversible[k] = <<FALSE, TRUE, FALSE>> /\ Size(k) = 3
    BY <1>1 DEF Reversible, Size
  <2>2. \A n \in 1 .. 3 : ForwardCalls[k][n] = Part(k, n)
    BY <1>1 DEF ForwardCalls, Part, InDeploy
  <2>3. Len(<<FALSE, TRUE, FALSE>>) = 3
    OBVIOUS
  <2>4. \A n \in 1 .. 3 : Reversible[k][n] <=> n \notin {1, 3}
    <3>1. Reversible[k][1] = FALSE /\ Reversible[k][2] = TRUE /\ Reversible[k][3] = FALSE
      BY <2>1
    <3> QED
      BY <3>1
  <2>5. Len(Reversible[k]) = Size(k) /\ Reversible[k] # <<>>
    BY <2>1, <2>3, SMT
  <2> QED
    BY <2>1, <2>2, <2>4, <2>5, <1>0, Zenon
<1>2. CASE k = "bgRestage"
  <2>1. Reversible[k] = <<FALSE, TRUE, TRUE, TRUE, FALSE>> /\ Size(k) = 5
    BY <1>2 DEF Reversible, Size
  <2>2. \A n \in 1 .. 5 : ForwardCalls[k][n] = Part(k, n)
    BY <1>2 DEF ForwardCalls, Part, InRestage
  <2>3. Len(<<FALSE, TRUE, TRUE, TRUE, FALSE>>) = 5
    OBVIOUS
  <2>4. \A n \in 1 .. 5 : Reversible[k][n] <=> n \notin {1, 5}
    <3>1. /\ Reversible[k][1] = FALSE /\ Reversible[k][2] = TRUE /\ Reversible[k][3] = TRUE
          /\ Reversible[k][4] = TRUE /\ Reversible[k][5] = FALSE
      BY <2>1
    <3> QED
      BY <3>1
  <2>5. Len(Reversible[k]) = Size(k) /\ Reversible[k] # <<>>
    BY <2>1, <2>3, SMT
  <2> QED
    BY <2>1, <2>2, <2>4, <2>5, <1>0, Zenon
<1> QED
  BY <1>1, <1>2 DEF BlueGreen

(* A call of the update is part of one step of the list only.               *)
LEMMA PartsAreDisjoint ==
  ASSUME NEW k \in BlueGreen, NEW n \in 1 .. Size(k), NEW p \in Part(k, n)
  PROVE  /\ \A i \in 1 .. Size(k) : p \in Part(k, i) <=> i = n
         /\ p \in Calls \ {"revDelete", "revRename"}
<1>1. CASE k = "bgDeploy"
  BY <1>1 DEF Size, Part, InDeploy, Calls
<1>2. CASE k = "bgRestage"
  BY <1>2 DEF Size, Part, InRestage, BlueGreen, Calls
<1> QED
  BY <1>1, <1>2 DEF BlueGreen

(* What Rewind's state is, by the call an operation makes next.             *)
BG == kind \in BlueGreen
AtPart(n) == BG /\ pc \in Part(kind, n)
AtReverse == BG /\ pc \in {"revDelete", "revRename"}
AtReturn  == BG /\ pc = "return"
Outside   == ~(BG /\ pc \in Calls \cup {"return"})

View(l, m, i, o) == list = l /\ mode = m /\ at = i /\ outcome = o

Mapped ==
  /\ BG => \A n \in 1 .. Size(kind) :
             AtPart(n) => View(Reversible[kind], "forward", n, "none")
  /\ AtReverse => View(Reversible[kind], "reverse", 0, "none")
  /\ AtReturn  => /\ list = Reversible[kind] /\ mode = "returned" /\ at = 0
                  /\ result = "ok" => outcome = "ok"
                  /\ result = "failed" => outcome = "error"
                  /\ result = "rolledBack" => outcome = "rewound"
                  /\ result = "rewindFailed" => outcome = "rewindFailed"
  /\ Outside   => View(<<>>, "idle", 0, "none")

(* The mapping has these values in every state.                             *)
LEMMA MappedAlways == Mapped
<1>1. ASSUME BG, NEW n \in 1 .. Size(kind), AtPart(n)
      PROVE  View(Reversible[kind], "forward", n, "none")
  <2>1. pc \in Part(kind, n) /\ kind \in BlueGreen
    BY <1>1 DEF BG, AtPart
  <2>2. pc \in Calls /\ pc \notin {"revDelete", "revRename", "return"}
    BY <2>1, PartsAreDisjoint DEF Calls
  <2>3. list = Reversible[kind] /\ mode = "forward" /\ outcome = "none"
    BY <2>1, <2>2 DEF executing, list, mode, outcome
  <2>4. \A i \in 1 .. Len(list) : pc \in ForwardCalls[kind][i] <=> i = n
    BY <2>1, <2>3, ListFacts, PartsAreDisjoint
  <2>5. n \in 1 .. Len(list)
    BY <2>1, <2>3, ListFacts
  <2>6. at = n
    BY <2>3, <2>4, <2>5 DEF at
  <2> QED
    BY <2>3, <2>6 DEF View
<1>2. AtReverse => View(Reversible[kind], "reverse", 0, "none")
  BY DEF AtReverse, BG, View, executing, list, mode, at, outcome, Calls
<1>3. ASSUME AtReturn
      PROVE  /\ list = Reversible[kind] /\ mode = "returned" /\ at = 0
             /\ result = "ok" => outcome = "ok"
             /\ result = "failed" => outcome = "error"
             /\ result = "rolledBack" => outcome = "rewound"
             /\ result = "rewindFailed" => outcome = "rewindFailed"
  BY <1>3 DEF AtReturn, BG, executing, list, mode, at, outcome
<1>4. Outside => View(<<>>, "idle", 0, "none")
  BY DEF Outside, BG, View, executing, list, mode, at, outcome
<1> QED
  BY <1>1, <1>2, <1>3, <1>4 DEF Mapped

(* The view holds of the state before a step, and of the one after it.      *)
LEMMA MappedBefore == Mapped /\ Mapped'
<1>1. Mapped
  BY MappedAlways
<1>2. Mapped'
  BY <1>1, PTL
<1> QED
  BY <1>1, <1>2

(* What becomes of Rewind's state in a step, by where the operation is      *)
(* before the step and after it.                                            *)
Stutters == UNCHANGED <<list, at, mode, outcome>>

(* What happens outside of an update leaves the execution where it is,      *)
LEMMA OutsideStutters == Outside /\ Outside' => Stutters
BY MappedBefore DEF Mapped, View, Stutters

(* so does what leaves the call of the operation as it is,                  *)
LEMMA SameCallStutters == UNCHANGED <<pc, kind, result>> => Stutters
BY DEF Stutters, executing, list, mode, at, outcome

(* a call behind which the same step goes on,                               *)
LEMMA PartStutters ==
  ASSUME NEW n \in 1 .. Size(kind), AtPart(n), AtPart(n)', kind' = kind
  PROVE  Stutters
BY MappedBefore DEF Mapped, View, Stutters, AtPart, BG

(* and one reverse behind another.                                          *)
LEMMA ReverseStutters == AtReverse /\ AtReverse' /\ kind' = kind => Stutters
BY MappedBefore DEF Mapped, View, Stutters

(* The last call of a step is a step of the execution,                      *)
LEMMA PartIsDone ==
  ASSUME NEW n \in 1 .. Size(kind), AtPart(n), kind' = kind,
         IF n = Size(kind) THEN AtReturn' /\ result' = "ok" ELSE AtPart(n + 1)'
  PROVE  Rewinding!ForwardDone
<1>1. list = Reversible[kind] /\ mode = "forward" /\ at = n /\ outcome = "none" /\ kind \in BlueGreen
  BY MappedBefore DEF Mapped, View, AtPart, BG
<1>2. Len(list) = Size(kind) /\ Size(kind) \in Nat
  BY <1>1, ListFacts DEF Size
<1>3. CASE n = Size(kind)
  <2>1. list' = list /\ mode' = "returned" /\ at' = 0 /\ outcome' = "ok"
    BY <1>1, <1>3, MappedBefore DEF Mapped
  <2> QED
    BY <1>1, <1>2, <1>3, <2>1 DEF Rewinding!ForwardDone, Rewinding!Returns
<1>4. CASE n # Size(kind)
  <2>1. n + 1 \in 1 .. Size(kind)
    BY <1>2, <1>4
  <2>2. list' = list /\ mode' = "forward" /\ at' = n + 1 /\ outcome' = "none"
    BY <1>1, <1>4, <2>1, MappedBefore DEF Mapped, View, AtPart, BG
  <2> QED
    BY <1>1, <1>2, <1>4, <2>2 DEF Rewinding!ForwardDone, Rewinding!Returns
<1> QED
  BY <1>3, <1>4

(* a failed one begins the rewind when the step has a reverse,              *)
LEMMA PartFails ==
  ASSUME NEW n \in 1 .. Size(kind), AtPart(n), kind' = kind,
         IF n \in {1, Size(kind)} THEN AtReturn' /\ result' = "failed" ELSE AtReverse'
  PROVE  Rewinding!ForwardFails
<1>1. list = Reversible[kind] /\ mode = "forward" /\ at = n /\ outcome = "none" /\ kind \in BlueGreen
  BY MappedBefore DEF Mapped, View, AtPart, BG
<1>2. list[at] <=> n \notin {1, Size(kind)}
  BY <1>1, ListFacts
<1>3. CASE n \in {1, Size(kind)}
  <2>1. list' = list /\ mode' = "returned" /\ at' = 0 /\ outcome' = "error"
    BY <1>1, <1>3, MappedBefore DEF Mapped
  <2> QED
    BY <1>1, <1>2, <1>3, <2>1 DEF Rewinding!ForwardFails, Rewinding!Returns
<1>4. CASE n \notin {1, Size(kind)}
  <2>1. list' = list /\ mode' = "reverse" /\ at' = 0 /\ outcome' = "none"
    BY <1>1, <1>4, MappedBefore DEF Mapped, View
  <2> QED
    BY <1>1, <1>2, <1>4, <2>1 DEF Rewinding!ForwardFails
<1> QED
  BY <1>3, <1>4

(* and behind the last reverse the execution returns its error.             *)
LEMMA ReverseIsDone ==
  AtReverse /\ AtReturn' /\ kind' = kind /\ result' \in {"rolledBack", "rewindFailed"}
    => Rewinding!Reversed
BY MappedBefore DEF Mapped, View, Rewinding!Reversed, Rewinding!Returns

(* What ends the operation, or kills it, leaves the execution.              *)
LEMMA UpdateIsLeft == ~Outside /\ Outside' => Rewinding!Leave
<1> SUFFICES ASSUME ~Outside, Outside' PROVE Rewinding!Leave
  OBVIOUS
<1>1. mode # "idle"
  BY DEF Outside, BG, mode, executing
<1>2. list' = <<>> /\ mode' = "idle" /\ at' = 0 /\ outcome' = "none"
  BY MappedBefore DEF Mapped, View
<1> QED
  BY <1>1, <1>2 DEF Rewinding!Leave

(* The first call of an update begins the execution.                        *)
LEMMA UpdateIsExecuted == Outside /\ AtPart(1)' => Rewinding!Execute
<1> SUFFICES ASSUME Outside, AtPart(1)' PROVE Rewinding!Execute
  OBVIOUS
<1>1. kind' \in BlueGreen /\ 1 \in 1 .. Size(kind')
  BY DEF AtPart, BG, Size
<1>2. list' = Reversible[kind'] /\ mode' = "forward" /\ at' = 1 /\ outcome' = "none"
  BY <1>1, MappedBefore DEF Mapped, View, BG
<1>3. mode = "idle"
  BY MappedBefore DEF Mapped, View
<1>4. list' \in Lists /\ list' # <<>>
  BY <1>1, <1>2, ListFacts
<1> QED
  BY <1>2, <1>3, <1>4 DEF Rewinding!Execute

-----------------------------------------------------------------------------
(* Every action of Apps is a step of Rewind or leaves its state alone.      *)
Refines == Rewinding!Next \/ Stutters

(* An operation of another kind has no execution.                           *)
LEMMA OtherKind == ~BG /\ kind' = kind => Refines
BY OutsideStutters DEF Outside, BG, Refines

(* The last action of each list, and the one before.                        *)
LEMMA LastParts ==
  ASSUME NEW k \in BlueGreen
  PROVE  /\ Size(k) \in 1 .. Size(k) /\ Size(k) - 1 \in 1 .. Size(k)
         /\ Part(k, 1) = {"rename"} /\ 1 \in 1 .. Size(k)
         /\ {"create", "routes", "services"} \subseteq Part(k, 2)
         /\ 2 \in 1 .. Size(k) /\ 2 \notin {1, Size(k)}
         /\ {"start", "staging", "running"} \subseteq Part(k, Size(k) - 1)
         /\ Size(k) - 1 \notin {1, Size(k)}
         /\ Part(k, Size(k)) = {"deleteOrig"}
<1>1. CASE k = "bgDeploy"
  BY <1>1 DEF Size, Part, InDeploy
<1>2. CASE k = "bgRestage"
  BY <1>2 DEF Size, Part, InRestage
<1> QED
  BY <1>1, <1>2 DEF BlueGreen

(* The ways a Forward under way goes on: it fails and is reversed, it goes  *)
(* on with its next call or with the next action, it ends the list but one. *)
LEMMA FailRefines ==
  ASSUME NEW n \in 1 .. Size(kind), n \notin {1, Size(kind)}, AtPart(n),
         kind' = kind, Fail
  PROVE  Refines
<1>1. AtReverse'
  BY DEF AtPart, AtReverse, BG, Fail
<1> QED
  BY <1>1, PartFails DEF Refines, Rewinding!Next

(* A call that succeeded leads on in its step, or to the next one,          *)
LEMMA GoesOn ==
  ASSUME NEW n \in 1 .. Size(kind), n # Size(kind), AtPart(n), kind' = kind,
         pc' \in Part(kind, n) \/ pc' \in Part(kind, n + 1)
  PROVE  Refines
<1>1. CASE pc' \in Part(kind, n)
  BY <1>1, PartStutters DEF AtPart, BG, Refines
<1>2. CASE pc' \in Part(kind, n + 1)
  BY <1>2, PartIsDone DEF AtPart, BG, Refines, Rewinding!Next
<1> QED
  BY <1>1, <1>2

(* and with its failures it is a step of the execution, or none.            *)
LEMMA ThenRefines ==
  ASSUME NEW n \in 1 .. Size(kind), n \notin {1, Size(kind)}, AtPart(n),
         kind' = kind, NEW a, NEW next, Then(a, next),
         next \in Part(kind, n) \/ next \in Part(kind, n + 1)
  PROVE  Refines
<1>1. CASE a = "ok"
  BY <1>1, GoesOn DEF Then, Proceed
<1>2. CASE a # "ok"
  BY <1>2, FailRefines DEF Then
<1> QED
  BY <1>1, <1>2

(* A success in the last step but one leads to the last one.                *)
LEMMA SucceedRefines ==
  ASSUME BG, AtPart(Size(kind) - 1), kind' = kind, Succeed
  PROVE  Refines
<1>1. pc' = "deleteOrig"
  BY DEF BG, Succeed, Proceed
<1>2. Size(kind) - 1 \in 1 .. Size(kind) /\ (Size(kind) - 1) + 1 = Size(kind)
  BY LastParts DEF BG, Size
<1>3. pc' \in Part(kind, (Size(kind) - 1) + 1) /\ Size(kind) - 1 # Size(kind)
  BY <1>1, <1>2, LastParts DEF BG
<1> QED
  BY <1>2, <1>3, GoesOn

(* The steps of the list, call by call: the rename of the original,         *)
LEMMA FirstStep == IInv /\ RenameOrig => Refines
<1> SUFFICES ASSUME IInv, RenameOrig PROVE Refines
  OBVIOUS
<1>1. BG /\ AtPart(1) /\ kind' = kind
  BY LastParts DEF IInv, TargetLive, RenameOrig, op, BG, AtPart
<1>2. CASE pc' = "create"
  BY <1>1, <1>2, GoesOn, LastParts DEF BG
<1>3. CASE pc' = "return" /\ result' = "failed"
  <2>1. AtReturn'
    BY <1>1, <1>3 DEF AtReturn, BG
  <2> QED
    BY <1>1, <1>3, <2>1, PartFails, LastParts DEF Refines, Rewinding!Next, BG
<1> QED
  BY <1>2, <1>3 DEF RenameOrig, Proceed, Return

(* its deletion,                                                            *)
LEMMA LastStep == IInv /\ DeleteOrig => Refines
<1> SUFFICES ASSUME IInv, DeleteOrig PROVE Refines
  OBVIOUS
<1>1. BG /\ AtPart(Size(kind)) /\ kind' = kind /\ Size(kind) \in 1 .. Size(kind)
  BY LastParts DEF IInv, TargetLive, DeleteOrig, op, BG, AtPart
<1>2. AtReturn' /\ result' \in {"ok", "failed"}
  BY <1>1 DEF DeleteOrig, Return, AtReturn, BG
<1>3. CASE result' = "ok"
  BY <1>1, <1>2, <1>3, PartIsDone DEF Refines, Rewinding!Next
<1>4. CASE result' = "failed"
  BY <1>1, <1>2, <1>4, PartFails DEF Refines, Rewinding!Next
<1> QED
  BY <1>2, <1>3, <1>4

(* the application made beside it with its bindings,                        *)
LEMMA ReplacementSteps == IInv /\ (CreateApp \/ BindRoutes \/ BindServices) => Refines
<1> SUFFICES ASSUME IInv, CreateApp \/ BindRoutes \/ BindServices PROVE Refines
  OBVIOUS
<1>1. kind' = kind
  BY DEF CreateApp, BindRoutes, BindServices, op
<1>2. CASE ~BG
  BY <1>1, <1>2, OtherKind
<1>3. CASE BG
  <2>1. 2 \in 1 .. Size(kind) /\ 2 \notin {1, Size(kind)} /\ AtPart(2)
    BY <1>3, LastParts DEF CreateApp, BindRoutes, BindServices, BG, AtPart
  <2>2. CASE CreateApp
    BY <1>1, <1>3, <2>1, <2>2, ThenRefines, LastParts DEF CreateApp, BG
  <2>3. CASE BindRoutes
    <3>1. CASE \E a : Then(a, "routes")
      BY <1>1, <1>3, <2>1, <3>1, ThenRefines, LastParts DEF BG
    <3>2. CASE pc' = "services"
      BY <1>1, <1>3, <2>1, <3>2, GoesOn, LastParts DEF BG
    <3> QED
      BY <1>3, <2>3, <3>1, <3>2 DEF BindRoutes, Proceed, BG, BlueGreen
  <2>4. CASE BindServices
    <3>1. CASE \E a : Then(a, "services")
      BY <1>1, <1>3, <2>1, <3>1, ThenRefines, LastParts DEF BG
    <3>2. CASE pc' = IF kind = "bgRestage" THEN "copyBits" ELSE "upload"
      <4>1. pc' \in Part(kind, 2) \/ pc' \in Part(kind, 2 + 1)
        BY <1>3, <3>2 DEF Part, InDeploy, InRestage, BG, BlueGreen
      <4> QED
        BY <1>1, <2>1, <4>1, GoesOn
    <3> QED
      BY <2>4, <3>1, <3>2 DEF BindServices, Proceed
  <2> QED
    BY <2>2, <2>3, <2>4
<1> QED
  BY <1>2, <1>3

(* its bits,                                                                *)
LEMMA BitsSteps == IInv /\ (Upload \/ LocalSha \/ RemoteSha \/ CopyBits) => Refines
<1> SUFFICES ASSUME IInv, Upload \/ LocalSha \/ RemoteSha \/ CopyBits PROVE Refines
  OBVIOUS
<1>1. kind' = kind
  BY DEF Upload, LocalSha, RemoteSha, CopyBits, op
<1>2. CASE ~BG
  BY <1>1, <1>2, OtherKind
<1>3. CASE BG /\ (Upload \/ LocalSha \/ RemoteSha)
  <2>1. kind = "bgDeploy"
    BY <1>3 DEF Upload, LocalSha, RemoteSha, IInv, TargetLive, BG, BlueGreen
  <2>2. Size(kind) = 3 /\ Part(kind, 2) = InDeploy[2]
    BY <2>1 DEF Size, Part
  <2>3. {"upload", "localSha", "remoteSha", "start"} \subseteq Part(kind, 2)
    BY <2>2 DEF InDeploy
  <2>4. AtPart(2) /\ 2 \in 1 .. Size(kind) /\ 2 \notin {1, Size(kind)}
    <3>1. pc \in {"upload", "localSha", "remoteSha"}
      BY <1>3 DEF Upload, LocalSha, RemoteSha
    <3> QED
      BY <1>3, <2>2, <2>3, <3>1 DEF AtPart
  <2>5. CASE \E a, next : next \in {"localSha", "remoteSha"} /\ Then(a, next)
    BY <1>1, <2>3, <2>4, <2>5, ThenRefines
  <2>6. CASE pc' = "start"
    BY <1>1, <2>2, <2>3, <2>4, <2>6, GoesOn
  <2>7. CASE Succeed
    BY <1>1, <1>3, <2>2, <2>4, <2>7, SucceedRefines
  <2>8. CASE Fail
    BY <1>1, <2>4, <2>8, FailRefines
  <2> QED
    BY <1>3, <2>5, <2>6, <2>7, <2>8 DEF Upload, LocalSha, RemoteSha, Proceed
<1>4. CASE BG /\ CopyBits
  <2>1. kind = "bgRestage"
    BY <1>4 DEF CopyBits, IInv, TargetLive
  <2>2. Size(kind) = 5 /\ Part(kind, 3) = {"copyBits"} /\ "start" \in Part(kind, 3 + 1)
    BY <2>1 DEF Size, Part, InRestage
  <2>3. AtPart(3) /\ 3 \in 1 .. Size(kind) /\ 3 \notin {1, Size(kind)}
    BY <1>4, <2>2 DEF AtPart, CopyBits
  <2> QED
    BY <1>1, <1>4, <2>2, <2>3, ThenRefines DEF CopyBits
<1> QED
  BY <1>2, <1>3, <1>4

(* its start,                                                               *)
LEMMA StartSteps ==
  IInv /\ (SkipStart \/ Start \/ PollStaging \/ PollInstances) => Refines
<1> SUFFICES ASSUME IInv, SkipStart \/ Start \/ PollStaging \/ PollInstances PROVE Refines
  OBVIOUS
<1>1. kind' = kind
  BY DEF SkipStart, Start, PollStaging, PollInstances, op
<1>2. CASE ~BG
  BY <1>1, <1>2, OtherKind
<1>3. CASE BG
  <2> DEFINE n == Size(kind) - 1
  <2>1. /\ n \in 1 .. Size(kind) /\ n \notin {1, Size(kind)}
        /\ {"start", "staging", "running"} \subseteq Part(kind, n)
    BY <1>3, LastParts DEF BG
  <2>2. AtPart(n)
    BY <1>3, <2>1 DEF AtPart, SkipStart, Start, PollStaging, PollInstances
  <2> HIDE DEF n
  <2>3. CASE \E a : Then(a, "staging")
    BY <1>1, <2>1, <2>2, <2>3, ThenRefines
  <2>4. CASE pc' = "running"
    BY <1>1, <2>1, <2>2, <2>4, GoesOn
  <2>5. CASE Succeed
    BY <1>1, <1>3, <2>2, <2>5, SucceedRefines DEF n
  <2>6. CASE Fail
    BY <1>1, <2>1, <2>2, <2>6, FailRefines
  <2> QED
    BY <2>3, <2>4, <2>5, <2>6 DEF SkipStart, Start, PollStaging, PollInstances, Proceed
<1> QED
  BY <1>2, <1>3

(* and the reverses.                                                        *)
LEMMA ReverseSteps == IInv /\ (ReverseDelete \/ ReverseRename) => Refines
<1> SUFFICES ASSUME IInv, ReverseDelete \/ ReverseRename PROVE Refines
  OBVIOUS
<1>1. kind' = kind /\ AtReverse
  BY DEF ReverseDelete, ReverseRename, op, IInv, TargetLive, AtReverse, BG
<1>2. CASE ReverseDelete
  <2>1. AtReverse'
    BY <1>1, <1>2 DEF ReverseDelete, Proceed, AtReverse, BG
  <2> QED
    BY <1>1, <2>1, ReverseStutters DEF Refines
<1>3. CASE ReverseRename
  <2>1. AtReturn' /\ result' \in {"rolledBack", "rewindFailed"}
    BY <1>1, <1>3 DEF ReverseRename, Return, AtReturn, AtReverse, BG
  <2> QED
    BY <1>1, <2>1, ReverseIsDone DEF Refines, Rewinding!Next
<1> QED
  BY <1>2, <1>3

(* An update in place has no such list.                                     *)
LEMMA InPlaceSteps == IInv /\ (Stop \/ UpdateParams \/ UpdateAttrs) => Refines
BY OtherKind DEF IInv, TargetLive, Stop, UpdateParams, UpdateAttrs, op, BG

(* The end of an operation, or of the process.                              *)
LEMMA EndSteps == IInv /\ (EndOperation \/ Crash) => Refines
<1> SUFFICES ASSUME IInv, EndOperation \/ Crash PROVE Refines
  OBVIOUS
<1>1. Outside'
  BY DEF EndOperation, Crash, Outside, Calls
<1>2. CASE Outside
  BY <1>1, <1>2, OutsideStutters DEF Refines
<1>3. CASE ~Outside
  BY <1>1, <1>3, UpdateIsLeft DEF Refines, Rewinding!Next
<1> QED
  BY <1>2, <1>3

(* The begin of an operation.                                               *)
LEMMA BeginSteps == IInv /\ (Create \/ Update) => Refines
<1> SUFFICES ASSUME IInv, Create \/ Update PROVE Refines
  OBVIOUS
<1>1. Outside
  BY DEF Create, Update, Outside, Calls
<1>2. pc' = FirstCall[kind'] /\ kind' \in Kinds
  BY BranchCases DEF Create, Update, createOrUpdate, Proceed
<1>3. CASE BG'
  <2>1. AtPart(1)'
    BY <1>2, <1>3 DEF AtPart, BG, BlueGreen, FirstCall, Part, InDeploy, InRestage
  <2> QED
    BY <1>1, <2>1, UpdateIsExecuted DEF Refines, Rewinding!Next
<1>4. CASE ~BG'
  BY <1>1, <1>4, OutsideStutters DEF Outside, BG, Refines
<1> QED
  BY <1>3, <1>4

(* No other step is one of the execution.                                   *)
LEMMA OtherSteps ==
  (\/ Refresh \/ NothingToDo \/ Replace \/ Destroy \/ RefreshOnly
   \/ EditConfig \/ EditArchive \/ Platform \/ UNCHANGED vars)
    => Refines
<1>1. CASE Refresh \/ NothingToDo \/ Replace \/ Destroy \/ RefreshOnly
  <2>1. Outside /\ Outside'
    BY <1>1 DEF Refresh, NothingToDo, Replace, Destroy, Delete, RefreshOnly, Outside, Calls
  <2> QED
    BY <2>1, OutsideStutters DEF Refines
<1>2. CASE EditConfig \/ EditArchive \/ UNCHANGED vars
  BY <1>2, SameCallStutters DEF EditConfig, EditArchive, vars, op, Refines
<1>3. CASE Platform
  BY <1>3, SameCallStutters DEF Platform, Stage, RunInstances, op, Refines
<1> QED
  BY <1>1, <1>2, <1>3

(* Every step of the resource is a step of Actions.Execute, or a stutter.   *)
LEMMA StepRefines == IInv /\ [Next]_vars => [Rewinding!Next]_(Rewinding!vars)
<1> SUFFICES ASSUME IInv, [Next]_vars PROVE Refines
  BY DEF Refines, Stutters, Rewinding!vars
<1>1. CASE Terraform
  BY <1>1, BeginSteps, OtherSteps DEF Terraform
<1>2. CASE Provider
  BY <1>2, FirstStep, LastStep, ReplacementSteps, BitsSteps, StartSteps,
     ReverseSteps, InPlaceSteps, EndSteps DEF Provider
<1>3. CASE Platform \/ Operator \/ UNCHANGED vars
  BY <1>3, EndSteps, OtherSteps DEF Operator
<1> QED
  BY <1>1, <1>2, <1>3 DEF Next

(* The blue-green updates are executions of rewind's lists of actions, for  *)
(* any applications, names, archives and failures (rewind.go:212,           *)
(* apps.go:245, 275).                                                       *)
THEOREM UpdatesRewind == Spec => ImplementsRewind
<1>1. Init => Rewinding!Init
  <2> SUFFICES ASSUME Init PROVE Rewinding!Init
    OBVIOUS
  <2>1. Outside
    BY DEF Init, Outside, Calls
  <2> QED
    BY <2>1, MappedAlways DEF Mapped, View, Rewinding!Init
<1> QED
  BY <1>1, StepRefines, Invariance, PTL DEF Spec, ImplementsRewind, Rewinding!Spec
=============================================================================
