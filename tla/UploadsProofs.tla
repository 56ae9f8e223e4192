--------------------------- MODULE UploadsProofs ----------------------------
(***************************************************************************)
(* Proofs about Uploads, for archives of any size and any number of mishaps *)
(* and tries: an upload leaves nothing behind that was its own to remove,   *)
(* its goroutine does not outlive it to do harm, and the Cloud Controller   *)
(* never stores a part of an archive.                                       *)
(***************************************************************************)
EXTENDS Uploads, TLAPS

(* How far the writer may be, by where its caller is.                       *)
CallerAndWriter ==
  /\ main = "choose" => writer = "none" /\ alive /\ temps = {} /\ result = "none"
  /\ main = "request" => writer = "writing" /\ alive
  /\ main \in {"choose", "request"} => pipe = "open" /\ read = 0
  /\ main \notin {"sha1", "returned"} => result = "none"
  /\ writer = "none" => read = 0 /\ main \in {"choose", "returned"}
  /\ main \in {"sha1", "returned"} =>
       /\ alive
       /\ result = "ok" => writer = "done"
       /\ writer \in {"none", "writing", "done"}
       /\ writer = "writing" => pipe = "open" /\ main = "returned"
       /\ writer # "none" => temps \subseteq {"sha1"}
  /\ main = "sha1" => writer = "done"

(* A body has its end when the writer is through with it, and it is of the  *)
(* announced length only when the archive did not break off.                *)
EndOfBody ==
  /\ got.archive = read
  /\ got.end => /\ known /\ got.parts = 2 /\ pipe # "open"
                /\ writer \in {"done", "panicking"}
                /\ writer = "done" => read = Size
                /\ writer = "panicking" => read < Size
  /\ writer = "breaking" => read < Size /\ got.parts = 2

(* What the Cloud Controller has accepted is whole. *)
AcceptedIsWhole ==
  /\ cc \in {"job", "jobFailed", "stored"} => got.end /\ writer = "done" /\ read = Size
  /\ main \in {"polling", "sha1"} \/ result = "ok" => cc \in {"job", "jobFailed", "stored"}
  /\ main = "sha1" \/ result = "ok" => cc = "stored"
  /\ package = IF cc = "stored" THEN "whole" ELSE "old"

IInv == /\ TypeOK /\ CallerAndWriter /\ EndOfBody /\ AcceptedIsWhole
        /\ LeavesNothing /\ NeverKillsLater

-----------------------------------------------------------------------------
(* Numbers of mishaps stay in their bound. *)
LEMMA MishapType ==
  ASSUME mishaps \in 0 .. MaxMishaps
  PROVE  /\ NoMishap => mishaps' \in 0 .. MaxMishaps
         /\ \A what : Mishap(what) => mishaps' \in 0 .. MaxMishaps
  BY UploadsAssumption DEF UploadsAssumption, NoMishap, Mishap

(* A writer that is through has nothing to write, and what a writer has     *)
(* next says how far it is (repository.go:203-262).                         *)
LEMMA PieceFacts ==
  /\ writer \in {"none", "done", "panicking"} => Piece = "none"
  /\ Piece # "none" => writer \in {"writing", "breaking"}
  /\ Piece = "part" => writer = "writing" /\ got.parts < 2
  /\ Piece = "archive" => writer = "writing" /\ got.parts = 2 /\ read < Size
  /\ Piece = "end" => writer = "breaking" \/ (got.parts = 2 /\ read = Size)
  BY DEF Piece

(* At first nothing has begun. *)
LEMMA InitInv == Init => IInv
  BY UploadsAssumption, PieceFacts
  DEF UploadsAssumption, Init, Paths, IInv, TypeOK, CallerAndWriter, EndOfBody,
      AcceptedIsWhole, LeavesNothing, NeverKillsLater

(* An upload that does not get as far as its request. *)
LEMMA ArchiveKeeps == IInv /\ (NoHandler \/ Archive) => IInv'
<1> SUFFICES ASSUME IInv, NoHandler \/ Archive PROVE IInv'
  OBVIOUS
<1> USE DEF IInv
<1>1. /\ main = "choose" /\ writer = "none" /\ alive /\ pipe = "open" /\ read = 0
      /\ main' \in {"request", "returned"}
      /\ UNCHANGED <<path, known, tries, read, pipe, got, cc, package, alive>>
      /\ main' = "request" => writer' = "writing" /\ result' = "none"
      /\ main' = "returned" => writer' = "none" /\ result' = "error"
      /\ temps' \subseteq {"zip", "dir"}
  BY DEF CallerAndWriter, NoHandler, Archive, Return, body, platform, GetsZipFile,
         GetsNoZipFile
<1>2. mishaps' \in 0 .. MaxMishaps
  BY MishapType
  DEF TypeOK, NoHandler, Archive, GetsZipFile, GetsNoZipFile, Clones, ClonesNot, NoMishap
<1>3. TypeOK'
  BY <1>1, <1>2 DEF TypeOK
<1>4. CallerAndWriter' /\ EndOfBody' /\ AcceptedIsWhole'
  BY <1>1 DEF CallerAndWriter, EndOfBody, AcceptedIsWhole
<1>5. Piece' = "none" \/ main' = "request"
  BY <1>1 DEF Piece
<1>6. LeavesNothing' /\ NeverKillsLater'
  BY <1>1, <1>5 DEF LeavesNothing, NeverKillsLater
<1> QED
  BY <1>3, <1>4, <1>6

(* The caller, from the request to the return. *)
LEMMA CallerKeeps ==
  IInv /\ (\/ NewRequest \/ SendAgain \/ NothingToSend \/ GiveUp \/ Panic
           \/ Answered \/ WaitForJob \/ Sha1) => IInv'
<1> USE DEF IInv, body, platform, Clean
<1>1. ASSUME IInv, NewRequest PROVE IInv'
  <2>1. mishaps' \in 0 .. MaxMishaps
    BY <1>1, MishapType DEF NewRequest, TypeOK, NoMishap
  <2>2. /\ UNCHANGED <<path, known, tries, writer, read, pipe, got, cc, package, alive>>
        /\ main' \in {"sending", "returned"} /\ result' \in {result, "error"}
        /\ temps' \in {temps, {}}
    BY <1>1 DEF NewRequest, Return
  <2>5. TypeOK'
    BY <1>1, <2>1, <2>2 DEF TypeOK
  <2>3. CallerAndWriter' /\ EndOfBody' /\ AcceptedIsWhole'
    BY <1>1 DEF NewRequest, Return, CallerAndWriter, EndOfBody, AcceptedIsWhole
  <2>4. LeavesNothing' /\ NeverKillsLater'
    BY <1>1 DEF NewRequest, Return, CallerAndWriter, LeavesNothing, NeverKillsLater
  <2> QED
    BY <2>3, <2>4, <2>5
<1>2. ASSUME IInv, SendAgain \/ NothingToSend \/ GiveUp PROVE IInv'
  <2>1. TypeOK'
    <3>1. /\ UNCHANGED <<path, known, temps, result, writer, read, pipe, got, cc, package,
                         alive, mishaps>>
          /\ main' \in {"sending", "failed", "panicking"}
      BY <1>2 DEF SendAgain, NothingToSend, GiveUp
    <3>2. tries' \in 0 .. MaxTries - 1
      BY <1>2, UploadsAssumption
      DEF UploadsAssumption, SendAgain, NothingToSend, GiveUp, TypeOK
    <3> QED
      BY <1>2, <3>1, <3>2 DEF TypeOK
  <2>2. CallerAndWriter' /\ EndOfBody' /\ AcceptedIsWhole'
    BY <1>2 DEF SendAgain, NothingToSend, GiveUp, CallerAndWriter, EndOfBody,
                AcceptedIsWhole
  <2>3. LeavesNothing' /\ NeverKillsLater'
    BY <1>2 DEF SendAgain, NothingToSend, GiveUp, LeavesNothing, NeverKillsLater
  <2> QED
    BY <2>1, <2>2, <2>3
<1>3. ASSUME IInv, Panic PROVE IInv'
  BY <1>3 DEF Panic, TypeOK, CallerAndWriter, EndOfBody, AcceptedIsWhole, LeavesNothing,
              NeverKillsLater
<1>4. ASSUME IInv, Answered PROVE IInv'
  <2>1. main = "sending" /\ main' = "polling" /\ pipe' = "closed"
        /\ cc \in {"job", "jobFailed", "stored"}
    BY <1>4 DEF Answered, TypeOK
  <2>2. TypeOK' /\ CallerAndWriter'
    BY <1>4, <2>1 DEF Answered, TypeOK, CallerAndWriter
  <2>3. EndOfBody' /\ AcceptedIsWhole'
    BY <1>4, <2>1 DEF Answered, EndOfBody, AcceptedIsWhole
  <2>4. LeavesNothing' /\ NeverKillsLater'
    BY <1>4, <2>1 DEF Answered, LeavesNothing, NeverKillsLater
  <2> QED
    BY <2>2, <2>3, <2>4
<1>5. ASSUME IInv, WaitForJob PROVE IInv'
  <2>1. mishaps' \in 0 .. MaxMishaps
    BY <1>5, MishapType DEF WaitForJob, TypeOK, NoMishap
  <2>2. /\ writer = "done" /\ Piece' = "none" /\ Piece = "none"
        /\ UNCHANGED <<path, known, tries, writer, read, pipe, got, cc, package, alive>>
        /\ \/ main' = "sha1" /\ result' = "ok" /\ temps' = {} /\ cc = "stored"
           \/ main' = "panicking" /\ UNCHANGED <<result, temps>>
    BY <1>5 DEF WaitForJob, AcceptedIsWhole, Piece
  <2>3. TypeOK' /\ CallerAndWriter'
    <3>1. TypeOK'
      BY <1>5, <2>1, <2>2 DEF TypeOK
    <3>2. main = "polling" /\ result = "none" /\ alive
      BY <1>5 DEF WaitForJob, CallerAndWriter
    <3>3. CallerAndWriter'
      BY <2>2, <3>2 DEF CallerAndWriter
    <3> QED
      BY <3>1, <3>3
  <2>4. EndOfBody' /\ AcceptedIsWhole'
    BY <1>5, <2>2 DEF WaitForJob, EndOfBody, AcceptedIsWhole, CallerAndWriter
  <2>5. LeavesNothing' /\ NeverKillsLater'
    BY <1>5, <2>2 DEF WaitForJob, LeavesNothing, NeverKillsLater
  <2> QED
    BY <2>3, <2>4, <2>5
<1>6. ASSUME IInv, Sha1 PROVE IInv'
  <2>1. temps' \subseteq {"sha1"} /\ main' = "returned" /\ writer = "done" /\ Piece' = "none"
    BY <1>6 DEF Sha1, CallerAndWriter, LeavesNothing, Piece
  <2>2. TypeOK' /\ CallerAndWriter' /\ EndOfBody' /\ AcceptedIsWhole'
    BY <1>6, <2>1 DEF Sha1, TypeOK, CallerAndWriter, EndOfBody, AcceptedIsWhole
  <2>3. LeavesNothing' /\ NeverKillsLater'
    BY <1>6, <2>1 DEF Sha1, LeavesNothing, NeverKillsLater
  <2> QED
    BY <2>2, <2>3
<1> QED
  BY <1>1, <1>2, <1>3, <1>4, <1>5, <1>6

(* The body of the request: what goes through the pipe. *)
LEMMA WriteKeeps == IInv /\ Write => IInv'
<1> SUFFICES ASSUME IInv, Write PROVE IInv'
  OBVIOUS
<1> USE DEF IInv, platform
<1>1. /\ main = "sending" /\ cc = "receiving" /\ pipe = "open"
      /\ UNCHANGED <<path, known, temps, main, result, tries, cc, package, alive>>
  BY DEF Write
<1>2. Size \in Nat /\ got \in [parts : 0 .. 2, archive : 0 .. Size, end : BOOLEAN]
      /\ read \in 0 .. Size /\ got.archive = read /\ ~got.end
  BY <1>1, UploadsAssumption DEF UploadsAssumption, TypeOK, EndOfBody
<1>3. mishaps' \in 0 .. MaxMishaps
  BY MishapType DEF Write, TypeOK, NoMishap
<1>4. LeavesNothing' /\ NeverKillsLater'
  BY <1>1 DEF LeavesNothing, NeverKillsLater
<1>5. AcceptedIsWhole'
  BY <1>1 DEF AcceptedIsWhole
<1>6. CASE Piece = "part"
  <2>1. /\ got' = [got EXCEPT !.parts = @ + 1] /\ got.parts < 2 /\ writer = "writing"
        /\ UNCHANGED <<read, writer, pipe>>
    BY <1>6, PieceFacts DEF Write
  <2>2. TypeOK' /\ CallerAndWriter' /\ EndOfBody'
    BY <1>1, <1>2, <1>3, <2>1 DEF TypeOK, CallerAndWriter, EndOfBody
  <2> QED
    BY <1>4, <1>5, <2>2
<1>7. CASE Piece = "archive" /\ writer' # "breaking"
  <2>1. /\ got' = [got EXCEPT !.archive = @ + 1] /\ read' = read + 1 /\ read < Size
        /\ writer = "writing" /\ UNCHANGED <<writer, pipe>>
    BY <1>7, PieceFacts DEF Write
  <2>2. TypeOK' /\ CallerAndWriter' /\ EndOfBody'
    BY <1>1, <1>2, <1>3, <2>1 DEF TypeOK, CallerAndWriter, EndOfBody
  <2> QED
    BY <1>4, <1>5, <2>2
<1>8. CASE Piece = "archive" /\ writer' = "breaking"
  <2>1. writer = "writing" /\ got.parts = 2 /\ read < Size /\ UNCHANGED <<read, pipe, got>>
    BY <1>8, PieceFacts DEF Write
  <2>2. TypeOK' /\ CallerAndWriter' /\ EndOfBody'
    BY <1>1, <1>2, <1>3, <1>8, <2>1 DEF TypeOK, CallerAndWriter, EndOfBody
  <2> QED
    BY <1>4, <1>5, <2>2
<1>9. CASE Piece = "end"
  <2>1. /\ got' = [got EXCEPT !.end = TRUE] /\ pipe' = "eof" /\ read' = read
        /\ writer' = IF writer = "breaking" THEN "panicking" ELSE "done"
        /\ writer = "breaking" \/ read = Size
        /\ got.parts = 2
    BY <1>9, PieceFacts DEF Write, EndOfBody
  <2>2. known
    <3>1. 2 + read < Declared
      BY <1>2, <2>1 DEF Write, Sent
    <3> QED
      BY <1>2, <3>1 DEF Declared
  <2>3. TypeOK'
    BY <1>1, <1>2, <1>3, <2>1 DEF TypeOK
  <2>4. CallerAndWriter' /\ EndOfBody'
    BY <1>1, <1>2, <2>1, <2>2 DEF CallerAndWriter, EndOfBody
  <2> QED
    BY <1>4, <1>5, <2>3, <2>4
<1> QED
  BY <1>6, <1>7, <1>8, <1>9 DEF Write

(* The goroutine that writes the body keeps the invariant,                  *)
LEMMA BodyKeeps == IInv /\ Body => IInv'
<1> USE DEF IInv, platform, body
<1>1. ASSUME IInv, WriteFails PROVE IInv'
  <2>1. /\ pipe = "closed" /\ writer \in {"writing", "breaking"}
        /\ writer' \in {"done", "panicking"} /\ ~got.end
        /\ UNCHANGED <<path, known, temps, main, result, tries, read, pipe, got, cc,
                       package, alive, mishaps>>
    BY <1>1, PieceFacts DEF WriteFails, EndOfBody
  <2>2. main \notin {"sha1", "returned", "choose", "request"}
    BY <1>1, <2>1 DEF CallerAndWriter
  <2>3. TypeOK' /\ CallerAndWriter'
    BY <1>1, <2>1, <2>2 DEF TypeOK, CallerAndWriter
  <2>4. EndOfBody' /\ AcceptedIsWhole'
    BY <1>1, <2>1, <2>2 DEF TypeOK, EndOfBody, AcceptedIsWhole
  <2>5. LeavesNothing' /\ NeverKillsLater'
    BY <1>1, <2>1, <2>2 DEF LeavesNothing, NeverKillsLater
  <2> QED
    BY <2>3, <2>4, <2>5
<1>2. ASSUME IInv, WriterPanics PROVE IInv'
  <2>1. main \notin {"sha1", "returned", "choose", "request"}
    BY <1>2 DEF WriterPanics, CallerAndWriter
  <2> QED
    BY <1>2, <2>1
    DEF WriterPanics, TypeOK, CallerAndWriter, EndOfBody, AcceptedIsWhole, LeavesNothing,
        NeverKillsLater
<1>3. ASSUME IInv, RequestFails PROVE IInv'
  <2>1. /\ main = "sending" /\ main' = "failed" /\ pipe' = "closed"
        /\ cc' \in {cc, "refused"} /\ (cc # "receiving" => cc' = cc)
        /\ UNCHANGED <<path, known, temps, result, tries, writer, read, got, package, alive>>
    BY <1>3 DEF RequestFails
  <2>2. mishaps' \in 0 .. MaxMishaps
    BY <1>3, MishapType DEF RequestFails, TypeOK
  <2>3. TypeOK' /\ CallerAndWriter'
    BY <1>3, <2>1, <2>2 DEF TypeOK, CallerAndWriter
  <2>4. EndOfBody' /\ AcceptedIsWhole'
    BY <1>3, <2>1 DEF EndOfBody, AcceptedIsWhole
  <2>5. LeavesNothing' /\ NeverKillsLater'
    BY <2>1 DEF LeavesNothing, NeverKillsLater
  <2> QED
    BY <2>3, <2>4, <2>5
<1> QED
  BY <1>1, <1>2, <1>3, WriteKeeps DEF Body

(* A body is accepted only when it has its end and the announced length:    *)
(* then nothing of the archive is missing.                                  *)
LEMMA AcceptsWhole ==
  ASSUME IInv, cc = "receiving", Sent = Declared, got.end
  PROVE  writer = "done" /\ read = Size
<1>1. /\ Size \in Nat /\ read \in 0 .. Size /\ got.archive = read /\ known
      /\ got.parts = 2
  BY UploadsAssumption DEF UploadsAssumption, IInv, TypeOK, EndOfBody
<1>2. 3 + read = 3 + Size
  BY <1>1 DEF Sent, Declared
<1> QED
  BY <1>1, <1>2 DEF IInv, EndOfBody

(* so does the platform,                                                    *)
LEMMA PlatformKeeps == IInv /\ Platform => IInv'
<1> USE DEF IInv, platform, body
<1>1. ASSUME IInv, Receive PROVE IInv'
  <2>1. /\ cc = "receiving" /\ cc' \in {"job", "refused"}
        /\ cc' = "job" => got.end /\ writer = "done" /\ read = Size
        /\ UNCHANGED <<path, known, temps, main, result, tries, writer, read, pipe, got,
                       package, alive>>
    BY <1>1, AcceptsWhole DEF Receive
  <2>2. mishaps' \in 0 .. MaxMishaps
    BY <1>1, MishapType DEF Receive, TypeOK
  <2>3. TypeOK' /\ CallerAndWriter' /\ EndOfBody' /\ AcceptedIsWhole'
    BY <1>1, <2>1, <2>2 DEF TypeOK, CallerAndWriter, EndOfBody, AcceptedIsWhole
  <2>4. LeavesNothing' /\ NeverKillsLater'
    BY <1>1, <2>1 DEF LeavesNothing, NeverKillsLater, Piece
  <2> QED
    BY <2>3, <2>4
<1>2. ASSUME IInv, Job PROVE IInv'
  <2>1. /\ cc = "job" /\ cc' \in {"stored", "jobFailed"} /\ got.archive = Size
        /\ package' = IF cc' = "stored" THEN "whole" ELSE "old"
        /\ UNCHANGED <<path, known, temps, main, result, tries, writer, read, pipe, got,
                       alive>>
    BY <1>2 DEF Job, EndOfBody, AcceptedIsWhole
  <2>2. mishaps' \in 0 .. MaxMishaps
    BY <1>2, MishapType DEF Job, TypeOK
  <2>3. TypeOK' /\ CallerAndWriter' /\ EndOfBody' /\ AcceptedIsWhole'
    BY <1>2, <2>1, <2>2 DEF TypeOK, CallerAndWriter, EndOfBody, AcceptedIsWhole
  <2>4. LeavesNothing' /\ NeverKillsLater'
    BY <1>2, <2>1 DEF LeavesNothing, NeverKillsLater, Piece
  <2> QED
    BY <2>3, <2>4
<1> QED
  BY <1>1, <1>2 DEF Platform

(* and every step does:                                                     *)
LEMMA Inductive == IInv /\ [Next]_vars => IInv'
<1>1. ASSUME IInv, UNCHANGED vars PROVE IInv'
  BY <1>1 DEF vars, body, platform, IInv, TypeOK, CallerAndWriter, EndOfBody,
              AcceptedIsWhole, LeavesNothing, NeverKillsLater, Piece
<1> QED
  BY <1>1, ArchiveKeeps, CallerKeeps, BodyKeeps, PlatformKeeps DEF Next, Main

(* it holds in every reachable state.                                       *)
THEOREM Invariance == Spec => []IInv
  BY InitInv, Inductive, PTL DEF Spec

-----------------------------------------------------------------------------
(* What the variables range over, for any size and bounds.                  *)
THEOREM TypeCorrect == Spec => []TypeOK
  BY Invariance, PTL DEF IInv

(* An upload that got as far as its request and returned has left neither   *)
(* its archive nor its clone (manager.go:59-60).                            *)
THEOREM NothingIsLeft == Spec => []LeavesNothing
  BY Invariance, PTL DEF IInv

(* The goroutine of an upload that returned does not end the process        *)
(* afterwards (repository.go:203).                                          *)
THEOREM GoroutineIsHarmless == Spec => []NeverKillsLater
  BY Invariance, PTL DEF IInv

(* Every upload is, step by step, what Deploying promises: the package is   *)
(* stored whole or not at all, at most once, and a success is told after    *)
(* that (the safety of Deploys).                                            *)
THEOREM DeploysSafely == Spec => Promise!Init /\ [][Promise!Next]_(Promise!deploying)
<1> DEFINE Told == IF result = "ok" THEN "ok"
                   ELSE IF result = "error" \/ ~alive THEN "failed" ELSE "none"
<1>1. Init => Promise!Init
  BY DEF Init, Promise!Init
<1>2. ASSUME IInv, [Next]_vars PROVE [Promise!Next]_(Promise!deploying)
  <2> USE DEF Promise!deploying, Promise!Next, Promise!Store, Promise!Succeed, Promise!Fail
  <2>1. CASE UNCHANGED <<package, result, alive>>
    BY <2>1
  <2>2. CASE Receive \/ Job
    <3>1. UNCHANGED <<result, alive>>
      BY <2>2 DEF Receive, Job
    <3>2. UNCHANGED package \/ (package = "old" /\ package' = "whole")
      BY <1>2, <2>2 DEF Receive, Job, IInv, EndOfBody, AcceptedIsWhole
    <3> QED
      BY <3>1, <3>2
  <2>3. CASE WaitForJob
    BY <1>2, <2>3 DEF WaitForJob, IInv, CallerAndWriter, AcceptedIsWhole, platform
  <2>4. CASE NoHandler \/ Archive \/ NewRequest
    BY <1>2, <2>4
    DEF NoHandler, Archive, NewRequest, Return, platform, IInv, CallerAndWriter
  <2>5. CASE Panic \/ WriterPanics
    BY <1>2, <2>5 DEF Panic, WriterPanics, platform, IInv, CallerAndWriter, TypeOK
  <2>6. CASE SendAgain \/ NothingToSend \/ GiveUp \/ Answered \/ Sha1
    BY <2>1, <2>6 DEF SendAgain, NothingToSend, GiveUp, Answered, Sha1, platform
  <2>7. CASE Write \/ WriteFails \/ RequestFails
    BY <2>1, <2>7 DEF Write, WriteFails, RequestFails, platform
  <2>8. CASE UNCHANGED vars
    BY <2>1, <2>8 DEF vars, platform
  <2> QED
    BY <1>2, <2>2, <2>3, <2>4, <2>5, <2>6, <2>7, <2>8 DEF Next, Main, Body, Platform
<1> QED
  BY <1>1, <1>2, Invariance, PTL DEF Spec
=============================================================================
