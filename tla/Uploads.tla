------------------------------ MODULE Uploads -------------------------------
(***************************************************************************)
(* An upload of the bits manager (bitsmanager/manager.go, repository.go and *)
(* the handlers): a handler makes an archive of the path; a goroutine, the  *)
(* writer, writes the body of the request into a pipe, which the HTTP       *)
(* client empties towards the Cloud Controller; the caller waits for the    *)
(* answer and then for the job that stores the package.                     *)
(*                                                                         *)
(* The body is a sequence of pieces: the field "resources", the header of   *)
(* the archive, the pieces of the archive, and the closing boundary.        *)
(***************************************************************************)
EXTENDS Integers, FiniteSets

CONSTANTS
  Size,                 \* pieces of an archive
  Failing, MaxMishaps,  \* what may go wrong, and how often
  MaxTries              \* times that a request is sent (3 in the gateway)

ASSUME UploadsAssumption == Size \in Nat /\ MaxMishaps \in Nat /\ MaxTries \in Nat \ {0}

VARIABLES
  path,         \* which kind of path
  known,        \* the size of the archive is known (not so of some downloads)
  temps,        \* temporary files left
  main, result, \* where the caller is; what the upload returned
  tries,        \* requests sent again
  writer, read, \* where the writer is; pieces of the archive that it read
  pipe,         \* "open", "eof" when the writer, "closed" when the client closed it
  got,          \* what the Cloud Controller received
  cc,           \* where the Cloud Controller is
  package,      \* of the application
  alive,        \* the process of the provider
  mishaps

vars == <<path, known, temps, main, result, tries, writer, read, pipe, got,
          cc, package, alive, mishaps>>

body     == <<writer, read, pipe, got>>
platform == <<cc, package>>

Mishap(what) == what \in Failing /\ mishaps < MaxMishaps /\ mishaps' = mishaps + 1
NoMishap == UNCHANGED mishaps

-----------------------------------------------------------------------------
(* chooseHandler: the first handler that detects the path. What exists      *)
(* locally is local, then what ends like an archive, then what ends ".git". *)
Paths == {"local", "zip", "tar", "git", "other"}

Init ==
  /\ path \in Paths
  /\ known \in BOOLEAN /\ (path # "zip" => known)
  /\ temps = {} /\ main = "choose" /\ result = "none" /\ tries = 0
  /\ writer = "none" /\ read = 0 /\ pipe = "open"
  /\ got = [parts |-> 0, archive |-> 0, end |-> FALSE]
  /\ cc = "receiving" /\ package = "old" /\ alive = TRUE /\ mishaps = 0

Return(what) == main' = "returned" /\ result' = what

NoHandler ==
  /\ main = "choose" /\ path = "other" /\ Return("error")
  /\ UNCHANGED <<path, known, temps, tries, body, platform, alive, mishaps>>

(* findRepo: a branch, or else a tag, of the name. *)
RefTypes == {"heads", "tags"}
Clones(refs) == refs # {} /\ NoMishap
ClonesNot(refs) == (refs = {} /\ NoMishap) \/ Mishap("clone")

(* GetZipFile: what it leaves in the temporary directory when it succeeds   *)
(* and when it fails. The archive of a clone is made as of a local path.    *)
GetsZipFile(left) ==
  \/ path = "local" /\ left = {"zip"} /\ NoMishap
  \/ path = "zip"   /\ left = {}      /\ NoMishap
  \/ path = "tar"   /\ left = {"zip"} /\ NoMishap
  \/ path = "git"   /\ left = {"dir", "zip"} /\ \E refs \in SUBSET RefTypes : Clones(refs)

GetsNoZipFile(left) ==
  \/ path = "local" /\ left = {"zip"} /\ Mishap("zip")
  \/ path \in {"zip", "tar"} /\ left = {} /\ Mishap("download")
  \/ path = "tar"   /\ left = {"zip"} /\ Mishap("tar")
  \/ path = "git"   /\ left = {"dir"} /\ \E refs \in SUBSET RefTypes : ClonesNot(refs)
  \/ path = "git"   /\ left = {"dir", "zip"} /\ Mishap("zip")

Archive ==
  /\ main = "choose" /\ path # "other"
  /\ \/ GetsZipFile(temps') /\ main' = "request" /\ writer' = "writing" /\ UNCHANGED result
     \/ GetsNoZipFile(temps') /\ Return("error") /\ UNCHANGED writer
  /\ UNCHANGED <<path, known, tries, read, pipe, got, platform, alive>>

(* Behind an upload SendBits asks for the sha1 of the path, GetSha1File: of *)
(* a local path another archive is made, and never removed.                 *)
Sha1 ==
  /\ alive /\ main = "sha1" /\ main' = "returned"
  /\ temps' = temps \cup IF path = "local" THEN {"sha1"} ELSE {}
  /\ UNCHANGED <<path, known, result, tries, body, platform, alive, mishaps>>

-----------------------------------------------------------------------------
(* The caller (UploadBits, Upload).                                         *)

(* Mutant: the directory of a clone is kept. *)
CleanZip == temps \ {"zip"}
Clean == {}

(* NewRequest fails when the writer is at its first piece already. *)
NewRequest ==
  /\ alive /\ main = "request"
  /\ \/ main' = "sending" /\ NoMishap /\ UNCHANGED <<temps, result>>
     \/ Mishap("request") /\ Return("error") /\ temps' = Clean
  /\ UNCHANGED <<path, known, tries, body, platform, alive>>

(* The request failed and the client closed the pipe. The gateway sends it  *)
(* again, which is to no avail for nothing is left to send, or gives up.    *)
SendAgain ==
  /\ alive /\ main = "failed" /\ tries + 1 < MaxTries
  /\ main' = "sending" /\ tries' = tries + 1
  /\ UNCHANGED <<path, known, temps, result, body, platform, alive, mishaps>>

NothingToSend ==
  /\ alive /\ main = "sending" /\ pipe = "closed" /\ main' = "failed"
  /\ UNCHANGED <<path, known, temps, result, tries, body, platform, alive, mishaps>>

GiveUp ==
  /\ alive /\ main = "failed" /\ main' = "panicking"
  /\ UNCHANGED <<path, known, temps, result, tries, body, platform, alive, mishaps>>

(* Mutant: the caller is told, as it is of the other errors. *)
PanicReturns ==
  /\ alive /\ main = "panicking" /\ temps' = Clean /\ Return("error")
  /\ UNCHANGED <<path, known, tries, body, platform, alive, mishaps>>

(* An error of the request or of the job is a panic: the deferred calls of  *)
(* Upload are made, and the process dies.                                   *)
Panic ==
  /\ alive /\ main = "panicking" /\ temps' = Clean /\ alive' = FALSE
  /\ UNCHANGED <<path, known, main, result, tries, body, platform, mishaps>>

(* The answer is the job, which is asked about until it ends or for         *)
(* DefaultAppUploadBitsTimeout.                                             *)
Answered ==
  /\ alive /\ main = "sending" /\ pipe # "closed" /\ cc \notin {"receiving", "refused"}
  /\ main' = "polling" /\ pipe' = "closed"
  /\ UNCHANGED <<path, known, temps, result, tries, writer, read, got, platform,
                 alive, mishaps>>

WaitForJob ==
  /\ alive /\ main = "polling"
  /\ \/ /\ cc = "stored" /\ NoMishap
        /\ main' = "sha1" /\ result' = "ok" /\ temps' = Clean
     \/ /\ (cc = "jobFailed" /\ NoMishap) \/ Mishap("poll")
        /\ main' = "panicking" /\ UNCHANGED <<result, temps>>
  /\ UNCHANGED <<path, known, tries, body, platform, alive>>

-----------------------------------------------------------------------------
(* The writer and the client: a piece that is written is a piece that is    *)
(* sent. The request announces how many there will be: predictPart of the   *)
(* size, which is -1 when it is not known.                                  *)

(* Mutant: the length is not announced. *)
DeclaredNot == 3 + read

Declared == 3 + IF known THEN Size ELSE -1

Sent == got.parts + got.archive + IF got.end THEN 1 ELSE 0

(* Mutant: one piece too many is read. *)
PieceTooMany ==
  CASE writer = "breaking" -> "end"
    [] writer = "writing" /\ got.parts < 2 -> "part"
    [] writer = "writing" /\ got.parts = 2 /\ read <= Size -> "archive"
    [] writer = "writing" /\ got.parts = 2 /\ read > Size -> "end"
    [] OTHER -> "none"

(* What the writer has next. *)
Piece ==
  CASE writer = "breaking" -> "end"
    [] writer = "writing" /\ got.parts < 2 -> "part"
    [] writer = "writing" /\ got.parts = 2 /\ read < Size -> "archive"
    [] writer = "writing" /\ got.parts = 2 /\ read = Size -> "end"
    [] OTHER -> "none"

(* The archive may break off; the body gets its end then nevertheless.      *)
Write ==
  /\ alive /\ main = "sending" /\ pipe = "open" /\ cc = "receiving" /\ Sent < Declared
  /\ \/ /\ Piece = "part" /\ got' = [got EXCEPT !.parts = @ + 1]
        /\ NoMishap /\ UNCHANGED <<read, writer, pipe>>
     \/ /\ Piece = "archive" /\ got' = [got EXCEPT !.archive = @ + 1] /\ read' = read + 1
        /\ NoMishap /\ UNCHANGED <<writer, pipe>>
     \/ /\ Piece = "archive" /\ Mishap("read") /\ writer' = "breaking"
        /\ UNCHANGED <<read, pipe, got>>
     \/ /\ Piece = "end" /\ got' = [got EXCEPT !.end = TRUE] /\ pipe' = "eof"
        /\ writer' = IF writer = "breaking" THEN "panicking" ELSE "done"
        /\ NoMishap /\ UNCHANGED read
  /\ UNCHANGED <<path, known, temps, main, result, tries, platform, alive>>

(* A closed pipe refuses a piece, which is a panic but for the last.        *)
WriteFails ==
  /\ alive /\ pipe = "closed" /\ Piece # "none"
  /\ writer' = IF writer = "writing" /\ Piece = "end" THEN "done" ELSE "panicking"
  /\ UNCHANGED <<path, known, temps, main, result, tries, read, pipe, got, platform,
                 alive, mishaps>>

(* A panic of the writer ends the process, and no deferred call is made.    *)
WriterPanics ==
  /\ alive /\ writer = "panicking" /\ alive' = FALSE
  /\ UNCHANGED <<path, known, temps, main, result, tries, body, platform, mishaps>>

(* The request fails: the connection is lost, the Cloud Controller refuses  *)
(* it, or the body is shorter or longer than announced.                     *)
RequestFails ==
  /\ alive /\ main = "sending" /\ pipe # "closed"
  /\ \/ Mishap("network")
     \/ NoMishap /\ \/ cc = "refused"
                    \/ pipe = "eof" /\ Sent < Declared
                    \/ pipe = "open" /\ Piece # "none" /\ Sent >= Declared
  /\ main' = "failed" /\ pipe' = "closed"
  /\ cc' = IF cc = "receiving" /\ Sent # Declared THEN "refused" ELSE cc
  /\ UNCHANGED <<path, known, temps, result, tries, writer, read, got, package, alive>>

-----------------------------------------------------------------------------
(* The Cloud Controller takes a body of the announced length that has its   *)
(* end, and it may refuse any, before the end too. The job stores what was  *)
(* received, whoever waits for it.                                          *)
Receive ==
  /\ cc = "receiving"
  /\ \/ Sent = Declared /\ NoMishap /\ cc' = IF got.end THEN "job" ELSE "refused"
     \/ main = "sending" /\ Mishap("refuse") /\ cc' = "refused"
  /\ UNCHANGED <<path, known, temps, main, result, tries, body, package, alive>>

Job ==
  /\ cc = "job"
  /\ \/ NoMishap /\ cc' = "stored"
        /\ package' = IF got.archive = Size THEN "whole" ELSE "part"
     \/ Mishap("job") /\ cc' = "jobFailed" /\ UNCHANGED package
  /\ UNCHANGED <<path, known, temps, main, result, tries, body, alive>>

-----------------------------------------------------------------------------
Main == \/ NoHandler \/ Archive \/ NewRequest \/ SendAgain \/ NothingToSend \/ GiveUp
        \/ Panic \/ Answered \/ WaitForJob \/ Sha1
Body == Write \/ WriteFails \/ WriterPanics \/ RequestFails
Platform == Receive \/ Job

Next == Main \/ Body \/ Platform

(* Calls return, the goroutine runs, and jobs end.                          *)
Spec == Init /\ [][Next]_vars /\ WF_vars(Main) /\ WF_vars(Body) /\ WF_vars(Platform)

-----------------------------------------------------------------------------
TypeOK ==
  /\ path \in Paths /\ known \in BOOLEAN /\ temps \subseteq {"zip", "dir", "sha1"}
  /\ main \in {"choose", "request", "sending", "failed", "panicking", "polling",
               "sha1", "returned"}
  /\ result \in {"none", "ok", "error"} /\ tries \in 0 .. MaxTries - 1
  /\ writer \in {"none", "writing", "breaking", "panicking", "done"} /\ read \in 0 .. Size
  /\ pipe \in {"open", "eof", "closed"}
  /\ got \in [parts : 0 .. 2, archive : 0 .. Size, end : BOOLEAN]
  /\ cc \in {"receiving", "refused", "job", "jobFailed", "stored"}
  /\ package \in {"old", "part", "whole"} /\ alive \in BOOLEAN
  /\ mishaps \in 0 .. MaxMishaps

(* The upload is what Deploying promises, with a dead provider for a        *)
(* failure: in particular an archive that breaks off is never taken for a   *)
(* whole one, although its body is ended as if it were (repository.go:259). *)
Promise ==
  INSTANCE Deploying WITH
    package <- package,
    answer  <- IF result = "ok" THEN "ok"
               ELSE IF result = "error" \/ ~alive THEN "failed" ELSE "none"
Deploys == Promise!Spec

(* An upload that got as far as its request and returned, well or not, has  *)
(* left no archive and no clone in the temporary directory, whatever its    *)
(* goroutine does at that time (manager.go:59-60).                          *)
LeavesNothing == main \in {"sha1", "returned"} /\ writer # "none" => temps \subseteq {"sha1"}

(* The writer does not read the archive once its caller has closed it, and  *)
(* it has come to its end when the upload was a success: it cannot kill a   *)
(* provider that has gone on to other things (repository.go:203).           *)
NeverKillsLater == main \in {"sha1", "returned"} => alive /\ (result = "ok" => Piece = "none")
=============================================================================
