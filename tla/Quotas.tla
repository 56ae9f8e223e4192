------------------------------- MODULE Quotas -------------------------------
(***************************************************************************)
(* The quota resource (resources/quotas.go): a quota of organizations, or,  *)
(* when an organization is given, of its spaces. Of the limits there is the *)
(* memory, which the operator writes with a unit and which is read back     *)
(* rounded; the others are written and read as they are.                    *)
(***************************************************************************)
EXTENDS Terraform

CONSTANTS
  Amounts,     \* amounts of memory in megabytes, less than a terabyte
  Written      \* how amounts may be written: [n |-> tenths, unit |-> ...]

Scopes == {"org", "space"}

(* transformToMegabytes, of a whole number of units. *)
Megabytes(w) == (w.n \div 10) * (IF w.unit = "G" THEN 1024 ELSE 1)

(* transformFromBytes, ByteSize: one decimal, rounded half to even.         *)
Tenths(mb) ==
  LET q == (10 * mb) \div 1024
      r == (10 * mb) % 1024
  IN IF r > 512 \/ (r = 512 /\ q % 2 = 1) THEN q + 1 ELSE q
Shown(mb) == IF mb >= 1024 THEN [n |-> Tenths(mb), unit |-> "G"]
             ELSE [n |-> 10 * mb, unit |-> "M"]

Memory == Written \cup {Shown(mb) : mb \in Amounts}
Config == [scope : Scopes, memory : Written]
Data   == [scope : Scopes, memory : Memory, there : BOOLEAN, tainted : BOOLEAN]
Quotas == [Scopes -> [there : BOOLEAN, memory : Amounts]]

QuotasAssumption ==
  /\ Amounts \subseteq Nat /\ \A mb \in Amounts : mb < 1024 * 1024
  /\ \A w \in Written : /\ w.n \in Nat /\ w.n % 10 = 0 /\ w.unit \in {"M", "G"}
                          /\ Megabytes(w) \in Amounts
  /\ Configs \subseteq Config

Planned(there) == [scope |-> cfg.scope, memory |-> cfg.memory,
                   there |-> there, tainted |-> FALSE]
Absent == Planned(FALSE)
InSync == tf = Planned(TRUE)

-----------------------------------------------------------------------------
(* Mutant: the memory is not read. *)
ReadNothing == tf

Read == [tf EXCEPT !.memory = Shown(cf[tf.scope].memory)]

(* GetQuotaFromCf has a quota of organizations for what it does not find,   *)
(* which Exists takes for one of spaces: it panics.                         *)
Gone == tf.there /\ ~cf[tf.scope].there

Refresh ==
  /\ ~(Gone /\ tf.scope = "space")
  /\ NoMishap /\ Refreshed(IF tf.there /\ ~Gone THEN Read ELSE Absent)

ExistsPanics == Gone /\ tf.scope = "space" /\ Panics

(* Create takes a quota of the name and the scope as it is. *)
Create ==
  /\ ~tf.there
  /\ LET found == cf[cfg.scope].there
     IN \/ found /\ NoMishap /\ Begin("create", Planned(TRUE), <<>>)
        \/ /\ IF found THEN Mishap("find") ELSE NoMishap
           /\ Begin("create", Absent, <<Call("post", cfg.memory), Call("find", cfg.memory)>>)

(* Update looks for the id among the quotas of the configured scope: when   *)
(* the scope changed it is not there, and the quota is forgotten.           *)
Update ==
  /\ tf.there /\ ~InSync
  /\ \/ /\ NoMishap
        /\ IF tf.scope = cfg.scope /\ cf[tf.scope].there
           THEN Begin("update", Planned(TRUE), <<Call("put", cfg.memory)>>)
           ELSE Begin("update", Absent, <<>>)
     \/ Mishap("get") /\ GivesUp("update", Planned(TRUE))

(* Nothing is called behind the request whose answer gives the id: a failed *)
(* Create leaves nothing to be tainted and replaced.                        *)
DeleteCalls == <<Call("delete", tf.memory)>>
Destroy == Removed(DeleteCalls)

Effect(c) ==
  CASE c.do \in {"post", "put"} ->
         [cf EXCEPT ![d.scope] = [there |-> TRUE, memory |-> Megabytes(c.arg)]]
    [] c.do = "delete" -> [cf EXCEPT ![d.scope].there = FALSE]
    [] OTHER -> cf

Perform ==
  /\ todo # <<>>
  /\ LET c == Head(todo)
     IN Calling(Effect(c), [d EXCEPT !.there = @ \/ c.do = "find"],
                cf[d.scope].there <=> c.do # "post", FALSE)

OthersChange ==
  \E s \in Scopes, mb \in Amounts, there \in BOOLEAN :
    Others([cf EXCEPT ![s] = [there |-> there, memory |-> IF there THEN mb ELSE @.memory]])

-----------------------------------------------------------------------------
Init == cf \in Quotas /\ Idle(Absent)

NothingToDo == Settled(InSync)
Run     == Refresh \/ ExistsPanics \/ Again \/ NothingToDo \/ Create \/ Update
Operate == Perform \/ Finish \/ EndOperation(Absent)
Disturb == EditConfig \/ OthersChange \/ Destroy \/ Crash(Absent)

Next == Run \/ Operate \/ Disturb
Spec == Init /\ [][Next]_vars

-----------------------------------------------------------------------------
TypeOK ==
  /\ CoreOK /\ cf \in Quotas /\ tf \in Data /\ d \in Data
  /\ todo \in Seq([do : {"post", "find", "put", "delete"}, arg : Memory])

(* An empty plan is true but for the rounding: there is a quota of the      *)
(* scope asked for, and its memory is the amount asked for to within 5% -   *)
(* the tenth of a gigabyte that is shown (quotas.go:41).                    *)
AsAsked ==
  InSync => LET asked  == Megabytes(cfg.memory)
                actual == cf[cfg.scope].memory
            IN /\ cf[cfg.scope].there
               /\ 20 * actual \in 19 * asked .. 21 * asked

(* Runs end in an empty plan when the amount is written as it is shown, and *)
(* no quota of spaces is gone.                                              *)
Recovers == Shown(Megabytes(cfg.memory)) = cfg.memory /\ ~(Gone /\ tf.scope = "space")

(* A Create or Update that succeeded left a quota of the scope asked for,   *)
(* an Update with the amount asked for: Create may have found another.      *)
Truthful ==
  Told => /\ cf[d.scope].there
          /\ op = "update" => cf[d.scope].memory = Megabytes(d.memory)
=============================================================================
