---------------------------- MODULE CashRegister ----------------------------
(***************************************************************************)
(* The cash registers of agent-service: POST /{agent_id}/provision as the  *)
(* concurrent database transactions it really is.  Every request opens its *)
(* own session, takes the row lock of the register with SELECT ... FOR     *)
(* UPDATE, decides on the balance it read, writes the new balance as an    *)
(* absolute value together with an audit row, and commits.  A request may  *)
(* be lost at any point: the worker dies, the connection breaks, the       *)
(* caller gives up.  Postgres then rolls the open transaction back and     *)
(* frees the lock.                                                         *)
(***************************************************************************)
EXTENDS Integers, Sequences

CONSTANTS
  Agents,    \* agents, with or without a register
  Requests,  \* provision requests; each is handled once
  Amounts,   \* amounts asked for; negative ones take cash out
  NoRequest  \* the owner of a row lock nobody holds

ASSUME RegisterAssumption ==
  /\ Amounts \subseteq Int
  /\ NoRequest \notin Requests

VARIABLES
  registers,  \* agents whose Agent and CashRegister rows are committed
  balance,    \* CashRegister.balance, committed
  audit,      \* CashRegisterTransaction rows of each agent, oldest first
  lock,       \* the request that holds the row lock of each register
  pc,         \* how far the handler of each request is
  call,       \* agent and amount of each request
  seen        \* caisse.balance as the handler of the request read it

vars == <<registers, balance, audit, lock, pc, call, seen>>
rows == <<registers, balance, audit>>

Entries == [id : Requests, amount : Amounts, before : Nat, after : Nat]
Running == {"waiting", "locked", "committed"}
Answers == {"success", "rejected", "notfound", "error", "lost"}

(***************************************************************************)
(* The types of the variables.  No balance, committed or on the audit      *)
(* trail, is ever negative, however many debits race for the last franc.   *)
(***************************************************************************)
TypeOK ==
  /\ registers \subseteq Agents
  /\ balance \in [Agents -> Nat]
  /\ audit \in [Agents -> Seq(Entries)]
  /\ lock \in [Agents -> Requests \cup {NoRequest}]
  /\ pc \in [Requests -> {"idle"} \cup Running \cup Answers]
  /\ call \in [Requests -> [agent : Agents, amount : Amounts]]
  /\ seen \in [Requests -> Nat]

Init ==
  /\ registers = {}
  /\ balance = [a \in Agents |-> 0]
  /\ audit = [a \in Agents |-> <<>>]
  /\ lock = [a \in Agents |-> NoRequest]
  /\ pc = [r \in Requests |-> "idle"]
  /\ call \in [Requests -> [agent : Agents, amount : Amounts]]
  /\ seen = [r \in Requests |-> 0]

Goto(r, label) == pc' = [pc EXCEPT ![r] = label]

\* Mutants of Free and Release: the SELECT forgets with_for_update(); the
\* session of a finished request is left open.
FreeUnlocked(a) == TRUE
ReleaseForgotten(r) == UNCHANGED lock

\* SELECT ... FOR UPDATE waits while another transaction holds the row.
Free(a) == lock[a] = NoRequest

\* The end of its transaction frees whatever request r holds.
Release(r) ==
  lock' = [a \in Agents |-> IF lock[a] = r THEN NoRequest ELSE lock[a]]

(***************************************************************************)
(* register_agent and create_agent insert the agent and its register, with *)
(* balance 0, in one commit.                                               *)
(***************************************************************************)
OpenRegister(a) ==
  /\ a \notin registers
  /\ registers' = registers \cup {a}
  /\ UNCHANGED <<balance, audit, lock, pc, call, seen>>

\* The request reaches the handler, which issues SELECT ... FOR UPDATE.
Receive(r) ==
  /\ pc[r] = "idle"
  /\ Goto(r, "waiting")
  /\ UNCHANGED <<rows, lock, call, seen>>

\* The row exists and nobody holds it: the handler reads the balance.
Acquire(r) ==
  LET a == call[r].agent IN
    /\ pc[r] = "waiting"
    /\ a \in registers
    /\ Free(a)
    /\ lock' = [lock EXCEPT ![a] = r]
    /\ seen' = [seen EXCEPT ![r] = balance[a]]
    /\ Goto(r, "locked")
    /\ UNCHANGED <<rows, call>>

NotFound(r) ==
  /\ pc[r] = "waiting"
  /\ call[r].agent \notin registers
  /\ Goto(r, "notfound")
  /\ UNCHANGED <<rows, lock, call, seen>>

\* Mutant of Overdraws: the check is off by one.
OverdrawsOffByOne(r) == call[r].amount < 0 /\ seen[r] + 1 < -call[r].amount

\* req.amount < 0 and caisse.balance < abs(req.amount)
Overdraws(r) == call[r].amount < 0 /\ seen[r] < -call[r].amount

Reject(r) ==
  /\ pc[r] = "locked"
  /\ Overdraws(r)
  /\ Release(r)
  /\ Goto(r, "rejected")
  /\ UNCHANGED <<rows, call, seen>>

\* The balance is written as read plus amount, not incremented in place.
Write(r) ==
  LET a == call[r].agent
      after == seen[r] + call[r].amount
  IN
    /\ balance' = [balance EXCEPT ![a] = after]
    /\ audit' = [audit EXCEPT ![a] =
                   Append(@, [id |-> r, amount |-> call[r].amount,
                              before |-> seen[r], after |-> after])]
    /\ UNCHANGED registers

Commit(r) ==
  /\ pc[r] = "locked"
  /\ ~Overdraws(r)
  /\ Write(r)
  /\ Release(r)
  /\ Goto(r, "committed")
  /\ UNCHANGED <<call, seen>>

\* Mutant of CommitFails: the except branch forgets to raise.
CommitFailureSwallowed(r) ==
  /\ pc[r] = "locked"
  /\ ~Overdraws(r)
  /\ UNCHANGED <<rows, call, seen>>
  /\ Release(r)
  /\ Goto(r, "committed")

(***************************************************************************)
(* db.commit() raises: the handler rolls back and answers 500.  When the   *)
(* connection broke after COMMIT was sent, Postgres may have applied it.   *)
(***************************************************************************)
CommitFails(r) ==
  /\ pc[r] = "locked"
  /\ ~Overdraws(r)
  /\ Write(r) \/ UNCHANGED rows
  /\ Release(r)
  /\ Goto(r, "error")
  /\ UNCHANGED <<call, seen>>

Reply(r) ==
  /\ pc[r] = "committed"
  /\ Goto(r, "success")
  /\ UNCHANGED <<rows, lock, call, seen>>

\* The worker or the connection is lost: no answer, and an open transaction
\* is rolled back.
Lose(r) ==
  /\ pc[r] \in Running
  /\ Release(r)
  /\ Goto(r, "lost")
  /\ UNCHANGED <<rows, call, seen>>

Step(r) == Acquire(r) \/ NotFound(r) \/ Reject(r) \/ Commit(r) \/ CommitFails(r) \/ Reply(r)

Next ==
  \/ \E a \in Agents : OpenRegister(a)
  \/ \E r \in Requests : Receive(r) \/ Step(r) \/ Lose(r)

Spec == Init /\ [][Next]_vars

(***************************************************************************)
(* A transaction that can proceed does: the event loop and Postgres' lock  *)
(* queue starve nobody.                                                    *)
(***************************************************************************)
FairSpec == Spec /\ \A r \in Requests : WF_vars(Step(r))
-----------------------------------------------------------------------------
\* The balance an agent's last audit row leaves behind.
LastAfter(a) == IF audit[a] = <<>> THEN 0 ELSE audit[a][Len(audit[a])].after

(***************************************************************************)
(* The audit trail explains the balance: every row starts from the balance *)
(* the row before it left, moves it by its amount, and the register holds  *)
(* what the last row says ("Pour l'audit parfait de la caisse").  One lost *)
(* update between two concurrent provisions breaks the chain.              *)
(***************************************************************************)
AuditChained ==
  \A a \in Agents :
    /\ balance[a] = LastAfter(a)
    /\ \A i \in DOMAIN audit[a] :
         LET e == audit[a][i] IN
           /\ e.before = IF i = 1 THEN 0 ELSE audit[a][i - 1].after
           /\ e.after = e.before + e.amount

\* The audit rows request r has written to agent a's trail.
RowsOf(r, a) == {i \in DOMAIN audit[a] : audit[a][i].id = r}

(***************************************************************************)
(* What the caller may conclude from an answer: success means the amount   *)
(* is on the trail of its agent, once; a 400 or a 404 means it is nowhere. *)
(* (A 500 or no answer means neither: see CommitFails and Lose.)           *)
(***************************************************************************)
AnswersAreTrue ==
  \A r \in Requests :
    /\ pc[r] \in {"committed", "success"} =>
         \E i \in RowsOf(r, call[r].agent) :
           /\ RowsOf(r, call[r].agent) = {i}
           /\ audit[call[r].agent][i].amount = call[r].amount
    /\ pc[r] \in {"rejected", "notfound"} =>
         \A a \in Agents : RowsOf(r, a) = {}

(***************************************************************************)
(* Every request that is being handled ends with an answer, or is lost:    *)
(* the row locks of concurrent provisions never leave one waiting forever. *)
(***************************************************************************)
EveryRequestEnds ==
  \A r \in Requests :
    (pc[r] = "waiting") ~> (pc[r] \in Answers)

\* What the audit trails show of the calls that were posted.
Posted ==
  UNION {{[id |-> audit[a][i].id, agent |-> a, amount |-> audit[a][i].amount]
            : i \in DOMAIN audit[a]} : a \in Agents}

Ledger == INSTANCE CashLedger
            WITH Calls <- [id : Requests, agent : Agents, amount : Amounts],
                 postings <- Posted

(***************************************************************************)
(* The locking protocol implements the ledger: what callers see of their   *)
(* concurrent provisions is atomic postings, each at most once.            *)
(***************************************************************************)
ImplementsLedger == Ledger!Spec
=============================================================================
