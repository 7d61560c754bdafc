----------------------------- MODULE CashLedger -----------------------------
(***************************************************************************)
(* What the cash register of agent-service promises its callers, with no   *)
(* locks, sessions or failures in it: a call to POST /{agent_id}/provision *)
(* either has no effect or is posted to the agent's register, at most once *)
(* and at one instant, and never overdraws it.                             *)
(*                                                                         *)
(* CashRegister is shown to implement this module, and TicketLifecycle     *)
(* uses it as the register it calls over HTTP.                             *)
(***************************************************************************)
EXTENDS Integers

CONSTANTS
  Agents,   \* the agents that may own a register
  Calls     \* the calls that may be made: records with fields agent, amount

VARIABLES
  registers,  \* the agents whose register exists
  balance,    \* CashRegister.balance of every agent
  postings    \* the calls that have been posted

vars == <<registers, balance, postings>>

TypeOK ==
  /\ registers \subseteq Agents
  /\ balance \in [Agents -> Nat]
  /\ postings \subseteq Calls

Init ==
  /\ registers = {}
  /\ balance = [a \in Agents |-> 0]
  /\ postings = {}

\* A new agent gets an empty register.
Open(a) ==
  /\ registers' = registers \cup {a}
  /\ UNCHANGED <<balance, postings>>

\* The check of the balance and the posting are one step.
Accepts(c) ==
  /\ c.agent \in registers
  /\ c \notin postings
  /\ balance[c.agent] + c.amount >= 0

Post(c) ==
  /\ Accepts(c)
  /\ balance' = [balance EXCEPT ![c.agent] = @ + c.amount]
  /\ postings' = postings \cup {c}
  /\ UNCHANGED registers

Next == (\E a \in Agents : Open(a)) \/ (\E c \in Calls : Post(c))

Spec == Init /\ [][Next]_vars
=============================================================================
