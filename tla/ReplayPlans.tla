----------------------------- MODULE ReplayPlans -----------------------------
(***************************************************************************)
(* Replay plans of ticket-service: a sale with replay_rounds = N pays for  *)
(* N rounds at once; at the start of every betting window the listener of  *)
(* each replica creates a ticket for every active plan, until the plan is  *)
(* used up or its agent cancels it and gets the unplayed rounds refunded.  *)
(*                                                                         *)
(* Generation and cancellation SELECT the plan without a lock, compute     *)
(* new values from what they read, and write the columns that changed at   *)
(* their commit.  Money is counted in stakes: one stake is one round.      *)
(***************************************************************************)
EXTENDS Integers, Sequences, FiniteSets

CONSTANTS
  Plans,
  Rounds,      \* Rounds[p]: replay_rounds of the sale, N
  MaxRound,    \* rounds of the game that are played: a bound of the model
  Replicas,    \* instances of ticket-service, each with its listener
  Cancellers,  \* clients of POST /{plan_id}/cancel
  MaxCancels,  \* calls they make in all: a bound of the model
  Faults       \* the failures that may happen, a subset of AllFaults

AllFaults ==
  { "event",        \* Redis pub/sub drops phase_changed for a replica
    "commit",       \* a transaction of ticket-service fails
    "timeout",      \* agent-service posts the refund, its answer is lost
    "unreachable" } \* agent-service does not post the refund

ASSUME PlansAssumption ==
  /\ Rounds \in [Plans -> Nat \ {0, 1}]
  /\ MaxRound \in Nat
  /\ MaxCancels \in Nat
  /\ Faults \subseteq AllFaults

VARIABLES
  round,     \* the round in roulette:current_state, 0 before the first
  plan,      \* TicketPlan rows, as committed
  sale,      \* the round a sale was let in for by the betting gate, or 0
  original,  \* the round of each plan's original ticket, 0 before the sale
  children,  \* the tickets generated for each plan: their rounds, in order
  inbox,     \* phase_changed events a replica's listener has still to handle
  view,      \* the ACTIVE plans a replica's generation has SELECTed
  cancel,    \* what each canceller is doing, with the row it read
  calls,     \* calls the cancellers have made
  refunded   \* stakes the register gave back for each plan

tickets == <<original, children>>
vars == <<round, plan, sale, tickets, inbox, view, cancel, calls, refunded>>

Row == [status : {"none", "ACTIVE", "COMPLETED", "CANCELLED"},
        remaining : Nat, played : Nat, last : 0..MaxRound]
Absent == [status |-> "none", remaining |-> 0, played |-> 0, last |-> 0]
Idle == [step |-> "idle"]
Cancels == [step : {"asked", "refunded"}, plan : Plans, row : Row]

(***************************************************************************)
(* The types of the variables.  rounds_remaining never goes below zero,    *)
(* whichever of the handlers that read it writes last.                     *)
(***************************************************************************)
TypeOK ==
  /\ round \in 0..MaxRound
  /\ plan \in [Plans -> Row]
  /\ sale \in [Plans -> 0..MaxRound]
  /\ original \in [Plans -> 0..MaxRound]
  /\ children \in [Plans -> Seq(1..MaxRound)]
  /\ inbox \in [Replicas -> Seq(1..MaxRound)]
  /\ DOMAIN view = Replicas
  /\ \A s \in Replicas : DOMAIN view[s] \subseteq Plans /\ view[s] \in [DOMAIN view[s] -> Row]
  /\ cancel \in [Cancellers -> Cancels \cup {Idle}]
  /\ calls \in 0..MaxCancels
  /\ refunded \in [Plans -> Nat]

NoRows == [p \in {} |-> Absent]

Init ==
  /\ round = 0
  /\ plan = [p \in Plans |-> Absent]
  /\ sale = [p \in Plans |-> 0]
  /\ original = [p \in Plans |-> 0]
  /\ children = [p \in Plans |-> <<>>]
  /\ inbox = [s \in Replicas |-> <<>>]
  /\ view = [s \in Replicas |-> NoRows]
  /\ cancel = [c \in Cancellers |-> Idle]
  /\ calls = 0
  /\ refunded = [p \in Plans |-> 0]

\* Mutant of Flushed: the whole row is written back.
FlushedWhole(new, read, stored) == new

\* The ORM writes the columns that changed since the row was read.
Flushed(new, read, stored) ==
  [f \in DOMAIN new |-> IF new[f] = read[f] THEN stored[f] ELSE new[f]]

\* The engine stores the phase in Redis, then announces it.
OpenBetting ==
  /\ round < MaxRound
  /\ round' = round + 1
  /\ \E heard \in SUBSET Replicas :
       /\ heard = Replicas \/ "event" \in Faults
       /\ inbox' = [s \in Replicas |-> IF s \in heard THEN Append(inbox[s], round + 1) ELSE inbox[s]]
  /\ UNCHANGED <<plan, sale, tickets, view, cancel, calls, refunded>>
-----------------------------------------------------------------------------
(* The sale: create_ticket with replay_rounds > 1.                         *)

Gate(p) ==
  /\ round > 0
  /\ sale[p] = 0
  /\ sale' = [sale EXCEPT ![p] = round]
  /\ UNCHANGED <<round, plan, tickets, inbox, view, cancel, calls, refunded>>

\* The register has taken N stakes in; the ticket and its plan are committed
\* together.  last_round_id is left NULL.
CreatePlan(p) ==
  /\ sale[p] > 0
  /\ original[p] = 0
  /\ original' = [original EXCEPT ![p] = sale[p]]
  /\ plan' = [plan EXCEPT ![p] =
       [status |-> "ACTIVE", remaining |-> Rounds[p] - 1, played |-> 1, last |-> 0]]
  /\ UNCHANGED <<round, sale, children, inbox, view, cancel, calls, refunded>>
-----------------------------------------------------------------------------
(* generate_replay_tickets_for_round, in the listener of one replica.      *)

\* What the SELECT matches.
Live(row) == row.status = "ACTIVE" /\ row.remaining > 0

ReadPlans(s) ==
  /\ inbox[s] # <<>>
  /\ view[s] = NoRows
  /\ LET live == {p \in Plans : Live(plan[p])} IN
       /\ view' = [view EXCEPT ![s] = [p \in live |-> plan[p]]]
       /\ inbox' = [inbox EXCEPT ![s] = IF live = {} THEN Tail(@) ELSE @]
  /\ UNCHANGED <<round, plan, sale, tickets, cancel, calls, refunded>>

\* "Idempotence": the plan has no ticket for this round yet.
Due(row, r) == row.last # r

\* Mutant of Advanced: a plan is never completed.
AdvancedOnce(row, r) == [row EXCEPT !.remaining = @ - 1, !.played = @ + 1, !.last = r]

Advanced(row, r) ==
  [status |-> IF row.remaining - 1 <= 0 THEN "COMPLETED" ELSE row.status,
   remaining |-> row.remaining - 1, played |-> row.played + 1, last |-> r]

\* One commit for the children and the decrements of all plans.
Generate(s) ==
  LET r == Head(inbox[s])
      due == {p \in DOMAIN view[s] : Due(view[s][p], r)}
  IN
    /\ view[s] # NoRows
    /\ children' = [p \in Plans |-> IF p \in due THEN Append(children[p], r) ELSE children[p]]
    /\ plan' = [p \in Plans |->
         IF p \in due THEN Flushed(Advanced(view[s][p], r), view[s][p], plan[p]) ELSE plan[p]]
    /\ view' = [view EXCEPT ![s] = NoRows]
    /\ inbox' = [inbox EXCEPT ![s] = Tail(@)]
    /\ UNCHANGED <<round, sale, original, cancel, calls, refunded>>

\* The exception is logged; no plan gets a ticket for this round from s.
LoseGeneration(s) ==
  /\ "commit" \in Faults
  /\ view[s] # NoRows
  /\ view' = [view EXCEPT ![s] = NoRows]
  /\ inbox' = [inbox EXCEPT ![s] = Tail(@)]
  /\ UNCHANGED <<round, plan, sale, tickets, cancel, calls, refunded>>
-----------------------------------------------------------------------------
(* POST /{plan_id}/cancel.                                                 *)

Cancellable(row) == row.status = "ACTIVE"

AskCancel(c, p) ==
  /\ cancel[c] = Idle
  /\ Cancellable(plan[p])
  /\ calls < MaxCancels
  /\ calls' = calls + 1
  /\ cancel' = [cancel EXCEPT ![c] = [step |-> "asked", plan |-> p, row |-> plan[p]]]
  /\ UNCHANGED <<round, plan, sale, tickets, inbox, view, refunded>>

\* Mutant of Owed: off by one.
OwedLess(row) == row.remaining - 1
Owed(row) == row.remaining

\* The refund is posted or not, and the handler learns of it or not: on an
\* error it rolls back and answers 503.
Refund(c) ==
  LET p == cancel[c].plan
      posted == refunded' = [refunded EXCEPT ![p] = @ + Owed(cancel[c].row)]
      failed == cancel' = [cancel EXCEPT ![c] = Idle]
  IN
    /\ cancel[c] # Idle
    /\ cancel[c].step = "asked"
    /\ \/ posted /\ cancel' = [cancel EXCEPT ![c].step = "refunded"]
       \/ "timeout" \in Faults /\ posted /\ failed
       \/ "unreachable" \in Faults /\ UNCHANGED refunded /\ failed
    /\ UNCHANGED <<round, plan, sale, tickets, inbox, view, calls>>

Cancelled(row) == [row EXCEPT !.status = "CANCELLED", !.remaining = 0]

CommitCancel(c) ==
  LET p == cancel[c].plan
      read == cancel[c].row
  IN
    /\ cancel[c] # Idle
    /\ cancel[c].step = "refunded"
    /\ plan' = [plan EXCEPT ![p] = Flushed(Cancelled(read), read, @)]
    /\ cancel' = [cancel EXCEPT ![c] = Idle]
    /\ UNCHANGED <<round, sale, tickets, inbox, view, calls, refunded>>

LoseCancel(c) ==
  /\ "commit" \in Faults
  /\ cancel[c] # Idle
  /\ cancel[c].step = "refunded"
  /\ cancel' = [cancel EXCEPT ![c] = Idle]
  /\ UNCHANGED <<round, plan, sale, tickets, inbox, view, calls, refunded>>
-----------------------------------------------------------------------------
Next ==
  \/ OpenBetting
  \/ \E p \in Plans : Gate(p) \/ CreatePlan(p)
  \/ \E s \in Replicas : ReadPlans(s) \/ Generate(s) \/ LoseGeneration(s)
  \/ \E c \in Cancellers :
       \/ \E p \in Plans : AskCancel(c, p)
       \/ Refund(c) \/ CommitCancel(c) \/ LoseCancel(c)

Spec == Init /\ [][Next]_vars
-----------------------------------------------------------------------------
(***************************************************************************)
(* The plan and its tickets agree: rounds_played counts the original and   *)
(* the generated tickets; a plan that was not cancelled has the rest of    *)
(* its N rounds left, and is COMPLETED exactly when none is.  A single     *)
(* replica keeps it so through lost events, failed transactions and        *)
(* concurrent cancellations.                                               *)
(***************************************************************************)
TicketsMatchPlan ==
  \A p \in Plans :
    LET row == plan[p] IN
      row.status # "none" =>
        /\ row.played = 1 + Len(children[p])
        /\ row.played <= Rounds[p]
        /\ row.status = "ACTIVE" => row.remaining > 0 /\ row.remaining + row.played = Rounds[p]
        /\ row.status = "COMPLETED" => row.remaining = 0 /\ row.played = Rounds[p]

(***************************************************************************)
(* Nobody is short-changed: the stakes of all the rounds a cancelled plan  *)
(* did not play were given back.                                           *)
(***************************************************************************)
CancelledIsRefunded ==
  \A p \in Plans :
    plan[p].status = "CANCELLED" => plan[p].played + refunded[p] >= Rounds[p]

(***************************************************************************)
(* A stake is used once: the rounds played and the rounds refunded are at  *)
(* most the N that were paid for.  Violated: the refund is computed from a *)
(* row that a generation, or another cancellation, changes meanwhile.      *)
(***************************************************************************)
StakesCover == \A p \in Plans :
  plan[p].status # "none" => 1 + Len(children[p]) + refunded[p] <= Rounds[p]

(***************************************************************************)
(* A plan that is over stays over: no generation that read it earlier and  *)
(* no cancellation makes it ACTIVE again.                                  *)
(***************************************************************************)
OverIsOver ==
  [][\A p \in Plans : plan[p].status \in {"COMPLETED", "CANCELLED"} =>
       plan'[p].status \in {"COMPLETED", "CANCELLED"}]_vars
=============================================================================
