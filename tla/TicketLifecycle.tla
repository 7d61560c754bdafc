--------------------------- MODULE TicketLifecycle --------------------------
(***************************************************************************)
(* The life of the tickets of one round in ticket-service: sale, automatic *)
(* settlement, payout and cancellation, as the interleaved handlers they   *)
(* are.                                                                    *)
(*                                                                         *)
(*  - A sale reads the betting window, then awaits the agent's register    *)
(*    and the jackpot service, and only then commits its row.              *)
(*  - Every replica of ticket-service hears ROUND_FINISHED and settles the *)
(*    round in chunks: SELECT, compute, COMMIT.                            *)
(*  - payout and cancel SELECT the row without a lock, await the register, *)
(*    then write the status.                                               *)
(*                                                                         *)
(* The ORM writes the columns whose value differs from what was SELECTed,  *)
(* by primary key and without a version check; a commit is one step here.  *)
(* The register is the abstract CashLedger, which CashRegister implements: *)
(* a call is posted atomically or not at all, and its answer may be lost.  *)
(***************************************************************************)
EXTENDS Integers, FiniteSets

CONSTANTS
  Tickets,    \* the tickets on sale for the round
  Malformed,  \* tickets whose bets make calculate_payout raise
  Agents,
  Seller,     \* the agent who sells each ticket
  Wager,      \* Ticket.total_wager
  Numbers,    \* the outcomes of the draw
  NoNumber,   \* what is drawn before the draw
  Gain,       \* Gain[t][n]: what the bets of t win when n is drawn
  Jackpots,   \* the payouts a jackpot may add to a ticket at its sale
  Cashiers,   \* clients of payout and cancel, each with one call at a time
  MaxCalls,   \* calls each of them makes: a bound of the model
  Replicas,   \* instances of ticket-service
  Batch,      \* SETTLEMENT_BATCH_SIZE
  Float,      \* what every register holds before the round
  Faults      \* the failures that may happen: a subset of AllFaults

AllFaults ==
  { "timeout",      \* a call to the register is posted, its answer is lost
    "unreachable",  \* a call to the register fails before it is posted
    "commit",       \* a commit of ticket-service fails, or the worker dies
    "event" }       \* Redis pub/sub drops ROUND_FINISHED for a replica

ASSUME TicketsAssumption ==
  /\ Malformed \subseteq Tickets
  /\ Seller \in [Tickets -> Agents]
  /\ Wager \in [Tickets -> Nat \ {0}]
  /\ Gain \in [Tickets -> [Numbers -> Nat]]
  /\ NoNumber \notin Numbers
  /\ Jackpots \subseteq Nat \ {0}
  /\ MaxCalls \in Nat
  /\ Batch \in Nat \ {0}
  /\ Float \in Nat
  /\ Faults \subseteq AllFaults
  /\ IsFiniteSet(Tickets)

VARIABLES
  phase,      \* "Betting", "Closed", "Drawn": roulette:current_state
  drawn,      \* the winning number, or NoNumber
  sale,       \* how far the create_ticket handler of each ticket is
  status,     \* Ticket.status as committed, "none" before the row exists
  payout,     \* Ticket.total_payout as committed
  settled,    \* Ticket.winning_number is set
  won,        \* what jackpots have put on each ticket (history)
  work,       \* what each replica's listener is doing
  view,       \* the chunk a replica has SELECTed: ticket -> row as read
  req,        \* the call each cashier is making
  calls,      \* how many calls each cashier has made
  balance,    \* the registers, through CashLedger
  postings

Status == {"PENDING", "WON", "LOST", "PAID", "CANCELLED"}
Row == [status : Status, payout : Nat]
Ids == {<<t, 0>> : t \in Tickets} \cup (Cashiers \X (1..MaxCalls))
Idle == [op |-> "none"]
Reqs == [op : {"payout", "cancel"}, ticket : Tickets, amount : Nat, posted : BOOLEAN]
CashCalls == [id : Ids, op : {"sale", "payout", "cancel"}, ticket : Tickets,
              agent : Agents, amount : Int]

Cash == INSTANCE CashLedger WITH Calls <- CashCalls, registers <- Agents

ticketVars == <<status, payout, settled>>
cashVars == <<balance, postings>>
vars == <<phase, drawn, sale, ticketVars, won, work, view, req, calls, cashVars>>

TypeOK ==
  /\ phase \in {"Betting", "Closed", "Drawn"}
  /\ drawn \in Numbers \cup {NoNumber}
  /\ sale \in [Tickets -> {"new", "gated", "charged", "sold", "refused", "failed"}]
  /\ status \in [Tickets -> Status \cup {"none"}]
  /\ payout \in [Tickets -> Nat]
  /\ settled \in [Tickets -> BOOLEAN]
  /\ won \in [Tickets -> Nat]
  /\ work \in [Replicas -> {"listening", "notified", "settling", "done"}]
  /\ DOMAIN view = Replicas
  /\ \A s \in Replicas : view[s] \in [DOMAIN view[s] -> Row] /\ DOMAIN view[s] \subseteq Tickets
  /\ req \in [Cashiers -> Reqs \cup {Idle}]
  /\ calls \in [Cashiers -> 0..MaxCalls]
  /\ balance \in [Agents -> Nat]
  /\ postings \subseteq CashCalls

\* What a replica remembers between two chunks.
NoRows == [t \in {} |-> t]

Init ==
  /\ phase = "Betting"
  /\ drawn = NoNumber
  /\ sale = [t \in Tickets |-> "new"]
  /\ status = [t \in Tickets |-> "none"]
  /\ payout = [t \in Tickets |-> 0]
  /\ settled = [t \in Tickets |-> FALSE]
  /\ won = [t \in Tickets |-> 0]
  /\ work = [s \in Replicas |-> "listening"]
  /\ view = [s \in Replicas |-> NoRows]
  /\ req = [c \in Cashiers |-> Idle]
  /\ calls = [c \in Cashiers |-> 0]
  /\ balance = [a \in Agents |-> Float]
  /\ postings = {}
-----------------------------------------------------------------------------
(* The round, as ticket-service sees it.                                   *)

\* The engine stores the phase in Redis before it announces it.
CloseBets ==
  /\ phase = "Betting"
  /\ phase' = "Closed"
  /\ UNCHANGED <<drawn, sale, ticketVars, won, work, view, req, calls, cashVars>>

\* ROUND_FINISHED goes out once to the replicas that are subscribed.
FinishRound ==
  /\ phase = "Closed"
  /\ phase' = "Drawn"
  /\ drawn' \in Numbers
  /\ \E heard \in SUBSET Replicas :
       /\ heard = Replicas \/ "event" \in Faults
       /\ work' = [s \in Replicas |-> IF s \in heard THEN "notified" ELSE work[s]]
  /\ UNCHANGED <<sale, ticketVars, won, view, req, calls, cashVars>>
-----------------------------------------------------------------------------
(* Calls to POST /{agent_id}/provision.  Answered, Unanswered: what the    *)
(* caller knows of a call that was, or was not, posted.                    *)

Posted(c) == Cash!Post(c)
Unposted == UNCHANGED cashVars

\* The caller sees a success.
Answered(c) == Posted(c)

\* The caller sees an error: httpx.HTTPError.
Unanswered(c) ==
  \/ "timeout" \in Faults /\ Posted(c)
  \/ "unreachable" \in Faults /\ Unposted
  \/ ~Cash!Accepts(c) /\ Unposted
-----------------------------------------------------------------------------
(* POST /: create_ticket.                                                  *)

GoSale(t, label) == sale' = [sale EXCEPT ![t] = label]

\* The betting window is read once, at the start of the handler.
GateSale(t) ==
  /\ sale[t] = "new"
  /\ GoSale(t, IF phase = "Betting" THEN "gated" ELSE "refused")
  /\ UNCHANGED <<phase, drawn, ticketVars, won, work, view, req, calls, cashVars>>

SaleCall(t) == [id |-> <<t, 0>>, op |-> "sale", ticket |-> t,
                agent |-> Seller[t], amount |-> Wager[t]]

\* The register takes the stake in.  On an error the handler answers 503 and
\* the ticket, inserted but not committed, is gone.
ChargeSale(t) ==
  /\ sale[t] = "gated"
  /\ \/ Answered(SaleCall(t)) /\ GoSale(t, "charged")
     \/ Unanswered(SaleCall(t)) /\ GoSale(t, "failed")
  /\ UNCHANGED <<phase, drawn, ticketVars, won, work, view, req, calls>>

\* The jackpot's answer, if any, is added to the ticket in memory; the row is
\* committed, WON when the jackpot fell on it.
CommitSale(t) ==
  /\ sale[t] = "charged"
  /\ \E hit \in Jackpots \cup {0} :
       /\ status' = [status EXCEPT ![t] = IF hit > 0 THEN "WON" ELSE "PENDING"]
       /\ payout' = [payout EXCEPT ![t] = hit]
       /\ won' = [won EXCEPT ![t] = hit]
  /\ GoSale(t, "sold")
  /\ UNCHANGED <<phase, drawn, settled, work, view, req, calls, cashVars>>

LoseSale(t) ==
  /\ "commit" \in Faults
  /\ sale[t] = "charged"
  /\ GoSale(t, "failed")
  /\ UNCHANGED <<phase, drawn, ticketVars, won, work, view, req, calls, cashVars>>
-----------------------------------------------------------------------------
(* process_settlement, in the listener of one replica.                     *)

\* Mutant of Unsettled: the filter "winning_number IS NULL" is missing.
UnsettledAny(t) == TRUE
Unsettled(t) == ~settled[t]

\* Mutant of Due: the SELECT does not filter on the status.
DueAnyStatus == {t \in Tickets : status[t] # "none" /\ Unsettled(t)}

\* The tickets the SELECT of a chunk matches.
Due == {t \in Tickets : status[t] \in {"PENDING", "WON"} /\ Unsettled(t)}

\* ORDER BY created_at LIMIT Batch: any order of the sales is possible.
ReadChunk(s) ==
  /\ work[s] = "notified"
  /\ \E chunk \in SUBSET Due :
       /\ Cardinality(chunk) = IF Cardinality(Due) < Batch THEN Cardinality(Due) ELSE Batch
       /\ view' = [view EXCEPT ![s] =
                     [t \in chunk |-> [status |-> status[t], payout |-> payout[t]]]]
       /\ work' = [work EXCEPT ![s] = IF chunk = {} THEN "done" ELSE "settling"]
  /\ UNCHANGED <<phase, drawn, sale, ticketVars, won, req, calls, cashVars>>

\* Mutant of Credited: total_payout is overwritten by the bets' winnings.
CreditedWithoutJackpot(s, t) == Gain[t][drawn]

\* total_payout and status as the loop computes them from the row it read.
Credited(s, t) == view[s][t].payout + Gain[t][drawn]

\* Mutant of Verdict: only what the bets win decides.
VerdictOfBets(s, t) == IF Gain[t][drawn] > 0 THEN "WON" ELSE "LOST"

Verdict(s, t) == IF Credited(s, t) > 0 THEN "WON" ELSE "LOST"

\* Tickets whose bets could be evaluated.  For the others the exception is
\* logged after winning_number was assigned, before total_payout and status.
Evaluated(s) == DOMAIN view[s] \ Malformed

\* Mutant of LastChunk: off by one.
LastChunkOffByOne(chunk) == Cardinality(chunk) <= Batch
LastChunk(chunk) == Cardinality(chunk) < Batch

CommitChunk(s) ==
  LET chunk == DOMAIN view[s] IN
    /\ work[s] = "settling"
    /\ settled' = [t \in Tickets |-> settled[t] \/ t \in chunk]
    /\ payout' = [t \in Tickets |->
         IF t \in Evaluated(s) /\ Credited(s, t) # view[s][t].payout
         THEN Credited(s, t) ELSE payout[t]]
    /\ status' = [t \in Tickets |->
         IF t \in Evaluated(s) /\ Verdict(s, t) # view[s][t].status
         THEN Verdict(s, t) ELSE status[t]]
    /\ view' = [view EXCEPT ![s] = NoRows]
    /\ work' = [work EXCEPT ![s] = IF LastChunk(chunk) THEN "done" ELSE "notified"]
    /\ UNCHANGED <<phase, drawn, sale, won, req, calls, cashVars>>

\* The commit fails: rollback, and the loop stops for good.
AbandonChunk(s) ==
  /\ "commit" \in Faults
  /\ work[s] = "settling"
  /\ view' = [view EXCEPT ![s] = NoRows]
  /\ work' = [work EXCEPT ![s] = "done"]
  /\ UNCHANGED <<phase, drawn, sale, ticketVars, won, req, calls, cashVars>>
-----------------------------------------------------------------------------
(* POST /{short_code}/payout and /{short_code}/cancel.                     *)

\* Mutants of Payable: the status check is too wide, or only asks whether the
\* ticket is settled.
PayableAgain(t) == status[t] \in {"WON", "PAID"} /\ payout[t] > 0
PayableOnceSettled(t) == settled[t]

Payable(t) == status[t] = "WON" /\ payout[t] > 0
Cancellable(t) == status[t] = "PENDING"

\* The handler SELECTs the row and checks it, without a lock.
Ask(c, t, op, amount) ==
  /\ req[c] = Idle
  /\ calls[c] < MaxCalls
  /\ calls' = [calls EXCEPT ![c] = @ + 1]
  /\ req' = [req EXCEPT ![c] = [op |-> op, ticket |-> t, amount |-> amount, posted |-> FALSE]]
  /\ UNCHANGED <<phase, drawn, sale, ticketVars, won, work, view, cashVars>>

AskPayout(c, t) == Payable(t) /\ Ask(c, t, "payout", payout[t])
AskCancel(c, t) == Cancellable(t) /\ Ask(c, t, "cancel", Wager[t])

DebitCall(c) ==
  LET r == req[c] IN
    [id |-> <<c, calls[c]>>, op |-> r.op, ticket |-> r.ticket,
     agent |-> Seller[r.ticket], amount |-> -r.amount]

\* Mutant of Debit: an error of the register is taken for a success.
DebitSwallowed(c) ==
  /\ req[c] # Idle
  /\ ~req[c].posted
  /\ Answered(DebitCall(c)) \/ Unanswered(DebitCall(c))
  /\ req' = [req EXCEPT ![c].posted = TRUE]
  /\ UNCHANGED <<phase, drawn, sale, ticketVars, won, work, view, calls>>

\* The register pays the gain, or gives the stake back.  On an error the
\* handler answers 503 and leaves the status alone.
Debit(c) ==
  /\ req[c] # Idle
  /\ ~req[c].posted
  /\ \/ Answered(DebitCall(c)) /\ req' = [req EXCEPT ![c].posted = TRUE]
     \/ Unanswered(DebitCall(c)) /\ req' = [req EXCEPT ![c] = Idle]
  /\ UNCHANGED <<phase, drawn, sale, ticketVars, won, work, view, calls>>

Final == [op \in {"payout", "cancel"} |-> IF op = "payout" THEN "PAID" ELSE "CANCELLED"]

\* The status is written whatever the row has become since it was read.
CommitStatus(c) ==
  /\ req[c] # Idle
  /\ req[c].posted
  /\ status' = [status EXCEPT ![req[c].ticket] = Final[req[c].op]]
  /\ req' = [req EXCEPT ![c] = Idle]
  /\ UNCHANGED <<phase, drawn, sale, payout, settled, won, work, view, calls, cashVars>>

LoseStatus(c) ==
  /\ "commit" \in Faults
  /\ req[c] # Idle
  /\ req[c].posted
  /\ req' = [req EXCEPT ![c] = Idle]
  /\ UNCHANGED <<phase, drawn, sale, ticketVars, won, work, view, calls, cashVars>>
-----------------------------------------------------------------------------
Settle(s) == ReadChunk(s) \/ CommitChunk(s)

Next ==
  \/ CloseBets \/ FinishRound
  \/ \E t \in Tickets : GateSale(t) \/ ChargeSale(t) \/ CommitSale(t) \/ LoseSale(t)
  \/ \E s \in Replicas : Settle(s) \/ AbandonChunk(s)
  \/ \E c \in Cashiers :
       \/ \E t \in Tickets : AskPayout(c, t) \/ AskCancel(c, t)
       \/ Debit(c) \/ CommitStatus(c) \/ LoseStatus(c)

Spec == Init /\ [][Next]_vars

(***************************************************************************)
(* The engine ends its rounds on timers, and a handler that can run does.  *)
(* Nobody has to sell, pay or cancel anything.                             *)
(***************************************************************************)
FairSpec ==
  /\ Spec
  /\ WF_vars(CloseBets \/ FinishRound)
  /\ \A s \in Replicas : WF_vars(Settle(s))
-----------------------------------------------------------------------------
(* What holds of every round, however its handlers interleave and whatever *)
(* fails.                                                                  *)

(***************************************************************************)
(* Settlement is exact and happens once: until a ticket is settled its     *)
(* total_payout is what jackpots put on it, afterwards that plus what its  *)
(* bets win with the number drawn.  Replicas settling the round in         *)
(* parallel neither "double-count" a payout nor drop the jackpot.          *)
(***************************************************************************)
SettledExactly ==
  \A t \in Tickets :
    payout[t] = IF settled[t] /\ t \notin Malformed THEN won[t] + Gain[t][drawn] ELSE won[t]

(***************************************************************************)
(* The status tells the truth about the money: a WON or PAID ticket has a  *)
(* payout, a LOST one was settled and has none, and a settled ticket is    *)
(* left PENDING only when its bets could not be evaluated.                 *)
(***************************************************************************)
StatusMatchesPayout ==
  \A t \in Tickets :
    /\ status[t] \in {"WON", "PAID"} => payout[t] > 0
    /\ status[t] = "LOST" => settled[t] /\ payout[t] = 0
    /\ settled[t] /\ status[t] = "PENDING" => t \in Malformed

PostingsOf(t, op) == {p \in postings : p.ticket = t /\ p.op = op}

(***************************************************************************)
(* No ticket without money: a row exists only if the register took exactly *)
(* its stake in, PAID only if the register paid, CANCELLED only if it gave *)
(* the stake back.                                                         *)
(***************************************************************************)
MoneyBacksStatus ==
  \A t \in Tickets :
    /\ status[t] # "none" => PostingsOf(t, "sale") = {SaleCall(t)}
    /\ status[t] = "PAID" => PostingsOf(t, "payout") # {}
    /\ status[t] = "CANCELLED" => PostingsOf(t, "cancel") # {}

\* What ticket t is owed, before or after its settlement.
IsOwed(t, amount) ==
  \/ amount = won[t]
  \/ settled[t] /\ t \notin Malformed /\ amount = won[t] + Gain[t][drawn]

(***************************************************************************)
(* No payout is ever more than the ticket is owed: what the register pays  *)
(* is the jackpot it won at its sale, or that and its bets' winnings.      *)
(***************************************************************************)
PayoutsAreOwed ==
  \A p \in postings : p.op = "payout" => IsOwed(p.ticket, -p.amount)

(***************************************************************************)
(* A losing ticket never turns into a winning one: no replica that settles *)
(* the round late, and no handler that read the row early, revives it.     *)
(***************************************************************************)
LostStaysUnpaid ==
  [][\A t \in Tickets : status[t] = "LOST" => status'[t] \in {"LOST", "CANCELLED"}]_vars
-----------------------------------------------------------------------------
(* Why it holds: what the handlers remember is true of the rows.           *)

\* Nothing is settled, and no replica works, before the draw.
RoundInStep ==
  /\ phase = "Drawn" => drawn \in Numbers
  /\ \A t \in Tickets : settled[t] => phase = "Drawn"
  /\ \A s \in Replicas :
       /\ work[s] \in {"notified", "settling"} => phase = "Drawn"
       /\ work[s] # "settling" => view[s] = NoRows

\* A ticket has a row once its sale is committed; until then nothing is known
\* of it.
SalesInStep ==
  \A t \in Tickets :
    /\ sale[t] = "sold" <=> status[t] # "none"
    /\ status[t] = "none" => won[t] = 0 /\ ~settled[t]

\* A replica read the row before it was settled by anyone: what it remembers of
\* total_payout is the jackpot, and a ticket it saw WON is not PENDING again.
ViewsAreTrue ==
  \A s \in Replicas : \A t \in DOMAIN view[s] :
    /\ status[t] # "none"
    /\ view[s][t].payout = won[t]
    /\ view[s][t].status \in {"PENDING", "WON"}
    /\ view[s][t].status = "WON" => status[t] # "PENDING"

\* A cashier's request is for a ticket with a row and, if it is a payout, for
\* an amount that is owed; once posted, it is among the postings.
RequestIsTrue(c) ==
  LET r == req[c] IN
    /\ calls[c] > 0
    /\ status[r.ticket] # "none"
    /\ r.op = "payout" => r.amount > 0 /\ IsOwed(r.ticket, r.amount)
    /\ r.posted => PostingsOf(r.ticket, r.op) # {}

RequestsAreTrue == \A c \in Cashiers : req[c] # Idle => RequestIsTrue(c)

\* Postings are sales as the handler makes them, or payouts of tickets that
\* have a row.
PostingsAreTrue ==
  /\ \A p \in postings :
       /\ p.op = "sale" => p = SaleCall(p.ticket)
       /\ p.op = "payout" => status[p.ticket] # "none"
  /\ \A t \in Tickets : sale[t] = "charged" => SaleCall(t) \in postings

(***************************************************************************)
(* The inductive invariant: the handlers' copies of the rows are stale in  *)
(* known ways only.  A replica's copy was read before settlement and so    *)
(* holds exactly the jackpot; a cashier's copy holds an amount that was    *)
(* owed when it was read and still is.                                     *)
(***************************************************************************)
IInv ==
  /\ TypeOK
  /\ RoundInStep
  /\ SalesInStep
  /\ ViewsAreTrue
  /\ RequestsAreTrue
  /\ PostingsAreTrue
  /\ SettledExactly
  /\ StatusMatchesPayout
  /\ MoneyBacksStatus
  /\ PayoutsAreOwed
-----------------------------------------------------------------------------
(* What holds of one counter and one replica, when nothing fails.          *)

(***************************************************************************)
(* One payout per ticket ("Ce ticket a deja ete paye"): the register pays  *)
(* for a ticket at most once.  The handlers do not ensure it, as the run   *)
(* double_payout shows: it needs clients that make one call at a time and  *)
(* a single listener that settles the round.                               *)
(***************************************************************************)
PaidAtMostOnce == \A t \in Tickets : Cardinality(PostingsOf(t, "payout")) <= 1

(***************************************************************************)
(* PAID is final: no settlement or call changes a ticket that was paid.    *)
(***************************************************************************)
PaidIsFinal == [][\A t \in Tickets : status[t] = "PAID" => status'[t] = "PAID"]_vars

(***************************************************************************)
(* Every ticket whose row is committed while bets are open ends: it is not *)
(* PENDING forever.                                                        *)
(***************************************************************************)
SoldInTimeIsSettled ==
  \A t \in Tickets \ Malformed :
    (status[t] = "PENDING" /\ phase = "Betting") ~> (status[t] # "PENDING")

(***************************************************************************)
(* cancel refuses a ticket that is PAID, CANCELLED, LOST or WON: violated  *)
(* by one client and one replica, as the ticket may be settled between the *)
(* check of its status and the commit of its cancellation.                 *)
(***************************************************************************)
OnlyPendingIsCancelled ==
  [][\A t \in Tickets :
       status[t] # "CANCELLED" /\ status'[t] = "CANCELLED" => status[t] = "PENDING"]_vars

(***************************************************************************)
(* A ticket whose stake went back is not paid as well: violated by one     *)
(* client and one replica, as a chunk SELECTed before the cancellation     *)
(* writes WON over CANCELLED.                                              *)
(***************************************************************************)
RefundedIsNotPaid ==
  \A t \in Tickets : PostingsOf(t, "cancel") = {} \/ PostingsOf(t, "payout") = {}
=============================================================================
