----------------------- MODULE TicketLifecycle_proofs -----------------------
(***************************************************************************)
(* Proofs about TicketLifecycle: its safety invariants hold for every      *)
(* number of tickets, agents, counters and replicas and under every set of *)
(* Faults.                                                                 *)
(*                                                                         *)
(* The invariants are not inductive as they stand.  What a replica writes  *)
(* depends on the rows it SELECTed earlier, and what a counter writes on a *)
(* row it checked before it called the register; IInv adds what is true of *)
(* these copies when they are used: a replica's copy of a row holds the    *)
(* jackpot and nothing else (ViewsAreTrue), a counter's request is for an  *)
(* amount that was owed and still is (RequestsAreTrue), and the stake of a *)
(* sale about to commit is posted (PostingsAreTrue).  One lemma per action *)
(* shows that it keeps IInv.                                               *)
(***************************************************************************)
EXTENDS TicketLifecycle, FiniteSetTheorems, TLAPS

\* The calls the handlers make are calls CashLedger knows: a sale, and the
\* debit of a cashier that has made a request.
LEMMA CallTypes ==
  ASSUME TypeOK
  PROVE  /\ \A t \in Tickets : SaleCall(t) \in CashCalls
         /\ \A c \in Cashiers : req[c] # Idle /\ calls[c] > 0 => DebitCall(c) \in CashCalls
  <1>1. ASSUME NEW t \in Tickets
        PROVE  SaleCall(t) \in CashCalls
    BY TicketsAssumption DEF SaleCall, CashCalls, Ids
  <1>2. ASSUME NEW c \in Cashiers, req[c] # Idle, calls[c] > 0
        PROVE  DebitCall(c) \in CashCalls
    <2>1. req[c] \in Reqs /\ calls[c] \in 1..MaxCalls
      BY <1>2, TicketsAssumption DEF TypeOK
    <2>2. <<c, calls[c]>> \in Ids /\ -req[c].amount \in Int
      BY <2>1 DEF Ids, Reqs
    <2>3. QED
      BY <2>1, <2>2, TicketsAssumption DEF DebitCall, CashCalls, Reqs
  <1>3. QED
    BY <1>1, <1>2

\* Whatever its caller is told, a call to the register leaves it nonnegative
\* and is posted at most once; an answer means that it was posted.
LEMMA CallOutcome ==
  ASSUME TypeOK, NEW x \in CashCalls, Answered(x) \/ Unanswered(x)
  PROVE  /\ balance' \in [Agents -> Nat]
         /\ postings' \in {postings, postings \cup {x}}
         /\ Answered(x) => x \in postings'
  <1>1. CASE Posted(x)
    BY <1>1 DEF TypeOK, Answered, Posted, Cash!Post, Cash!Accepts, CashCalls
  <1>2. CASE ~Posted(x)
    BY <1>2 DEF TypeOK, Answered, Unanswered, Unposted, cashVars
  <1>3. QED
    BY <1>1, <1>2

\* The register takes the stake of a sale in, and the ticket has no row yet:
\* the one posting of op "sale" that MoneyBacksStatus asks for is this one.
LEMMA ChargeSaleStep ==
  ASSUME IInv, NEW t \in Tickets, ChargeSale(t)
  PROVE  IInv'
  <1> DEFINE x == SaleCall(t)
  <1>0. /\ TypeOK /\ RoundInStep /\ SalesInStep /\ ViewsAreTrue /\ RequestsAreTrue
        /\ PostingsAreTrue /\ SettledExactly /\ StatusMatchesPayout /\ MoneyBacksStatus
        /\ PayoutsAreOwed
    BY DEF IInv
  <1>1. /\ x \in CashCalls
        /\ x.op = "sale" /\ x.ticket = t
    BY <1>0, CallTypes DEF SaleCall
  <1>2. /\ balance' \in [Agents -> Nat]
        /\ postings' \in {postings, postings \cup {x}}
        /\ \/ sale' = [sale EXCEPT ![t] = "charged"] /\ x \in postings'
           \/ sale' = [sale EXCEPT ![t] = "failed"]
    BY <1>0, <1>1, CallOutcome DEF ChargeSale, GoSale
  <1>3. /\ sale[t] = "gated"
        /\ UNCHANGED <<phase, drawn, status, payout, settled, won, work, view, req, calls>>
    BY DEF ChargeSale, ticketVars
  <1> HIDE DEF x
  <1>4. TypeOK'
    BY <1>0, <1>1, <1>2, <1>3 DEF TypeOK
  <1>5. RoundInStep' /\ ViewsAreTrue' /\ SettledExactly' /\ StatusMatchesPayout'
    BY <1>0, <1>3 DEF RoundInStep, ViewsAreTrue, SettledExactly, StatusMatchesPayout
  <1>6. SalesInStep'
    BY <1>0, <1>2, <1>3 DEF TypeOK, SalesInStep
  <1>7. RequestsAreTrue'
    BY <1>0, <1>2, <1>3 DEF RequestsAreTrue, RequestIsTrue, PostingsOf, IsOwed
  <1>8. PostingsAreTrue'
    BY <1>0, <1>1, <1>2, <1>3 DEF TypeOK, PostingsAreTrue, SaleCall, x
  <1>9. PayoutsAreOwed'
    BY <1>0, <1>1, <1>2, <1>3 DEF PayoutsAreOwed, IsOwed
  <1>10. MoneyBacksStatus'
    <2>1. status[t] = "none"
      BY <1>0, <1>3 DEF SalesInStep
    <2>2. \A u \in Tickets \ {t} : \A op : PostingsOf(u, op)' = PostingsOf(u, op)
      BY <1>1, <1>2 DEF PostingsOf
    <2>3. \A u \in Tickets : SaleCall(u)' = SaleCall(u)
      BY DEF SaleCall
    <2>4. QED
      BY <1>0, <1>3, <2>1, <2>2, <2>3 DEF MoneyBacksStatus
  <1>11. QED
    BY <1>4, <1>5, <1>6, <1>7, <1>8, <1>9, <1>10 DEF IInv

\* The register pays, or does not: an amount that was owed when it was read
\* still is.
LEMMA DebitStep ==
  ASSUME IInv, NEW c \in Cashiers, Debit(c)
  PROVE  IInv'
  <1> DEFINE x == DebitCall(c)
             r == req[c]
  <1>0. /\ TypeOK /\ RoundInStep /\ SalesInStep /\ ViewsAreTrue /\ RequestsAreTrue
        /\ PostingsAreTrue /\ SettledExactly /\ StatusMatchesPayout /\ MoneyBacksStatus
        /\ PayoutsAreOwed
    BY DEF IInv
  <1>1. r # Idle /\ r \in Reqs /\ calls[c] > 0
    BY <1>0 DEF Debit, TypeOK, RequestsAreTrue, RequestIsTrue
  <1>2. /\ x \in CashCalls
        /\ x.op = r.op /\ x.ticket = r.ticket /\ x.amount = -r.amount
        /\ r.op \in {"payout", "cancel"} /\ r.ticket \in Tickets /\ r.amount \in Nat
    BY <1>0, <1>1, CallTypes DEF DebitCall, Reqs
  <1>3. /\ balance' \in [Agents -> Nat]
        /\ postings' \in {postings, postings \cup {x}}
        /\ \/ req' = [req EXCEPT ![c].posted = TRUE] /\ x \in postings'
           \/ req' = [req EXCEPT ![c] = Idle]
    BY <1>0, <1>2, CallOutcome DEF Debit
  <1>4. UNCHANGED <<phase, drawn, sale, status, payout, settled, won, work, view, calls>>
    BY DEF Debit, ticketVars
  <1>5. /\ status[r.ticket] # "none"
        /\ r.op = "payout" => IsOwed(r.ticket, r.amount)
    BY <1>0, <1>1 DEF RequestsAreTrue, RequestIsTrue
  <1> HIDE DEF x
  <1>6. TypeOK'
    <2>1. [r EXCEPT !.posted = TRUE] \in Reqs
      BY <1>1 DEF Reqs
    <2>2. req' \in [Cashiers -> Reqs \cup {Idle}]
      BY <1>0, <1>3, <2>1 DEF TypeOK
    <2>3. QED
      BY <1>0, <1>2, <1>3, <1>4, <2>2 DEF TypeOK
  <1>7. RoundInStep' /\ SalesInStep' /\ ViewsAreTrue' /\ SettledExactly' /\ StatusMatchesPayout'
    BY <1>0, <1>4 DEF RoundInStep, SalesInStep, ViewsAreTrue, SettledExactly,
       StatusMatchesPayout
  <1>8. RequestsAreTrue'
    <2>1. ASSUME NEW d \in Cashiers, d # c, req'[d] # Idle
          PROVE  RequestIsTrue(d)'
      <3>1. req'[d] = req[d]
        BY <1>0, <1>3, <2>1 DEF TypeOK
      <3>2. RequestIsTrue(d)
        BY <1>0, <2>1, <3>1 DEF RequestsAreTrue
      <3>3. QED
        BY <1>3, <1>4, <3>1, <3>2 DEF RequestIsTrue, IsOwed, PostingsOf
    <2>2. ASSUME req'[c] # Idle
          PROVE  RequestIsTrue(c)'
      <3>1. /\ req'[c].op = r.op /\ req'[c].ticket = r.ticket /\ req'[c].amount = r.amount
            /\ x \in postings'
        BY <1>0, <1>1, <1>3, <2>2 DEF TypeOK, Reqs
      <3>2. RequestIsTrue(c)
        BY <1>0, <1>1 DEF RequestsAreTrue
      <3>3. x \in {p \in postings' : p.ticket = req'[c].ticket /\ p.op = req'[c].op}
        BY <1>2, <3>1
      <3>4. QED
        BY <1>4, <3>1, <3>2, <3>3 DEF RequestIsTrue, IsOwed, PostingsOf
    <2>3. QED
      BY <2>1, <2>2 DEF RequestsAreTrue
  <1>9. PostingsAreTrue'
    BY <1>0, <1>2, <1>3, <1>4, <1>5 DEF PostingsAreTrue, SaleCall
  <1>10. PayoutsAreOwed'
    <2>1. -x.amount = r.amount
      BY <1>2
    <2>2. QED
      BY <1>0, <1>2, <1>3, <1>4, <1>5, <2>1 DEF PayoutsAreOwed, IsOwed
  <1>11. MoneyBacksStatus'
    <2>1. \A u \in Tickets : /\ PostingsOf(u, "sale")' = PostingsOf(u, "sale")
                             /\ PostingsOf(u, "payout") \subseteq PostingsOf(u, "payout")'
                             /\ PostingsOf(u, "cancel") \subseteq PostingsOf(u, "cancel")'
                             /\ SaleCall(u)' = SaleCall(u)
      BY <1>2, <1>3 DEF PostingsOf, SaleCall
    <2>2. QED
      BY <1>0, <1>4, <2>1 DEF MoneyBacksStatus
  <1>12. QED
    BY <1>6, <1>7, <1>8, <1>9, <1>10, <1>11 DEF IInv

\* The engine closes the bets: nothing of the tickets changes.
LEMMA CloseBetsStep ==
  ASSUME IInv, CloseBets
  PROVE  IInv'
  <1> USE DEF IInv
  <1>1. TypeOK'
    BY DEF TypeOK, ticketVars, cashVars, CloseBets
  <1>2. RoundInStep'
    BY DEF RoundInStep, TypeOK, ticketVars, CloseBets
  <1>3. SalesInStep' /\ ViewsAreTrue' /\ RequestsAreTrue' /\ PostingsAreTrue' /\ SettledExactly'
        /\ StatusMatchesPayout' /\ MoneyBacksStatus' /\ PayoutsAreOwed'
    BY DEF SalesInStep, ViewsAreTrue, RequestsAreTrue, RequestIsTrue, PostingsAreTrue,
       SettledExactly, StatusMatchesPayout, MoneyBacksStatus, PayoutsAreOwed, PostingsOf, IsOwed,
       ticketVars, cashVars, CloseBets
  <1>4. QED
    BY <1>1, <1>2, <1>3

\* The draw.  No ticket is settled before it, so what is owed does not change
\* with the number.
LEMMA FinishRoundStep ==
  ASSUME IInv, FinishRound
  PROVE  IInv'
  <1> USE DEF IInv
  <1>1. TypeOK'
    BY DEF TypeOK, ticketVars, cashVars, FinishRound
  <1>2. RoundInStep'
    BY DEF RoundInStep, TypeOK, ticketVars, FinishRound
  <1>3. RequestsAreTrue'
    BY DEF RequestsAreTrue, RequestIsTrue, TypeOK, RoundInStep, SalesInStep, PostingsOf, IsOwed,
       Reqs, ticketVars, cashVars, FinishRound
  <1>4. SettledExactly'
    BY DEF SettledExactly, RoundInStep, ticketVars, FinishRound
  <1>5. PayoutsAreOwed'
    BY DEF PayoutsAreOwed, TypeOK, RoundInStep, IsOwed, CashCalls, cashVars, FinishRound
  <1>6. SalesInStep' /\ ViewsAreTrue' /\ PostingsAreTrue' /\ StatusMatchesPayout' /\
        MoneyBacksStatus'
    BY DEF SalesInStep, ViewsAreTrue, PostingsAreTrue, StatusMatchesPayout, MoneyBacksStatus,
       PostingsOf, ticketVars, cashVars, FinishRound
  <1>7. QED
    BY <1>1, <1>2, <1>3, <1>4, <1>5, <1>6

\* A sale passes the gate, or is refused.
LEMMA GateSaleStep ==
  ASSUME IInv, NEW t \in Tickets, GateSale(t)
  PROVE  IInv'
  <1> USE DEF IInv
  <1>1. TypeOK'
    BY DEF TypeOK, ticketVars, cashVars, GateSale, GoSale
  <1>2. SalesInStep'
    BY DEF SalesInStep, ticketVars, GateSale, GoSale
  <1>3. PostingsAreTrue'
    BY DEF PostingsAreTrue, TypeOK, RoundInStep, SalesInStep, ticketVars, cashVars, GateSale,
       GoSale
  <1>4. RoundInStep' /\ ViewsAreTrue' /\ RequestsAreTrue' /\ SettledExactly' /\
        StatusMatchesPayout' /\ MoneyBacksStatus' /\ PayoutsAreOwed'
    BY DEF RoundInStep, ViewsAreTrue, RequestsAreTrue, RequestIsTrue, SettledExactly,
       StatusMatchesPayout, MoneyBacksStatus, PayoutsAreOwed, PostingsOf, IsOwed, ticketVars,
       cashVars, GateSale
  <1>5. QED
    BY <1>1, <1>2, <1>3, <1>4

\* The commit of a sale fails: its posting remains, without a ticket.
LEMMA LoseSaleStep ==
  ASSUME IInv, NEW t \in Tickets, LoseSale(t)
  PROVE  IInv'
  <1> USE DEF IInv
  <1>1. TypeOK'
    BY DEF TypeOK, ticketVars, cashVars, LoseSale, GoSale
  <1>2. SalesInStep'
    BY DEF SalesInStep, ticketVars, LoseSale, GoSale
  <1>3. PostingsAreTrue'
    BY DEF PostingsAreTrue, TypeOK, RoundInStep, SalesInStep, ticketVars, cashVars, LoseSale,
       GoSale
  <1>4. RoundInStep' /\ ViewsAreTrue' /\ RequestsAreTrue' /\ SettledExactly' /\
        StatusMatchesPayout' /\ MoneyBacksStatus' /\ PayoutsAreOwed'
    BY DEF RoundInStep, ViewsAreTrue, RequestsAreTrue, RequestIsTrue, SettledExactly,
       StatusMatchesPayout, MoneyBacksStatus, PayoutsAreOwed, PostingsOf, IsOwed, ticketVars,
       cashVars, LoseSale
  <1>5. QED
    BY <1>1, <1>2, <1>3, <1>4

\* The row of a sale appears.  Nobody has read it, and PostingsAreTrue says
\* that its stake was posted.
LEMMA CommitSaleStep ==
  ASSUME IInv, NEW t \in Tickets, CommitSale(t)
  PROVE  IInv'
  <1> USE DEF IInv
  <1>1. TypeOK'
    <2>1. PICK hit \in Jackpots \cup {0} :
            /\ status' = [status EXCEPT ![t] = IF hit > 0 THEN "WON" ELSE "PENDING"]
            /\ payout' = [payout EXCEPT ![t] = hit]
            /\ won' = [won EXCEPT ![t] = hit]
      BY DEF CommitSale
    <2>2. hit \in Nat
      BY TicketsAssumption
    <2>3. QED
      BY <2>1, <2>2 DEF TypeOK, Status, CommitSale, GoSale, cashVars
  <1>2. SalesInStep'
    BY DEF SalesInStep, TypeOK, CommitSale, GoSale
  <1>3. ViewsAreTrue'
    BY DEF ViewsAreTrue, TypeOK, RoundInStep, SalesInStep, ticketVars, CommitSale, GoSale
  <1>4. RequestsAreTrue'
    BY DEF RequestsAreTrue, RequestIsTrue, SalesInStep, PostingsOf, IsOwed, cashVars,
       CommitSale, GoSale
  <1>5. PostingsAreTrue'
    BY DEF PostingsAreTrue, ticketVars, cashVars, CommitSale, GoSale
  <1>6. SettledExactly'
    BY DEF SettledExactly, TypeOK, SalesInStep, ticketVars, CommitSale, GoSale
  <1>7. StatusMatchesPayout'
    BY DEF StatusMatchesPayout, TypeOK, SalesInStep, CommitSale, GoSale
  <1>8. MoneyBacksStatus'
    BY DEF PostingsAreTrue, SaleCall, MoneyBacksStatus, PostingsOf, cashVars, CommitSale, GoSale
  <1>9. PayoutsAreOwed'
    BY DEF PostingsAreTrue, PayoutsAreOwed, RoundInStep, SalesInStep, IsOwed, ticketVars,
       cashVars, CommitSale, GoSale
  <1>10. RoundInStep'
    BY DEF RoundInStep, CommitSale
  <1>11. QED
    BY <1>1, <1>2, <1>3, <1>4, <1>5, <1>6, <1>7, <1>8, <1>9, <1>10

\* A replica SELECTs a chunk: the rows are not settled, so that by
\* SettledExactly their payout is the jackpot, which is what ViewsAreTrue
\* says of a copy.
LEMMA ReadChunkStep ==
  ASSUME IInv, NEW s \in Replicas, ReadChunk(s)
  PROVE  IInv'
  <1> USE DEF IInv
  <1>1. TypeOK'
    BY DEF TypeOK, Status, Row, ticketVars, cashVars, ReadChunk, Due, NoRows
  <1>2. RoundInStep'
    BY DEF RoundInStep, TypeOK, ReadChunk, Due, Unsettled, NoRows
  <1>3. ViewsAreTrue'
    BY DEF SettledExactly, ViewsAreTrue, TypeOK, ticketVars, ReadChunk, Due, Unsettled, NoRows
  <1>4. SalesInStep' /\ RequestsAreTrue' /\ PostingsAreTrue' /\ SettledExactly' /\
        StatusMatchesPayout' /\ MoneyBacksStatus' /\ PayoutsAreOwed'
    BY DEF SalesInStep, RequestsAreTrue, RequestIsTrue, PostingsAreTrue, SettledExactly,
       StatusMatchesPayout, MoneyBacksStatus, PayoutsAreOwed, PostingsOf, IsOwed, ticketVars,
       cashVars, ReadChunk
  <1>5. QED
    BY <1>1, <1>2, <1>3, <1>4

\* A replica gives its chunk up and remembers nothing.
LEMMA AbandonChunkStep ==
  ASSUME IInv, NEW s \in Replicas, AbandonChunk(s)
  PROVE  IInv'
  <1> USE DEF IInv
  <1>1. TypeOK'
    BY DEF TypeOK, ticketVars, cashVars, AbandonChunk, NoRows
  <1>2. RoundInStep'
    BY DEF RoundInStep, TypeOK, AbandonChunk, NoRows
  <1>3. ViewsAreTrue'
    BY DEF ViewsAreTrue, TypeOK, RoundInStep, SalesInStep, ticketVars, AbandonChunk, NoRows
  <1>4. SalesInStep' /\ RequestsAreTrue' /\ PostingsAreTrue' /\ SettledExactly' /\
        StatusMatchesPayout' /\ MoneyBacksStatus' /\ PayoutsAreOwed'
    BY DEF SalesInStep, RequestsAreTrue, RequestIsTrue, PostingsAreTrue, SettledExactly,
       StatusMatchesPayout, MoneyBacksStatus, PayoutsAreOwed, PostingsOf, IsOwed, ticketVars,
       cashVars, AbandonChunk
  <1>5. QED
    BY <1>1, <1>2, <1>3, <1>4

\* A payout SELECTs the row: by SettledExactly the amount it reads is owed.
LEMMA AskPayoutStep ==
  ASSUME IInv, NEW c \in Cashiers, NEW t \in Tickets, AskPayout(c, t)
  PROVE  IInv'
  <1> USE DEF IInv
  <1>1. TypeOK'
    BY TicketsAssumption DEF TypeOK, Reqs, ticketVars, cashVars, AskPayout, Ask
  <1>2. RequestsAreTrue'
    BY DEF SettledExactly, RequestsAreTrue, RequestIsTrue, TypeOK, PostingsOf, IsOwed,
       ticketVars, cashVars, AskPayout, Ask, Payable
  <1>3. RoundInStep' /\ SalesInStep' /\ ViewsAreTrue' /\ PostingsAreTrue' /\ SettledExactly' /\
        StatusMatchesPayout' /\ MoneyBacksStatus' /\ PayoutsAreOwed'
    BY DEF RoundInStep, SalesInStep, ViewsAreTrue, PostingsAreTrue, SettledExactly,
       StatusMatchesPayout, MoneyBacksStatus, PayoutsAreOwed, PostingsOf, IsOwed, ticketVars,
       cashVars, AskPayout, Ask
  <1>4. QED
    BY <1>1, <1>2, <1>3

\* A cancel SELECTs the row.
LEMMA AskCancelStep ==
  ASSUME IInv, NEW c \in Cashiers, NEW t \in Tickets, AskCancel(c, t)
  PROVE  IInv'
  <1> USE DEF IInv
  <1>1. TypeOK'
    BY TicketsAssumption DEF TypeOK, Reqs, ticketVars, cashVars, AskCancel, Ask
  <1>2. RequestsAreTrue'
    BY DEF RequestsAreTrue, RequestIsTrue, TypeOK, PostingsOf, IsOwed, ticketVars, cashVars,
       AskCancel, Ask, Cancellable
  <1>3. RoundInStep' /\ SalesInStep' /\ ViewsAreTrue' /\ PostingsAreTrue' /\ SettledExactly' /\
        StatusMatchesPayout' /\ MoneyBacksStatus' /\ PayoutsAreOwed'
    BY DEF RoundInStep, SalesInStep, ViewsAreTrue, PostingsAreTrue, SettledExactly,
       StatusMatchesPayout, MoneyBacksStatus, PayoutsAreOwed, PostingsOf, IsOwed, ticketVars,
       cashVars, AskCancel, Ask
  <1>4. QED
    BY <1>1, <1>2, <1>3

\* The commit of a payout or of a cancellation fails.
LEMMA LoseStatusStep ==
  ASSUME IInv, NEW c \in Cashiers, LoseStatus(c)
  PROVE  IInv'
  <1> USE DEF IInv
  <1>1. TypeOK'
    BY DEF TypeOK, ticketVars, cashVars, LoseStatus
  <1>2. RequestsAreTrue'
    BY DEF RequestsAreTrue, RequestIsTrue, TypeOK, PostingsOf, IsOwed, Reqs, Idle, ticketVars,
       cashVars, LoseStatus
  <1>3. RoundInStep' /\ SalesInStep' /\ ViewsAreTrue' /\ PostingsAreTrue' /\ SettledExactly' /\
        StatusMatchesPayout' /\ MoneyBacksStatus' /\ PayoutsAreOwed'
    BY DEF RoundInStep, SalesInStep, ViewsAreTrue, PostingsAreTrue, SettledExactly,
       StatusMatchesPayout, MoneyBacksStatus, PayoutsAreOwed, PostingsOf, IsOwed, ticketVars,
       cashVars, LoseStatus
  <1>4. QED
    BY <1>1, <1>2, <1>3



\* A replica commits its chunk.  Its copies are stale at most by another
\* settlement or by a payout or a cancellation; in all cases they hold the
\* jackpot, and it writes what a settlement of the row as it is now would
\* write (<1>5).
LEMMA CommitChunkStep ==
  ASSUME IInv, NEW s \in Replicas, CommitChunk(s)
  PROVE  IInv'
  <1>0. /\ TypeOK /\ RoundInStep /\ SalesInStep /\ ViewsAreTrue /\ RequestsAreTrue
        /\ PostingsAreTrue /\ SettledExactly /\ StatusMatchesPayout /\ MoneyBacksStatus
        /\ PayoutsAreOwed
    BY DEF IInv
  <1> DEFINE chunk == DOMAIN view[s]
             owed(t) == won[t] + Gain[t][drawn]
             verdict(t) == IF owed(t) > 0 THEN "WON" ELSE "LOST"
  <1>1. /\ work[s] = "settling" /\ phase = "Drawn"
        /\ UNCHANGED <<phase, drawn, sale, won, req, calls, balance, postings>>
    BY <1>0 DEF CommitChunk, RoundInStep, cashVars
  <1>2. /\ drawn \in Numbers
        /\ chunk \subseteq Tickets
        /\ \A t \in Tickets : Gain[t][drawn] \in Nat /\ won[t] \in Nat /\ owed(t) \in Nat
    BY <1>0, <1>1, TicketsAssumption DEF TypeOK, RoundInStep
  <1>3. \A t \in chunk : /\ status[t] # "none"
                         /\ view[s][t].payout = won[t]
                         /\ view[s][t].status \in {"PENDING", "WON"}
                         /\ view[s][t].status = "WON" => status[t] # "PENDING"
    BY <1>0 DEF ViewsAreTrue
  <1>4. \A t \in Evaluated(s) : /\ t \in chunk /\ t \notin Malformed
                                /\ Credited(s, t) = owed(t)
                                /\ Verdict(s, t) = verdict(t)
    BY <1>3 DEF Evaluated, Credited, Verdict
  <1>5. /\ settled' \in [Tickets -> BOOLEAN] /\ payout' \in [Tickets -> Nat]
        /\ status' \in [Tickets -> Status \cup {"none"}]
        /\ \A t \in Tickets :
             /\ settled'[t] <=> settled[t] \/ t \in chunk
             /\ t \in Evaluated(s) => payout'[t] = owed(t)
             /\ t \notin Evaluated(s) => payout'[t] = payout[t] /\ status'[t] = status[t]
             /\ status'[t] = status[t] \/ (t \in Evaluated(s) /\ status'[t] = verdict(t))
             /\ t \in Evaluated(s) /\ view[s][t].status # verdict(t) => status'[t] = verdict(t)
    <2>1. settled' \in [Tickets -> BOOLEAN] /\ \A t \in Tickets : settled'[t] <=> settled[t] \/
          t \in chunk
      BY <1>0 DEF CommitChunk, TypeOK
    <2>2. /\ payout' \in [Tickets -> Nat]
          /\ \A t \in Tickets : /\ t \notin Evaluated(s) => payout'[t] = payout[t]
                                /\ t \in Evaluated(s) => payout'[t] = owed(t)
      <3>1. payout' = [t \in Tickets |->
              IF t \in Evaluated(s) /\ Credited(s, t) # view[s][t].payout
              THEN Credited(s, t) ELSE payout[t]]
        BY DEF CommitChunk
      <3>2. \A t \in Evaluated(s) : owed(t) = won[t] => payout[t] = owed(t)
        BY <1>0, <1>2, <1>4 DEF SettledExactly
      <3>3. QED
        BY <1>0, <1>2, <1>3, <1>4, <3>1, <3>2 DEF TypeOK
    <2>3. /\ status' \in [Tickets -> Status \cup {"none"}]
          /\ \A t \in Tickets :
               /\ t \notin Evaluated(s) => status'[t] = status[t]
               /\ status'[t] = status[t] \/ (t \in Evaluated(s) /\ status'[t] = verdict(t))
               /\ t \in Evaluated(s) /\ view[s][t].status # verdict(t) => status'[t] = verdict(t)
      BY <1>0, <1>4 DEF CommitChunk, TypeOK, Status
    <2>4. QED
      BY <2>1, <2>2, <2>3
  <1>6. /\ view' = [view EXCEPT ![s] = NoRows]
        /\ work' \in [Replicas -> {"listening", "notified", "settling", "done"}]
        /\ \A q \in Replicas : q # s => work'[q] = work[q]
        /\ work'[s] \in {"done", "notified"}
    BY <1>0 DEF CommitChunk, TypeOK
  <1>7. \A q \in Replicas : view'[q] = IF q = s THEN NoRows ELSE view[q]
    BY <1>0, <1>6 DEF TypeOK
  <1> HIDE DEF chunk, owed, verdict
  <1>8. TypeOK'
    <2>1. DOMAIN view' = Replicas
      BY <1>0, <1>6 DEF TypeOK
    <2>2. QED
      BY <1>0, <1>1, <1>5, <1>6, <1>7, <2>1 DEF TypeOK, NoRows
  <1>9. RoundInStep'
    BY <1>0, <1>1, <1>2, <1>5, <1>6, <1>7 DEF RoundInStep
  <1>10. SalesInStep'
    BY <1>0, <1>1, <1>3, <1>4, <1>5 DEF SalesInStep, verdict, chunk
  <1>11. ViewsAreTrue'
    <2>1. \A t \in Tickets : status[t] # "none" => status'[t] # "none"
      BY <1>5 DEF verdict
    <2>2. \A t \in Tickets : status[t] # "PENDING" => status'[t] # "PENDING"
      BY <1>5 DEF verdict
    <2>3. \A q \in Replicas : DOMAIN view[q] \subseteq Tickets
      BY <1>0 DEF TypeOK
    <2>4. QED
      BY <1>0, <1>1, <1>7, <2>1, <2>2, <2>3 DEF ViewsAreTrue, NoRows
  <1>12. \A t \in Tickets : \A n : IsOwed(t, n) => IsOwed(t, n)'
    BY <1>1, <1>5 DEF IsOwed
  <1>13. \A t \in Tickets : status[t] # "none" => status'[t] # "none"
    BY <1>5 DEF verdict
  <1>14. RequestsAreTrue'
    <2>1. \A c \in Cashiers : req[c] # Idle => req[c].ticket \in Tickets
      BY <1>0 DEF TypeOK, Reqs
    <2>2. QED
      BY <1>0, <1>1, <1>12, <1>13, <2>1 DEF RequestsAreTrue, RequestIsTrue, PostingsOf
  <1>15. PostingsAreTrue' /\ PayoutsAreOwed'
    <2>1. \A p \in postings : p.ticket \in Tickets
      BY <1>0 DEF TypeOK, CashCalls
    <2>2. QED
      BY <1>0, <1>1, <1>12, <1>13, <2>1 DEF PostingsAreTrue, PayoutsAreOwed, SaleCall
  <1>16. SettledExactly'
    BY <1>0, <1>1, <1>2, <1>4, <1>5 DEF SettledExactly, Evaluated, chunk, owed
  <1>17. StatusMatchesPayout'
    <2>1. ASSUME NEW t \in Evaluated(s)
          PROVE  /\ status'[t] \in {"WON", "PAID"} => payout'[t] > 0
                 /\ status'[t] = "LOST" => settled'[t] /\ payout'[t] = 0
                 /\ ~(settled'[t] /\ status'[t] = "PENDING")
      <3>1. t \in Tickets /\ t \in chunk /\ settled'[t] /\ payout'[t] = owed(t) /\ owed(t) \in Nat
        BY <1>2, <1>4, <1>5 DEF chunk, owed
      <3>2. CASE status'[t] = verdict(t)
        BY <3>1, <3>2 DEF verdict
      <3>3. CASE status'[t] # verdict(t)
        <4>1. status'[t] = status[t] /\ view[s][t].status = "WON" /\ verdict(t) = "WON"
          BY <1>3, <1>5, <3>1, <3>3 DEF verdict, chunk
        <4>2. owed(t) > 0 /\ status[t] # "PENDING"
          BY <1>3, <3>1, <4>1 DEF verdict, chunk
        <4>3. status[t] # "LOST"
          BY <1>0, <1>4, <3>1, <4>2 DEF StatusMatchesPayout, SettledExactly, owed
        <4>4. QED
          BY <3>1, <4>1, <4>2, <4>3
      <3>4. QED
        BY <3>2, <3>3
    <2>2. ASSUME NEW t \in Tickets, t \notin Evaluated(s)
          PROVE  /\ status'[t] \in {"WON", "PAID"} => payout'[t] > 0
                 /\ status'[t] = "LOST" => settled'[t] /\ payout'[t] = 0
                 /\ settled'[t] /\ status'[t] = "PENDING" => t \in Malformed
      BY <1>0, <1>5, <2>2 DEF StatusMatchesPayout, Evaluated, chunk
    <2>3. QED
      BY <2>1, <2>2 DEF StatusMatchesPayout
  <1>18. MoneyBacksStatus'
    <2>1. \A t \in Tickets : /\ status'[t] # "none" => status[t] # "none"
                             /\ status'[t] \in {"PAID", "CANCELLED"} => status'[t] = status[t]
      BY <1>3, <1>4, <1>5 DEF verdict, chunk
    <2>2. QED
      BY <1>0, <1>1, <2>1 DEF MoneyBacksStatus, PostingsOf, SaleCall
  <1>19. QED
    BY <1>8, <1>9, <1>10, <1>11, <1>14, <1>15, <1>16, <1>17, <1>18 DEF IInv

\* A ticket for which a payout was asked still has a payout when the answer
\* comes, though it may have been settled in between.
LEMMA PayoutAskedIsDue ==
  ASSUME IInv, NEW c \in Cashiers, req[c] # Idle, req[c].op = "payout"
  PROVE  payout[req[c].ticket] > 0
  <1> DEFINE t == req[c].ticket
  <1>1. t \in Tickets /\ req[c].amount \in Nat
    BY DEF IInv, TypeOK, Reqs
  <1>2. req[c].amount > 0 /\ IsOwed(t, req[c].amount)
    BY DEF IInv, RequestsAreTrue, RequestIsTrue
  <1>3. /\ won[t] \in Nat
        /\ settled[t] => Gain[t][drawn] \in Nat
    BY <1>1, TicketsAssumption DEF IInv, TypeOK, RoundInStep
  <1>4. payout[t] = IF settled[t] /\ t \notin Malformed THEN won[t] + Gain[t][drawn] ELSE won[t]
    BY <1>1 DEF IInv, SettledExactly
  <1> HIDE DEF t
  <1>5. payout[t] > 0
    <2>1. CASE settled[t] /\ t \notin Malformed
      BY <1>1, <1>2, <1>3, <1>4, <2>1 DEF IsOwed
    <2>2. CASE ~(settled[t] /\ t \notin Malformed)
      BY <1>1, <1>2, <1>3, <1>4, <2>2 DEF IsOwed
    <2>3. QED
      BY <2>1, <2>2
  <1>6. QED
    BY <1>5 DEF t

\* The status of a payout or of a cancellation is written over whatever the
\* row has become.
LEMMA CommitStatusStep ==
  ASSUME IInv, NEW c \in Cashiers, CommitStatus(c)
  PROVE  IInv'
  <1> DEFINE r == req[c]
  <1>0. /\ TypeOK /\ RoundInStep /\ SalesInStep /\ ViewsAreTrue /\ RequestsAreTrue
        /\ PostingsAreTrue /\ SettledExactly /\ StatusMatchesPayout /\ MoneyBacksStatus
        /\ PayoutsAreOwed
    BY DEF IInv
  <1>1. /\ r \in Reqs /\ r # Idle /\ r.posted
        /\ r.ticket \in Tickets /\ r.op \in {"payout", "cancel"}
    BY <1>0 DEF CommitStatus, TypeOK, Reqs
  <1>2. RequestIsTrue(c)
    BY <1>0, <1>1 DEF RequestsAreTrue
  <1>3. /\ status' = [status EXCEPT ![r.ticket] = IF r.op = "payout" THEN "PAID" ELSE "CANCELLED"]
        /\ req' = [req EXCEPT ![c] = Idle]
        /\ UNCHANGED <<phase, drawn, sale, payout, settled, won, work, view, calls, balance, postings>>
    BY <1>1 DEF CommitStatus, Final, cashVars
  <1>4. /\ \A t \in Tickets : t # r.ticket => status'[t] = status[t]
        /\ r.op = "payout" => status'[r.ticket] = "PAID"
        /\ r.op = "cancel" => status'[r.ticket] = "CANCELLED"
        /\ status[r.ticket] # "none"
        /\ \A t \in Tickets : status'[t] # "none" <=> status[t] # "none"
        /\ \A t \in Tickets : status'[t] = "PENDING" => status[t] = "PENDING"
    BY <1>0, <1>1, <1>2, <1>3 DEF TypeOK, RequestIsTrue
  <1>5. TypeOK'
    BY <1>0, <1>1, <1>3 DEF TypeOK, Status
  <1>6. RoundInStep' /\ SettledExactly' /\ PayoutsAreOwed'
    BY <1>0, <1>3 DEF RoundInStep, SettledExactly, PayoutsAreOwed, IsOwed
  <1>7. SalesInStep'
    BY <1>0, <1>3, <1>4 DEF SalesInStep
  <1>8. ViewsAreTrue'
    <2>1. \A q \in Replicas : DOMAIN view[q] \subseteq Tickets
      BY <1>0 DEF TypeOK
    <2>2. QED
      BY <1>0, <1>3, <1>4, <2>1 DEF ViewsAreTrue
  <1>9. RequestsAreTrue'
    <2>1. ASSUME NEW d \in Cashiers, req'[d] # Idle
          PROVE  RequestIsTrue(d)'
      <3>1. req'[d] = req[d] /\ req[d].ticket \in Tickets
        BY <1>0, <1>3, <2>1 DEF TypeOK, Reqs
      <3>2. RequestIsTrue(d)
        BY <1>0, <2>1, <3>1 DEF RequestsAreTrue
      <3>3. QED
        BY <1>3, <1>4, <3>1, <3>2 DEF RequestIsTrue, IsOwed, PostingsOf
    <2>2. QED
      BY <2>1 DEF RequestsAreTrue
  <1>10. PostingsAreTrue'
    <2>1. \A p \in postings : p.ticket \in Tickets
      BY <1>0 DEF TypeOK, CashCalls
    <2>2. QED
      BY <1>0, <1>3, <1>4, <2>1 DEF PostingsAreTrue, SaleCall
  <1>11. StatusMatchesPayout'
    <2>1. r.op = "payout" => payout[r.ticket] > 0
      BY <1>1, PayoutAskedIsDue
    <2>2. QED
      BY <1>0, <1>1, <1>3, <1>4, <2>1 DEF StatusMatchesPayout
  <1>12. MoneyBacksStatus'
    <2>1. PostingsOf(r.ticket, r.op) # {}
      BY <1>1, <1>2 DEF RequestIsTrue
    <2>2. \A t \in Tickets : \A op : PostingsOf(t, op)' = PostingsOf(t, op) /\ SaleCall(t)' =
          SaleCall(t)
      BY <1>3 DEF PostingsOf, SaleCall
    <2>3. QED
      BY <1>0, <1>1, <1>4, <2>1, <2>2 DEF MoneyBacksStatus
  <1>13. QED
    BY <1>5, <1>6, <1>7, <1>8, <1>9, <1>10, <1>11, <1>12 DEF IInv

\* The invariant holds before the first sale.
LEMMA InitIInv ==
  ASSUME Init
  PROVE  IInv
  <1> USE TicketsAssumption DEF Init, NoRows
  <1>1. TypeOK
    BY DEF TypeOK
  <1>2. RoundInStep /\ SalesInStep /\ ViewsAreTrue /\ RequestsAreTrue /\ PostingsAreTrue
    BY DEF RoundInStep, SalesInStep, ViewsAreTrue, RequestsAreTrue, PostingsAreTrue
  <1>3. SettledExactly /\ StatusMatchesPayout /\ MoneyBacksStatus /\ PayoutsAreOwed
    BY DEF SettledExactly, StatusMatchesPayout, MoneyBacksStatus, PayoutsAreOwed
  <1>4. QED
    BY <1>1, <1>2, <1>3 DEF IInv

\* It survives steps that change nothing here.
LEMMA StutterStep ==
  ASSUME IInv, UNCHANGED vars
  PROVE  IInv'
  <1>1. /\ UNCHANGED <<phase, drawn, sale, status, payout, settled, won, work, view, req, calls>>
        /\ UNCHANGED <<balance, postings>>
    BY DEF vars, ticketVars, cashVars
  <1>2. TypeOK' /\ RoundInStep' /\ SalesInStep' /\ ViewsAreTrue'
    BY <1>1 DEF IInv, TypeOK, RoundInStep, SalesInStep, ViewsAreTrue
  <1>3. RequestsAreTrue' /\ PostingsAreTrue'
    BY <1>1 DEF IInv, RequestsAreTrue, RequestIsTrue, PostingsAreTrue, PostingsOf, IsOwed,
       SaleCall
  <1>4. SettledExactly' /\ StatusMatchesPayout' /\ MoneyBacksStatus' /\ PayoutsAreOwed'
    BY <1>1 DEF IInv, SettledExactly, StatusMatchesPayout, MoneyBacksStatus, PayoutsAreOwed,
       PostingsOf, IsOwed, SaleCall
  <1>5. QED
    BY <1>2, <1>3, <1>4 DEF IInv

\* It is inductive.
LEMMA NextIInv ==
  ASSUME IInv, [Next]_vars
  PROVE  IInv'
  <1>1. CASE CloseBets
    BY <1>1, CloseBetsStep
  <1>2. CASE FinishRound
    BY <1>2, FinishRoundStep
  <1>3. ASSUME NEW t \in Tickets, GateSale(t) \/ ChargeSale(t) \/ CommitSale(t) \/ LoseSale(t)
        PROVE  IInv'
    BY <1>3, GateSaleStep, ChargeSaleStep, CommitSaleStep, LoseSaleStep
  <1>4. ASSUME NEW s \in Replicas, Settle(s) \/ AbandonChunk(s)
        PROVE  IInv'
    BY <1>4, ReadChunkStep, CommitChunkStep, AbandonChunkStep DEF Settle
  <1>5. ASSUME NEW c \in Cashiers, NEW t \in Tickets, AskPayout(c, t) \/ AskCancel(c, t)
        PROVE  IInv'
    BY <1>5, AskPayoutStep, AskCancelStep
  <1>6. ASSUME NEW c \in Cashiers, Debit(c) \/ CommitStatus(c) \/ LoseStatus(c)
        PROVE  IInv'
    BY <1>6, DebitStep, CommitStatusStep, LoseStatusStep
  <1>7. CASE UNCHANGED vars
    BY <1>7, StutterStep
  <1>8. QED
    BY <1>1, <1>2, <1>3, <1>4, <1>5, <1>6, <1>7 DEF Next

(***************************************************************************)
(* The handlers' stale copies of the rows and of the requests are wrong in *)
(* known ways only, in every round of every size with any number of        *)
(* replicas and counters, under any of the failures.                       *)
(***************************************************************************)
THEOREM Invariant == Spec => []IInv
  <1>1. Init => IInv
    BY InitIInv
  <1>2. IInv /\ [Next]_vars => IInv'
    BY NextIInv
  <1>3. QED
    BY <1>1, <1>2, PTL DEF Spec

(***************************************************************************)
(* Every register stays nonnegative and every variable within its type: no *)
(* interleaving of sales, payouts and cancellations makes agent-service    *)
(* pay what it does not hold.                                              *)
(***************************************************************************)
THEOREM TypeCorrect == Spec => []TypeOK
  <1>1. IInv => TypeOK
    BY DEF IInv
  <1>2. QED
    BY <1>1, Invariant, PTL

(***************************************************************************)
(* A settled ticket is worth its jackpot plus what its bets win, once,     *)
(* with any number of replicas that settle it in parallel                  *)
(* (process_settlement).                                                   *)
(***************************************************************************)
THEOREM SettlementIsExact == Spec => []SettledExactly
  <1>1. IInv => SettledExactly
    BY DEF IInv
  <1>2. QED
    BY <1>1, Invariant, PTL

(***************************************************************************)
(* WON and PAID tickets have a payout and LOST ones have none, whatever    *)
(* order settlement, payout and cancellation commit in.                    *)
(***************************************************************************)
THEOREM StatusTellsTheTruth == Spec => []StatusMatchesPayout
  <1>1. IInv => StatusMatchesPayout
    BY DEF IInv
  <1>2. QED
    BY <1>1, Invariant, PTL

(***************************************************************************)
(* A row exists only if the register took its stake in, is PAID only if    *)
(* the register paid, CANCELLED only if the stake went back                *)
(* (create_ticket, payout_ticket, cancel_ticket).                          *)
(***************************************************************************)
THEOREM NoTicketWithoutMoney == Spec => []MoneyBacksStatus
  <1>1. IInv => MoneyBacksStatus
    BY DEF IInv
  <1>2. QED
    BY <1>1, Invariant, PTL

(***************************************************************************)
(* The register never pays a ticket an amount it is not owed               *)
(* (payout_ticket).                                                        *)
(***************************************************************************)
THEOREM OnlyOwedIsPaid == Spec => []PayoutsAreOwed
  <1>1. IInv => PayoutsAreOwed
    BY DEF IInv
  <1>2. QED
    BY <1>1, Invariant, PTL

\* No step turns a LOST ticket into anything but a cancelled one.
LEMMA LostStep ==
  ASSUME IInv, Next, NEW t \in Tickets, status[t] = "LOST"
  PROVE  status'[t] \in {"LOST", "CANCELLED"}
  <1>1. ASSUME NEW u \in Tickets, CommitSale(u)
        PROVE  status'[t] = "LOST"
    <2>1. status[u] = "none"
      BY <1>1 DEF IInv, SalesInStep, CommitSale
    <2>2. QED
      BY <1>1, <2>1 DEF IInv, TypeOK, CommitSale
  <1>2. ASSUME NEW s \in Replicas, CommitChunk(s)
        PROVE  status'[t] = "LOST"
    <2>1. t \in Evaluated(s) => Verdict(s, t) = "LOST"
      <3>1. ASSUME t \in Evaluated(s)
            PROVE  Credited(s, t) = payout[t] /\ payout[t] = 0
        BY <3>1 DEF IInv, ViewsAreTrue, StatusMatchesPayout, SettledExactly, Evaluated, Credited
      <3>2. QED
        BY <3>1 DEF Verdict
    <2>2. QED
      BY <1>2, <2>1 DEF IInv, TypeOK, CommitChunk
  <1>3. ASSUME NEW c \in Cashiers, CommitStatus(c)
        PROVE  status'[t] \in {"LOST", "CANCELLED"}
    <2>1. req[c] \in Reqs
      BY <1>3 DEF IInv, TypeOK, CommitStatus
    <2>2. CASE t # req[c].ticket
      BY <1>3, <2>2 DEF IInv, TypeOK, CommitStatus
    <2>3. CASE t = req[c].ticket
      <3>1. payout[t] = 0
        BY DEF IInv, StatusMatchesPayout
      <3>2. req[c].op = "cancel"
        BY <1>3, <2>1, <2>3, <3>1, PayoutAskedIsDue DEF CommitStatus, Reqs
      <3>3. QED
        BY <1>3, <2>3, <3>2 DEF IInv, TypeOK, CommitStatus, Final
    <2>4. QED
      BY <2>2, <2>3
  <1>4. CASE UNCHANGED status
    BY <1>4
  <1>5. \/ UNCHANGED status
        \/ \E u \in Tickets : CommitSale(u)
        \/ \E s \in Replicas : CommitChunk(s)
        \/ \E c \in Cashiers : CommitStatus(c)
    BY DEF Next, Settle, CloseBets, FinishRound, GateSale, ChargeSale, LoseSale, ReadChunk,
       AbandonChunk, AskPayout, AskCancel, Ask, Debit, LoseStatus, ticketVars
  <1>6. QED
    BY <1>1, <1>2, <1>3, <1>4, <1>5

(***************************************************************************)
(* A losing ticket is never revived, neither by a replica that settles the *)
(* round late nor by a payout that read the row early.                     *)
(***************************************************************************)
THEOREM LosersStayUnpaid == Spec => LostStaysUnpaid
  <1>1. IInv /\ [Next]_vars
          => [\A t \in Tickets : status[t] = "LOST" => status'[t] \in {"LOST", "CANCELLED"}]_vars
    BY LostStep
  <1>2. QED
    BY <1>1, Invariant, PTL DEF Spec, LostStaysUnpaid
-----------------------------------------------------------------------------
(***************************************************************************)
(* What TicketLifecycle keeps at a single counter with a single replica,   *)
(* if calls to the register are answered and commits of ticket-service     *)
(* succeed (Alone): a ticket is paid at most once, and PAID is final, for  *)
(* every number of tickets and calls, and although registers may refuse or *)
(* be unreachable and ROUND_FINISHED may be lost.  The run double_payout   *)
(* shows that two counters do pay twice.                                   *)
(*                                                                         *)
(* To IInv, Fresh adds that the copies of rows are not only true but as    *)
(* good as new: nobody else writes what the replica SELECTed (RowsAhead)   *)
(* or what the counter checked, but the other of the two in ways that do   *)
(* no harm (CallsAhead).                                                   *)
(***************************************************************************)
Alone ==
  /\ \A c, d \in Cashiers : c = d
  /\ \A s, r \in Replicas : s = r
  /\ "timeout" \notin Faults /\ "commit" \notin Faults

Payments(t) == PostingsOf(t, "payout")

RowsAhead ==
  \A s \in Replicas : \A t \in DOMAIN view[s] :
    /\ view[s][t].status = "PENDING" => status[t] \in {"PENDING", "CANCELLED"}
    /\ view[s][t].status = "WON" => won[t] > 0

CallsAhead ==
  \A c \in Cashiers : req[c] # Idle =>
    LET r == req[c] IN
      /\ r.op = "payout" => status[r.ticket] = "WON"
      /\ r.op = "cancel" => status[r.ticket] # "PAID"
      /\ r.op = "payout" /\ ~r.posted => Payments(r.ticket) = {}

\* What was paid is PAID, or about to be.
Concluding(t) == \E c \in Cashiers :
  req[c] # Idle /\ req[c].posted /\ req[c].op = "payout" /\ req[c].ticket = t

PaymentsEnd == \A t \in Tickets : Payments(t) # {} => status[t] = "PAID" \/ Concluding(t)

OnePayment == \A t \in Tickets : \A p, q \in Payments(t) : p = q

Fresh == RowsAhead /\ CallsAhead /\ PaymentsEnd /\ OnePayment
-----------------------------------------------------------------------------
\* What IInv says of requests and chunks.
LEMMA Copies ==
  ASSUME IInv
  PROVE  /\ \A c \in Cashiers : req[c] # Idle =>
              /\ req[c] \in Reqs /\ req[c].ticket \in Tickets
              /\ req[c].op \in {"payout", "cancel"} /\ req[c].posted \in BOOLEAN
              /\ status[req[c].ticket] # "none"
         /\ \A s \in Replicas : \A t \in DOMAIN view[s] :
              /\ t \in Tickets /\ status[t] # "none"
              /\ view[s][t].status \in {"PENDING", "WON"}
  BY DEF IInv, TypeOK, RequestsAreTrue, RequestIsTrue, ViewsAreTrue, Reqs

\* The debit of a call adds one posting of its operation, or none; at this counter the
\* answer tells which.
LEMMA DebitOutcome ==
  ASSUME IInv, Alone, NEW c \in Cashiers, Debit(c)
  PROVE  /\ req[c] # Idle /\ ~req[c].posted
         /\ \A d \in Cashiers : d # c => req'[d] = req[d]
         /\ UNCHANGED <<status, won, view>>
         /\ \/ /\ req'[c] # Idle /\ req'[c].posted
               /\ req'[c].op = req[c].op /\ req'[c].ticket = req[c].ticket
               /\ \A t \in Tickets : Payments(t)' =
                    IF req[c].op = "payout" /\ req[c].ticket = t
                    THEN Payments(t) \cup {DebitCall(c)} ELSE Payments(t)
            \/ req'[c] = Idle /\ \A t \in Tickets : Payments(t)' = Payments(t)
  <1>1. /\ req[c] # Idle /\ ~req[c].posted /\ UNCHANGED <<status, won, view>>
        /\ \/ Answered(DebitCall(c)) /\ req' = [req EXCEPT ![c].posted = TRUE]
           \/ Unanswered(DebitCall(c)) /\ req' = [req EXCEPT ![c] = Idle]
    BY DEF Debit, ticketVars
  <1>2. /\ DebitCall(c).op = req[c].op /\ DebitCall(c).ticket = req[c].ticket
        /\ req \in [Cashiers -> Reqs \cup {Idle}] /\ req[c] \in Reqs
    BY <1>1, Copies DEF DebitCall, IInv, TypeOK
  <1>3. CASE Answered(DebitCall(c)) /\ req' = [req EXCEPT ![c].posted = TRUE]
    <2>1. postings' = postings \cup {DebitCall(c)}
      BY <1>3 DEF Answered, Posted, Cash!Post
    <2>2. \A t \in Tickets : Payments(t)' =
            IF req[c].op = "payout" /\ req[c].ticket = t
            THEN Payments(t) \cup {DebitCall(c)} ELSE Payments(t)
      BY <1>2, <2>1 DEF Payments, PostingsOf
    <2>3. req'[c] = [req[c] EXCEPT !.posted = TRUE]
      BY <1>2, <1>3
    <2>4. req'[c].op \in {"payout", "cancel"} /\ Idle.op = "none"
      BY <1>2, <2>3 DEF Reqs, Idle
    <2>5. /\ req'[c] # Idle /\ req'[c].posted
          /\ req'[c].op = req[c].op /\ req'[c].ticket = req[c].ticket
      BY <1>2, <2>3, <2>4 DEF Reqs
    <2>6. QED
      BY <1>1, <1>2, <1>3, <2>2, <2>5
  <1>4. CASE Unanswered(DebitCall(c)) /\ req' = [req EXCEPT ![c] = Idle]
    <2>1. postings' = postings
      BY <1>4 DEF Unanswered, Unposted, cashVars, Alone
    <2>2. QED
      BY <1>1, <1>2, <1>4, <2>1 DEF Payments, PostingsOf
  <1>5. QED
    BY <1>1, <1>3, <1>4

\* A chunk writes the status of tickets that are PENDING, or leaves it.
LEMMA ChunkWrites ==
  ASSUME IInv, Alone, RowsAhead, NEW s \in Replicas, CommitChunk(s), NEW t \in Tickets
  PROVE  \/ status'[t] = status[t]
         \/ status[t] \in {"PENDING", "CANCELLED"} /\ status'[t] \in {"WON", "LOST"}
  <1>1. status'[t] = IF t \in Evaluated(s) /\ Verdict(s, t) # view[s][t].status
                     THEN Verdict(s, t) ELSE status[t]
    BY DEF CommitChunk
  <1>2. ASSUME t \in Evaluated(s), view[s][t].status = "WON"
        PROVE  Verdict(s, t) = "WON"
    <2>1. phase = "Drawn" /\ drawn \in Numbers
      BY DEF IInv, RoundInStep, CommitChunk
    <2>2. Gain[t][drawn] \in Nat /\ won[t] \in Nat /\ won[t] > 0 /\ view[s][t].payout = won[t]
      BY <1>2, <2>1, TicketsAssumption
      DEF IInv, TypeOK, RowsAhead, ViewsAreTrue, Evaluated
    <2>3. QED
      BY <2>2 DEF Verdict, Credited
  <1>3. t \in Evaluated(s) => view[s][t].status \in {"PENDING", "WON"}
    BY Copies DEF Evaluated
  <1>4. t \in Evaluated(s) /\ view[s][t].status = "PENDING"
        => status[t] \in {"PENDING", "CANCELLED"}
    BY DEF RowsAhead, Evaluated
  <1>5. QED
    BY <1>1, <1>2, <1>3, <1>4 DEF Verdict

\* Steps that leave rows, chunks, calls and payments as they are.
LEMMA QuietStep ==
  ASSUME IInv, Fresh, UNCHANGED <<status, won>>,
         \A t \in Tickets : Payments(t)' = Payments(t),
         \A s \in Replicas : view'[s] = view[s] \/ view'[s] = NoRows,
         UNCHANGED req
  PROVE  Fresh'
  <1>1. RowsAhead'
    BY DEF Fresh, RowsAhead, NoRows
  <1>2. CallsAhead'
    BY Copies DEF Fresh, CallsAhead
  <1>3. PaymentsEnd' /\ OnePayment'
    BY DEF Fresh, PaymentsEnd, OnePayment, Concluding
  <1>4. QED
    BY <1>1, <1>2, <1>3 DEF Fresh

\* A sale posts no payment.
LEMMA SaleStep ==
  ASSUME IInv, NEW t \in Tickets, ChargeSale(t)
  PROVE  \A u \in Tickets : Payments(u)' = Payments(u)
  <1>1. SaleCall(t).op # "payout"
    BY DEF SaleCall
  <1>2. postings' \in {postings, postings \cup {SaleCall(t)}}
    BY CallTypes, CallOutcome DEF IInv, ChargeSale
  <1>3. QED
    BY <1>1, <1>2 DEF Payments, PostingsOf

LEMMA CommitSaleFresh ==
  ASSUME IInv, Fresh, NEW t \in Tickets, CommitSale(t)
  PROVE  Fresh'
  <1>1. /\ status[t] = "none"
        /\ \A u \in Tickets : u # t => status'[u] = status[u] /\ won'[u] = won[u]
        /\ UNCHANGED <<view, req, postings>>
    BY DEF CommitSale, IInv, TypeOK, SalesInStep, cashVars
  <1>2. \A u \in Tickets : Payments(u)' = Payments(u)
    BY <1>1 DEF Payments, PostingsOf
  <1>3. Payments(t) = {}
    BY <1>1 DEF Payments, PostingsOf, IInv, PostingsAreTrue
  <1>4. RowsAhead'
    BY <1>1, Copies DEF Fresh, RowsAhead
  <1>5. CallsAhead'
    BY <1>1, <1>2, Copies DEF Fresh, CallsAhead
  <1>6. PaymentsEnd' /\ OnePayment'
    BY <1>1, <1>2, <1>3 DEF Fresh, PaymentsEnd, OnePayment, Concluding
  <1>7. QED
    BY <1>4, <1>5, <1>6 DEF Fresh

\* A row that is WON before it is settled has won a jackpot.
LEMMA ReadChunkFresh ==
  ASSUME IInv, Fresh, NEW s \in Replicas, ReadChunk(s)
  PROVE  Fresh'
  <1>1. UNCHANGED <<status, won, req, postings>>
    BY DEF ReadChunk, ticketVars, cashVars
  <1>2. PICK chunk \in SUBSET Due :
          view' = [view EXCEPT ![s] =
                     [t \in chunk |-> [status |-> status[t], payout |-> payout[t]]]]
    BY DEF ReadChunk
  <1>3. /\ DOMAIN view'[s] = chunk /\ \A t \in chunk : view'[s][t].status = status[t]
        /\ \A r \in Replicas : r # s => view'[r] = view[r]
    BY <1>2 DEF IInv, TypeOK
  <1>4. \A t \in chunk : status[t] = "WON" => won[t] > 0
    BY DEF Due, Unsettled, IInv, StatusMatchesPayout, SettledExactly
  <1>5. RowsAhead'
    BY <1>1, <1>3, <1>4 DEF Fresh, RowsAhead
  <1>6. CallsAhead' /\ PaymentsEnd' /\ OnePayment'
    BY <1>1, Copies
    DEF Fresh, CallsAhead, PaymentsEnd, OnePayment, Concluding, Payments, PostingsOf
  <1>7. QED
    BY <1>5, <1>6 DEF Fresh

\* The lone replica has no other chunk, and a ticket that is paid or being paid is not
\* PENDING in its.
LEMMA CommitChunkFresh ==
  ASSUME IInv, Alone, Fresh, NEW s \in Replicas, CommitChunk(s)
  PROVE  Fresh'
  <1>1. /\ view' = [view EXCEPT ![s] = NoRows] /\ UNCHANGED <<won, req, postings>>
    BY DEF CommitChunk, cashVars
  <1>2. \A t \in Tickets :
          \/ status'[t] = status[t]
          \/ status[t] \in {"PENDING", "CANCELLED"} /\ status'[t] \in {"WON", "LOST"}
    BY ChunkWrites DEF Fresh
  <1>3. RowsAhead'
    <2>1. \A r \in Replicas : r = s /\ view'[r] = NoRows
      BY <1>1 DEF Alone, IInv, TypeOK
    <2>2. QED
      BY <2>1 DEF RowsAhead, NoRows
  <1>4. CallsAhead'
    BY <1>1, <1>2, Copies DEF Fresh, CallsAhead, Payments, PostingsOf
  <1>5. PaymentsEnd' /\ OnePayment'
    BY <1>1, <1>2 DEF Fresh, PaymentsEnd, OnePayment, Concluding, Payments, PostingsOf
  <1>6. QED
    BY <1>3, <1>4, <1>5 DEF Fresh

\* A payout is asked for when the ticket is WON, so that it was not paid.
LEMMA AskFresh ==
  ASSUME IInv, Alone, Fresh, NEW c \in Cashiers, NEW t \in Tickets,
         AskPayout(c, t) \/ AskCancel(c, t)
  PROVE  Fresh'
  <1>1. /\ req[c] = Idle /\ UNCHANGED <<status, won, view, postings>>
        /\ \A d \in Cashiers : d = c
    BY DEF AskPayout, AskCancel, Ask, ticketVars, cashVars, Alone
  <1>2. \A u \in Tickets : ~Concluding(u)
    BY <1>1 DEF Concluding
  <1>3. /\ req'[c].ticket = t /\ ~req'[c].posted
        /\ \/ req'[c].op = "payout" /\ status[t] = "WON"
           \/ req'[c].op = "cancel" /\ status[t] = "PENDING"
    <2>1. CASE AskPayout(c, t)
      BY <2>1 DEF AskPayout, Ask, Payable, IInv, TypeOK
    <2>2. CASE AskCancel(c, t)
      BY <2>2 DEF AskCancel, Ask, Cancellable, IInv, TypeOK
    <2>3. QED
      BY <2>1, <2>2
  <1>4. \A u \in Tickets : Payments(u)' = Payments(u)
    BY <1>1 DEF Payments, PostingsOf
  <1>5. status[t] # "PAID" => Payments(t) = {}
    BY <1>2 DEF Fresh, PaymentsEnd
  <1>6. CallsAhead'
    BY <1>1, <1>3, <1>4, <1>5 DEF CallsAhead
  <1>7. PaymentsEnd'
    BY <1>1, <1>2, <1>4 DEF Fresh, PaymentsEnd
  <1>8. RowsAhead' /\ OnePayment'
    BY <1>1, <1>4 DEF Fresh, RowsAhead, OnePayment
  <1>9. QED
    BY <1>6, <1>7, <1>8 DEF Fresh

\* The register pays a ticket for which it has not paid yet.
LEMMA DebitFresh ==
  ASSUME IInv, Alone, Fresh, NEW c \in Cashiers, Debit(c)
  PROVE  Fresh'
  <1>1. /\ req[c] # Idle /\ ~req[c].posted /\ UNCHANGED <<status, won, view>>
        /\ \/ /\ req'[c] # Idle /\ req'[c].posted
              /\ req'[c].op = req[c].op /\ req'[c].ticket = req[c].ticket
              /\ \A t \in Tickets : Payments(t)' =
                   IF req[c].op = "payout" /\ req[c].ticket = t
                   THEN Payments(t) \cup {DebitCall(c)} ELSE Payments(t)
           \/ req'[c] = Idle /\ \A t \in Tickets : Payments(t)' = Payments(t)
    BY DebitOutcome
  <1>2. \A d \in Cashiers : d = c
    BY DEF Alone
  <1>3. \A t \in Tickets : ~Concluding(t)
    BY <1>1, <1>2 DEF Concluding
  <1>4. RowsAhead'
    BY <1>1 DEF Fresh, RowsAhead
  <1>5. CallsAhead'
    BY <1>1, <1>2 DEF Fresh, CallsAhead
  <1>6. PaymentsEnd'
    BY <1>1, <1>2, <1>3 DEF Fresh, PaymentsEnd, Concluding
  <1>7. OnePayment'
    BY <1>1 DEF Fresh, CallsAhead, OnePayment
  <1>8. QED
    BY <1>4, <1>5, <1>6, <1>7 DEF Fresh

\* Only what this counter asked for is concluded.
LEMMA CommitStatusFresh ==
  ASSUME IInv, Alone, Fresh, NEW c \in Cashiers, CommitStatus(c)
  PROVE  Fresh'
  <1> DEFINE t == req[c].ticket
  <1>1. /\ req[c] # Idle /\ req[c].posted /\ t \in Tickets
        /\ req[c].op \in {"payout", "cancel"}
    BY Copies DEF CommitStatus
  <1>2. /\ status'[t] = Final[req[c].op] /\ \A u \in Tickets : u # t => status'[u] = status[u]
        /\ req'[c] = Idle /\ UNCHANGED <<won, view, postings>>
    BY <1>1 DEF CommitStatus, IInv, TypeOK, cashVars
  <1>3. \A d \in Cashiers : d = c
    BY DEF Alone
  <1>4. /\ req[c].op = "payout" => status[t] = "WON" /\ status'[t] = "PAID"
        /\ req[c].op = "cancel" => status[t] # "PAID" /\ status'[t] = "CANCELLED"
    BY <1>1, <1>2 DEF Fresh, CallsAhead, Final
  <1>5. \A u \in Tickets : Concluding(u) => u = t /\ req[c].op = "payout"
    BY <1>3 DEF Concluding
  <1>6. \A u \in Tickets : Payments(u)' = Payments(u)
    BY <1>2 DEF Payments, PostingsOf
  <1> HIDE DEF t
  <1>7. RowsAhead'
    BY <1>1, <1>2, <1>4, Copies DEF Fresh, RowsAhead
  <1>8. CallsAhead'
    BY <1>2, <1>3 DEF CallsAhead
  <1>9. PaymentsEnd'
    BY <1>1, <1>2, <1>4, <1>5, <1>6 DEF Fresh, PaymentsEnd
  <1>10. OnePayment'
    BY <1>6 DEF Fresh, OnePayment
  <1>11. QED
    BY <1>7, <1>8, <1>9, <1>10 DEF Fresh

LEMMA InitFresh ==
  ASSUME Init
  PROVE  Fresh
  BY DEF Init, Fresh, RowsAhead, CallsAhead, PaymentsEnd, OnePayment, Payments, PostingsOf, NoRows

LEMMA NextFresh ==
  ASSUME IInv, Alone, Fresh, [Next]_vars
  PROVE  Fresh'
  <1>1. CASE CloseBets \/ FinishRound
    BY <1>1, QuietStep DEF CloseBets, FinishRound, ticketVars, cashVars, Payments, PostingsOf
  <1>2. ASSUME NEW t \in Tickets, GateSale(t) \/ LoseSale(t)
        PROVE  Fresh'
    BY <1>2, QuietStep DEF GateSale, LoseSale, ticketVars, cashVars, Payments, PostingsOf
  <1>3. ASSUME NEW t \in Tickets, ChargeSale(t)
        PROVE  Fresh'
    BY <1>3, SaleStep, QuietStep DEF ChargeSale, ticketVars
  <1>4. ASSUME NEW t \in Tickets, CommitSale(t)
        PROVE  Fresh'
    BY <1>4, CommitSaleFresh
  <1>5. ASSUME NEW s \in Replicas, Settle(s)
        PROVE  Fresh'
    BY <1>5, ReadChunkFresh, CommitChunkFresh DEF Settle
  <1>6. ASSUME NEW s \in Replicas, AbandonChunk(s)
        PROVE  Fresh'
    BY <1>6 DEF AbandonChunk, Alone
  <1>7. ASSUME NEW c \in Cashiers, NEW t \in Tickets, AskPayout(c, t) \/ AskCancel(c, t)
        PROVE  Fresh'
    BY <1>7, AskFresh
  <1>8. ASSUME NEW c \in Cashiers, Debit(c) \/ CommitStatus(c)
        PROVE  Fresh'
    BY <1>8, DebitFresh, CommitStatusFresh
  <1>9. ASSUME NEW c \in Cashiers, LoseStatus(c)
        PROVE  Fresh'
    BY <1>9 DEF LoseStatus, Alone
  <1>10. CASE UNCHANGED vars
    BY <1>10, QuietStep DEF vars, ticketVars, cashVars, Payments, PostingsOf
  <1>11. QED
    BY <1>1, <1>2, <1>3, <1>4, <1>5, <1>6, <1>7, <1>8, <1>9, <1>10 DEF Next
-----------------------------------------------------------------------------
\* What a lone counter and a lone replica remember of a row is what the other left of it.
THEOREM CopiesStayFresh == ASSUME Alone PROVE Spec => []Fresh
  <1>1. Init => Fresh
    BY InitFresh
  <1>2. IInv /\ Fresh /\ [Next]_vars => Fresh'
    BY NextFresh
  <1>3. QED
    BY <1>1, <1>2, Invariant, PTL DEF Spec

\* PaidAtMostOnce: the register pays for a ticket once, if one client pays and cancels, one
\* replica settles, and no answer or commit is lost (payout_ticket).
THEOREM PaidOnceAtOneCounter == ASSUME Alone PROVE Spec => []PaidAtMostOnce
  <1>1. Fresh => PaidAtMostOnce
    <2> SUFFICES ASSUME Fresh, NEW t \in Tickets
                 PROVE  Cardinality(PostingsOf(t, "payout")) <= 1
      BY DEF PaidAtMostOnce
    <2>1. \A p, q \in PostingsOf(t, "payout") : p = q
      BY DEF Fresh, OnePayment, Payments
    <2>2. CASE PostingsOf(t, "payout") = {}
      BY <2>2, FS_EmptySet
    <2>3. ASSUME NEW p \in PostingsOf(t, "payout")
          PROVE  Cardinality(PostingsOf(t, "payout")) <= 1
      <3>1. PostingsOf(t, "payout") = {p}
        BY <2>1, <2>3
      <3>2. Cardinality({p}) = 1
        BY FS_Singleton
      <3>3. QED
        BY <3>1, <3>2
    <2>4. QED
      BY <2>2, <2>3
  <1>2. QED
    BY CopiesStayFresh, <1>1, PTL

\* PaidIsFinal: neither a chunk that was read before the payout nor a cancellation changes
\* a ticket that was paid (process_settlement, cancel_ticket).
THEOREM PaidStaysPaid == ASSUME Alone PROVE Spec => PaidIsFinal
  <1>1. ASSUME IInv, Fresh, [Next]_vars
        PROVE  [\A t \in Tickets : status[t] = "PAID" => status'[t] = "PAID"]_vars
    <2> SUFFICES ASSUME NEW t \in Tickets, status[t] = "PAID" PROVE status'[t] = "PAID"
      OBVIOUS
    <2>1. CASE UNCHANGED status
      BY <2>1
    <2>2. ASSUME NEW u \in Tickets, CommitSale(u)
          PROVE  status'[t] = "PAID"
      <3>1. status[u] = "none"
        BY <1>1, <2>2 DEF IInv, SalesInStep, CommitSale
      <3>2. QED
        BY <1>1, <2>2, <3>1 DEF IInv, TypeOK, CommitSale
    <2>3. ASSUME NEW s \in Replicas, CommitChunk(s)
          PROVE  status'[t] = "PAID"
      BY <1>1, <2>3, ChunkWrites DEF Fresh
    <2>4. ASSUME NEW c \in Cashiers, CommitStatus(c)
          PROVE  status'[t] = "PAID"
      <3>1. req[c].op \in {"payout", "cancel"} /\ req[c] # Idle
        BY <1>1, <2>4, Copies DEF CommitStatus
      <3>2. t # req[c].ticket
        BY <1>1, <3>1 DEF Fresh, CallsAhead
      <3>3. QED
        BY <1>1, <2>4, <3>2 DEF IInv, TypeOK, CommitStatus
    <2>5. QED
      BY <1>1, <2>1, <2>2, <2>3, <2>4
      DEF Next, vars, Settle, CloseBets, FinishRound, GateSale, ChargeSale, LoseSale, ReadChunk,
          AbandonChunk, AskPayout, AskCancel, Ask, Debit, LoseStatus, ticketVars
  <1>2. QED
    BY CopiesStayFresh, Invariant, <1>1, PTL DEF Spec, PaidIsFinal
=============================================================================
