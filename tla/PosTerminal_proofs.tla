------------------------- MODULE PosTerminal_proofs -------------------------
(***************************************************************************)
(* Proofs about PosTerminal, for every number of cashiers, windows, slips  *)
(* and lost answers.                                                       *)
(*                                                                         *)
(* A slip can be submitted again as long as a page shows it and no request *)
(* about it is under way.  SoldTwiceOnlyAfterLoss therefore counts one     *)
(* ticket less for such a slip, and for one whose request has not been     *)
(* committed (SoldBefore).  That an answer takes the slip off the page it  *)
(* was submitted from needs two facts: a slip is on one page (OnePage),    *)
(* and that page waits for the answer (Awaited), whatever the cashier did  *)
(* to it meanwhile.                                                        *)
(*                                                                         *)
(* That only a round still to be finished has tickets that are due needs   *)
(* no more than what a step does to the tickets of the rounds it ends or   *)
(* leaves, since a ticket is of the round its request was let in to        *)
(* (Gated).                                                                *)
(*                                                                         *)
(* And proofs about BetPayouts, the bets those slips are made of, for      *)
(* every stake of the pages and any number of clicks.  The properties      *)
(* compare tables; the invariant they need is that an amount is a whole    *)
(* number of hundreds, at least one (Line): then no multiplier loses a     *)
(* fraction in the service, the page a franc at most, and the least gain   *)
(* of a winner is more than a coin.                                        *)
(***************************************************************************)
EXTENDS PosTerminal, BetPayouts, SequenceTheorems, FiniteSetTheorems, TLAPS

\* A slip was started, and lines are on a slip.
SlipsStarted ==
  \A t \in Tabs : /\ page[t].slip <= slips
                  /\ page[t].lines > 0 => page[t].slip > 0

OnePage ==
  \A t, u \in Tabs : page[t].slip = page[u].slip /\ page[t].slip # 0 => t = u

\* Slips that were not started are not sold.
Unsent == \A s \in Slips : s > slips => sale[s].state = "none"

Awaited ==
  \A t \in Tabs, s \in Slips :
    sale[s].state # "none" /\ page[t].slip = s => page[t].waiting = s

\* Slips that may still be sold once.
ToBeSold(s) ==
  \/ sale[s].state \in {"sent", "checked"}
  \/ s > slips
  \/ sale[s].state = "none" /\ \E t \in Tabs : page[t].slip = s

SalesOf(s) == Cardinality(SoldAs(s))

SoldBefore ==
  \A s \in Slips : /\ SalesOf(s) <= 1 + lost[s]
                   /\ ToBeSold(s) => SalesOf(s) <= lost[s]

\* A request that was let in is of the round it was let in to.
Gated == \A s \in Slips : sale[s].state = "checked" => sale[s].round = sale[s].gate

IInv ==
  /\ TypeOK
  /\ SlipsStarted
  /\ OnePage
  /\ Unsent
  /\ Awaited
  /\ SoldBefore
  /\ Gated
  /\ NoTicketIsStranded
-----------------------------------------------------------------------------
(* Lemmas.                                                                 *)

Pages == [user : Users, slip : 0..MaxSlip, lines : 0..MaxLines, round : Rounds,
          waiting : 0..MaxSlip]

\* The bounds.
LEMMA Bounds ==
  /\ MaxRound \in Nat /\ MaxSlip \in Nat /\ MaxLines \in Nat /\ MaxLosses \in Nat
  /\ 0 \in Rounds /\ 1 \in Rounds
  /\ Slips = 1..MaxSlip /\ Rounds = 0..MaxRound
  BY TerminalAssumption DEF Slips, Rounds

\* Tickets of a slip are counted by a number.
LEMMA Counted ==
  ASSUME TypeOK, NEW s \in Slips
  PROVE  IsFiniteSet(SoldAs(s)) /\ SalesOf(s) \in Nat
  <1>1. DOMAIN tickets = 1..Len(tickets) /\ Len(tickets) \in Nat
    BY LenProperties DEF TypeOK
  <1>2. IsFiniteSet(1..Len(tickets))
    BY <1>1, FS_Interval
  <1>3. IsFiniteSet(SoldAs(s))
    BY <1>1, <1>2, FS_Subset DEF SoldAs
  <1>4. QED
    BY <1>3, FS_CardinalityType DEF SalesOf

\* What a window does to its own page: it keeps its slip and goes on waiting, or drops it,
\* or starts the next one.
LEMMA PageStep ==
  ASSUME IInv, TypeOK', UNCHANGED <<sale, engine, tickets, lost>>, SlipsStarted',
         NEW t \in Tabs,
         \A u \in Tabs : u # t => page'[u] = page[u],
         \/ slips' = slips /\ page'[t].slip = 0
         \/ /\ slips' = slips
            /\ page'[t].slip = page[t].slip /\ page'[t].waiting = page[t].waiting
         \/ slips' = slips + 1 /\ page'[t].slip = slips + 1
  PROVE  IInv'
  <1>1. slips \in Nat /\ \A u \in Tabs : page[u].slip \in Nat /\ page[u].slip <= slips
    BY Bounds DEF IInv, TypeOK, SlipsStarted
  <1>2. \A s \in Slips : s \in Nat /\ s # 0
    BY Bounds
  <1>3. OnePage'
    BY <1>1 DEF IInv, OnePage
  <1>4. Unsent'
    BY <1>1, <1>2 DEF IInv, Unsent
  <1>5. Awaited'
    BY <1>1, <1>2 DEF IInv, Awaited, Unsent
  <1>6. SoldBefore'
    <2>1. \A s \in Slips : ToBeSold(s)' => ToBeSold(s)
      BY <1>1, <1>2 DEF ToBeSold
    <2>2. \A s \in Slips : SalesOf(s)' = SalesOf(s) /\ lost'[s] = lost[s]
      BY DEF SalesOf, SoldAs
    <2>3. QED
      BY <2>1, <2>2 DEF IInv, SoldBefore
  <1>7. Gated' /\ NoTicketIsStranded'
    BY DEF IInv, Gated, NoTicketIsStranded, ResultToCome
  <1>8. QED
    BY <1>3, <1>4, <1>5, <1>6, <1>7 DEF IInv
-----------------------------------------------------------------------------
(* What a window does on its own.                                          *)

\* A page without a slip replaces that of t.
LEMMA BlankStep ==
  ASSUME IInv, NEW t \in Tabs, NEW p \in Pages, p.slip = 0, p.lines = 0,
         page' = [page EXCEPT ![t] = p],
         store' \in [token : Users, user : Users],
         UNCHANGED <<sale, engine, tickets, slips, lost>>
  PROVE  IInv'
  <1>1. TypeOK'
    BY DEF IInv, TypeOK, Pages
  <1>2. \A u \in Tabs : page'[u] = IF u = t THEN p ELSE page[u]
    BY DEF IInv, TypeOK
  <1>3. SlipsStarted'
    BY <1>2, Bounds DEF IInv, TypeOK, SlipsStarted
  <1>4. QED
    BY <1>1, <1>2, <1>3, PageStep

LEMMA BlankPage ==
  ASSUME NEW u \in Users
  PROVE  Blank(u) \in Pages /\ Blank(u).slip = 0 /\ Blank(u).lines = 0
  BY Bounds DEF Blank, Pages

\* The page of t keeps its slip, if it has lines.
LEMMA KeepStep ==
  ASSUME IInv, NEW t \in Tabs, NEW p \in Pages,
         p.slip = page[t].slip, p.waiting = page[t].waiting,
         p.lines > 0 => page[t].slip > 0,
         page' = [page EXCEPT ![t] = p],
         store' \in [token : Users, user : Users],
         UNCHANGED <<sale, engine, tickets, slips, lost>>
  PROVE  IInv'
  <1>1. TypeOK'
    BY DEF IInv, TypeOK, Pages
  <1>2. \A u \in Tabs : page'[u] = IF u = t THEN p ELSE page[u]
    BY DEF IInv, TypeOK
  <1>3. SlipsStarted'
    BY <1>2 DEF IInv, SlipsStarted
  <1>4. QED
    BY <1>1, <1>2, <1>3, PageStep

LEMMA SessionStep ==
  ASSUME IInv, NEW t \in Tabs,
         \/ Reload(t) \/ Logout(t) \/ Leave(t) \/ BalanceAnswer(t)
         \/ \E a \in Agents : Login(t, a) \/ HandOver(t, a)
  PROVE  IInv'
  <1> USE DEF Users
  <1>1. /\ store.user \in Users /\ page[t].user \in Users /\ Nobody \in Users
        /\ page[t] \in Pages /\ page \in [Tabs -> Pages]
        /\ store \in [token : Users, user : Users]
    BY DEF IInv, TypeOK, Pages
  <1>2. CASE Reload(t)
    BY <1>1, <1>2, BlankPage, BlankStep DEF Reload
  <1>3. CASE Logout(t)
    BY <1>1, <1>3, BlankPage, BlankStep DEF Logout
  <1>4. CASE Leave(t)
    BY <1>1, <1>4, BlankPage, BlankStep DEF Leave
  <1>5. CASE BalanceAnswer(t)
    <2>1. /\ page' = [page EXCEPT ![t] = page[t]]
          /\ store' \in [token : Users, user : Users]
          /\ UNCHANGED <<sale, engine, tickets, slips, lost>>
      BY <1>1, <1>5 DEF BalanceAnswer
    <2>2. QED
      BY <1>1, <2>1, KeepStep DEF IInv, SlipsStarted
  <1>6. ASSUME NEW a \in Agents, Login(t, a)
        PROVE  IInv'
    BY <1>1, <1>6, BlankPage, BlankStep DEF Login
  <1>7. ASSUME NEW a \in Agents, HandOver(t, a)
        PROVE  IInv'
    <2> DEFINE p == [page[t] EXCEPT !.user = a]
    <2>1. /\ page' = [page EXCEPT ![t] = p]
          /\ store' \in [token : Users, user : Users]
          /\ UNCHANGED <<sale, engine, tickets, slips, lost>>
      BY <1>1, <1>7 DEF HandOver
    <2>2. p \in Pages /\ p.slip = page[t].slip /\ p.waiting = page[t].waiting
          /\ p.lines = page[t].lines
      BY <1>1 DEF Pages
    <2> HIDE DEF p
    <2>3. QED
      BY <2>1, <2>2, KeepStep DEF IInv, SlipsStarted
  <1>8. QED
    BY <1>2, <1>3, <1>4, <1>5, <1>6, <1>7

LEMMA SeeStep ==
  ASSUME IInv, NEW t \in Tabs, See(t)
  PROVE  IInv'
  <1> DEFINE p == [page[t] EXCEPT !.round = IF TakesBets(engine) THEN engine.round ELSE 0]
  <1>1. page[t] \in Pages /\ engine.round \in Rounds
    BY DEF IInv, TypeOK, Pages
  <1>2. /\ page' = [page EXCEPT ![t] = p]
        /\ store' \in [token : Users, user : Users]
        /\ UNCHANGED <<sale, engine, tickets, slips, lost>>
    BY DEF See, IInv, TypeOK
  <1>3. p \in Pages /\ p.slip = page[t].slip /\ p.waiting = page[t].waiting
        /\ p.lines = page[t].lines
    BY <1>1, Bounds DEF Pages
  <1> HIDE DEF p
  <1>4. QED
    BY <1>2, <1>3, KeepStep DEF IInv, SlipsStarted

LEMMA ClearStep ==
  ASSUME IInv, NEW t \in Tabs, Clear(t)
  PROVE  IInv'
  <1> DEFINE p == [page[t] EXCEPT !.lines = 0, !.slip = 0]
  <1>1. page[t] \in Pages
    BY DEF IInv, TypeOK, Pages
  <1>2. /\ page' = [page EXCEPT ![t] = p]
        /\ store' \in [token : Users, user : Users]
        /\ UNCHANGED <<sale, engine, tickets, slips, lost>>
    BY DEF Clear, IInv, TypeOK
  <1>3. 0 \in 0..MaxSlip /\ 0 \in 0..MaxLines
    BY Bounds
  <1>4. p \in Pages /\ p.slip = 0 /\ p.lines = 0
    BY <1>1, <1>3 DEF Pages
  <1> HIDE DEF p
  <1>5. QED
    BY <1>2, <1>4, BlankStep

LEMMA AddLineStep ==
  ASSUME IInv, NEW t \in Tabs, AddLine(t)
  PROVE  IInv'
  <1>1. /\ page[t] \in Pages /\ page \in [Tabs -> Pages] /\ slips \in Nat
        /\ store \in [token : Users, user : Users]
    BY Bounds DEF IInv, TypeOK, Pages
  <1>2. CASE page[t].lines = 0
    <2> DEFINE p == [page[t] EXCEPT !.slip = slips + 1, !.lines = 1]
    <2>1. /\ page' = [page EXCEPT ![t] = p] /\ slips < MaxSlip /\ slips' = slips + 1
          /\ 1 <= MaxLines /\ UNCHANGED <<store, sale, engine, tickets, lost>>
      BY <1>1, <1>2, Bounds DEF AddLine, Pages
    <2>2. p \in Pages /\ p.slip = slips + 1
      <3>1. slips + 1 \in 0..MaxSlip /\ 1 \in 0..MaxLines
        BY <1>1, <2>1, Bounds
      <3>2. QED
        BY <1>1, <3>1 DEF Pages
    <2> HIDE DEF p
    <2>3. \A u \in Tabs : page'[u] = IF u = t THEN p ELSE page[u]
      BY <1>1, <2>1
    <2>4. TypeOK'
      BY <1>1, <2>1, <2>2, Bounds DEF IInv, TypeOK, Pages
    <2>5. SlipsStarted'
      <3>1. ASSUME NEW u \in Tabs
            PROVE  page'[u].slip <= slips' /\ (page'[u].lines > 0 => page'[u].slip > 0)
        <4>1. page[u].slip \in Nat /\ page[u].slip <= slips
              /\ (page[u].lines > 0 => page[u].slip > 0)
          BY <1>1, Bounds DEF IInv, SlipsStarted, Pages
        <4>2. QED
          BY <4>1, <1>1, <2>1, <2>2, <2>3
      <3>2. QED
        BY <3>1 DEF SlipsStarted
    <2>6. QED
      BY <2>1, <2>2, <2>3, <2>4, <2>5, PageStep
  <1>3. CASE page[t].lines # 0
    <2> DEFINE p == [page[t] EXCEPT !.lines = @ + 1]
    <2>1. /\ page' = [page EXCEPT ![t] = p] /\ page[t].lines < MaxLines
          /\ UNCHANGED <<store, sale, engine, tickets, slips, lost>>
      BY <1>1, <1>3 DEF AddLine
    <2>2. p \in Pages /\ p.slip = page[t].slip /\ p.waiting = page[t].waiting
      <3>1. page[t].lines + 1 \in 0..MaxLines
        BY <1>1, <2>1, Bounds DEF Pages
      <3>2. QED
        BY <1>1, <3>1 DEF Pages
    <2>3. page[t].slip > 0
      BY <1>1, <1>3, Bounds DEF IInv, SlipsStarted, Pages
    <2> HIDE DEF p
    <2>4. QED
      BY <1>1, <2>1, <2>2, <2>3, KeepStep
  <1>4. QED
    BY <1>2, <1>3
-----------------------------------------------------------------------------
(* Requests and their answers.                                             *)

\* A request about a slip that may still be sold once.
LEMMA SubmitStep ==
  ASSUME IInv, NEW t \in Tabs, Submit(t)
  PROVE  IInv'
  <1> DEFINE s == page[t].slip
             call == [state |-> "sent", own |-> page[t].user = store.token,
                      round |-> page[t].round, gate |-> 0]
             p == [page[t] EXCEPT !.waiting = s]
  <1>1. /\ page[t] \in Pages /\ page \in [Tabs -> Pages] /\ sale \in [Slips -> Sales]
        /\ store.token \in Users /\ slips \in 0..MaxSlip
    BY DEF IInv, TypeOK, Pages, Sales
  <1>2. /\ sale' = [sale EXCEPT ![s] = call] /\ page' = [page EXCEPT ![t] = p]
        /\ UNCHANGED <<store, engine, tickets, slips, lost>>
        /\ page[t].lines > 0 /\ sale[s] = NoSale
    BY <1>1 DEF Submit, CanSubmit
  <1>3. s \in Slips /\ s <= slips
    <2>1. page[t].slip > 0 /\ page[t].slip <= slips
      BY <1>2 DEF IInv, SlipsStarted
    <2>2. page[t].slip \in 0..MaxSlip
      BY <1>1 DEF Pages
    <2>3. QED
      BY <2>1, <2>2, Bounds
  <1>4. call \in Sales /\ call.state = "sent"
    BY <1>1, Bounds DEF Pages, Sales
  <1>5. p \in Pages /\ p.slip = s /\ p.waiting = s /\ p.lines = page[t].lines
    BY <1>1 DEF Pages
  <1> HIDE DEF p, call
  <1>6. /\ \A u \in Tabs : page'[u] = IF u = t THEN p ELSE page[u]
        /\ \A r \in Slips : sale'[r] = IF r = s THEN call ELSE sale[r]
        /\ page' \in [Tabs -> Pages] /\ sale' \in [Slips -> Sales]
    BY <1>1, <1>2, <1>3, <1>4, <1>5
  <1>7. \A u \in Tabs : page'[u].slip = page[u].slip /\ page'[u].lines = page[u].lines
    BY <1>5, <1>6
  <1>8. TypeOK'
    BY <1>2, <1>6 DEF IInv, TypeOK, Pages, Sales
  <1>9. SlipsStarted' /\ OnePage'
    BY <1>2, <1>7 DEF IInv, SlipsStarted, OnePage
  <1>10. Unsent'
    BY <1>1, <1>2, <1>3, <1>6, Bounds DEF IInv, Unsent
  <1>11. Awaited'
    <2> SUFFICES ASSUME NEW u \in Tabs, NEW r \in Slips, sale'[r].state # "none",
                        page'[u].slip = r
                 PROVE  page'[u].waiting = r
      BY DEF Awaited
    <2>1. r # 0
      BY Bounds
    <2>2. CASE r = s
      BY <1>5, <1>6, <1>7, <2>1, <2>2 DEF IInv, OnePage
    <2>3. CASE r # s
      BY <1>5, <1>6, <2>3 DEF IInv, Awaited
    <2>4. QED
      BY <2>2, <2>3
  <1>12. SoldBefore'
    <2>1. \A r \in Slips : ToBeSold(r)' => ToBeSold(r)
      BY <1>2, <1>3, <1>6, <1>7 DEF ToBeSold, NoSale
    <2>2. \A r \in Slips : SalesOf(r)' = SalesOf(r) /\ lost'[r] = lost[r]
      BY <1>2 DEF SalesOf, SoldAs
    <2>3. QED
      BY <2>1, <2>2 DEF IInv, SoldBefore
  <1>13. Gated' /\ NoTicketIsStranded'
    BY <1>2, <1>4, <1>6 DEF IInv, Gated, NoTicketIsStranded, ResultToCome
  <1>14. QED
    BY <1>8, <1>9, <1>10, <1>11, <1>12, <1>13 DEF IInv

LEMMA CheckStep ==
  ASSUME IInv, NEW s \in Slips, Check(s)
  PROVE  IInv'
  <1> DEFINE call == [NoSale EXCEPT !.state = "checked", !.round = sale[s].round,
                             !.gate = engine.round]
  <1>1. sale \in [Slips -> Sales] /\ sale[s] \in Sales /\ engine.round \in Rounds
    BY DEF IInv, TypeOK
  <1>2. /\ sale' = [sale EXCEPT ![s] = call] /\ sale[s].state = "sent"
        /\ UNCHANGED <<store, page, engine, tickets, slips, lost>>
        /\ sale[s].round = engine.round
    BY <1>1 DEF Check, Accepts
  <1>3. call \in Sales /\ call.state = "checked" /\ call.round = call.gate
    BY <1>1, <1>2, Bounds DEF Sales, NoSale
  <1> HIDE DEF call
  <1>4. /\ \A r \in Slips : sale'[r] = IF r = s THEN call ELSE sale[r]
        /\ sale' \in [Slips -> Sales]
    BY <1>1, <1>2, <1>3
  <1>5. TypeOK'
    BY <1>2, <1>4 DEF IInv, TypeOK, Sales
  <1>6. SlipsStarted' /\ OnePage'
    BY <1>2 DEF IInv, SlipsStarted, OnePage
  <1>7. Unsent' /\ Awaited' /\ Gated'
    BY <1>2, <1>3, <1>4 DEF IInv, Unsent, Awaited, Gated
  <1>8. SoldBefore'
    <2>1. \A r \in Slips : ToBeSold(r)' => ToBeSold(r)
      BY <1>2, <1>3, <1>4 DEF ToBeSold
    <2>2. \A r \in Slips : SalesOf(r)' = SalesOf(r) /\ lost'[r] = lost[r]
      BY <1>2 DEF SalesOf, SoldAs
    <2>3. QED
      BY <2>1, <2>2 DEF IInv, SoldBefore
  <1>9. NoTicketIsStranded'
    BY <1>2 DEF IInv, NoTicketIsStranded, ResultToCome
  <1>10. QED
    BY <1>5, <1>6, <1>7, <1>8, <1>9 DEF IInv

\* The ticket is counted, and is not stranded: the gate was for its round.
LEMMA SellStep ==
  ASSUME IInv, NEW s \in Slips, Sell(s)
  PROVE  IInv'
  <1> DEFINE n == Len(tickets) + 1
             call == [NoSale EXCEPT !.state = "sold"]
             ticket == Ticket(s)
  <1>1. /\ sale \in [Slips -> Sales] /\ sale[s] \in Sales /\ engine.round \in Rounds
        /\ tickets \in Seq(Records) /\ DOMAIN tickets = 1..Len(tickets) /\ Len(tickets) \in Nat
    BY LenProperties DEF IInv, TypeOK, Sales
  <1>2. /\ sale' = [sale EXCEPT ![s] = call] /\ sale[s].state = "checked"
        /\ tickets' = Append(tickets, ticket)
        /\ UNCHANGED <<store, page, engine, slips, lost>>
    BY <1>1 DEF Sell
  <1>3. call \in Sales /\ call.state = "sold"
    BY Bounds DEF Sales, NoSale
  <1>4. /\ ticket \in Records /\ ticket.slip = s
        /\ ticket.state = "due" => ResultToCome(ticket.round)
    BY <1>1, <1>2 DEF Ticket, Records, Sales, IInv, Gated
  <1> HIDE DEF call, ticket
  <1>5. /\ \A r \in Slips : sale'[r] = IF r = s THEN call ELSE sale[r]
        /\ sale' \in [Slips -> Sales]
    BY <1>1, <1>2, <1>3
  <1>6. /\ tickets' \in Seq(Records) /\ DOMAIN tickets' = 1..n
        /\ \A i \in 1..Len(tickets) : tickets'[i] = tickets[i]
        /\ tickets'[n] = ticket
    BY <1>1, <1>2, <1>4, AppendProperties, LenProperties
  <1>7. TypeOK'
    BY <1>2, <1>5, <1>6 DEF IInv, TypeOK, Sales
  <1>8. SlipsStarted' /\ OnePage'
    BY <1>2 DEF IInv, SlipsStarted, OnePage
  <1>9. Unsent' /\ Awaited' /\ Gated'
    BY <1>2, <1>3, <1>5 DEF IInv, Unsent, Awaited, Gated
  <1>10. NoTicketIsStranded'
    <2>1. ASSUME NEW i \in 1..n, tickets'[i].state = "due"
          PROVE  ResultToCome(tickets'[i].round)
      <3>1. i \in 1..Len(tickets) \/ i = n
        BY <1>1
      <3>2. QED
        BY <1>1, <1>4, <1>6, <2>1, <3>1 DEF IInv, NoTicketIsStranded, ResultToCome
    <2>2. QED
      BY <1>2, <1>6, <2>1 DEF NoTicketIsStranded, ResultToCome
  <1>11. SoldBefore'
    <2> SUFFICES ASSUME NEW r \in Slips
                 PROVE  /\ SalesOf(r)' <= 1 + lost[r]
                        /\ ToBeSold(r)' => SalesOf(r)' <= lost[r]
      BY <1>2 DEF SoldBefore
    <2>1. /\ SalesOf(r) \in Nat /\ IsFiniteSet(SoldAs(r)) /\ lost[r] \in Nat
          /\ SalesOf(r) <= 1 + lost[r] /\ (ToBeSold(r) => SalesOf(r) <= lost[r])
      <3>1. lost[r] \in Nat
        BY Bounds DEF IInv, TypeOK
      <3>2. SalesOf(r) \in Nat /\ IsFiniteSet(SoldAs(r))
        BY Counted DEF IInv
      <3>3. QED
        BY <3>1, <3>2 DEF IInv, SoldBefore
    <2>2. CASE r = s
      <3>1. SoldAs(s)' = SoldAs(s) \cup {n} /\ n \notin SoldAs(s)
        BY <1>1, <1>4, <1>6 DEF SoldAs
      <3>2. SalesOf(s)' = SalesOf(s) + 1
        BY <2>1, <2>2, <3>1, FS_AddElement DEF SalesOf
      <3>3. ToBeSold(s)
        BY <1>2 DEF ToBeSold
      <3>4. ~ToBeSold(s)'
        BY <1>2, <1>3, <1>5, Bounds DEF ToBeSold, IInv, Unsent, TypeOK
      <3>5. QED
        BY <2>1, <2>2, <3>2, <3>3, <3>4
    <2>3. CASE r # s
      <3>1. SoldAs(r)' = SoldAs(r)
        BY <1>1, <1>4, <1>6, <2>3 DEF SoldAs
      <3>2. SalesOf(r)' = SalesOf(r)
        BY <3>1 DEF SalesOf
      <3>3. ToBeSold(r)' => ToBeSold(r)
        BY <1>2, <1>5, <2>3 DEF ToBeSold
      <3>4. QED
        BY <2>1, <3>2, <3>3
    <2>4. QED
      BY <2>2, <2>3
  <1>12. QED
    BY <1>7, <1>8, <1>9, <1>10, <1>11 DEF IInv

\* An answer ends the request of s; some pages stop to wait for it.  If they keep the slip
\* it is still to be sold, or the answer was lost.
LEMMA AnswerStep ==
  ASSUME IInv, NEW s \in Slips,
         sale' = [sale EXCEPT ![s] = NoSale],
         page' \in [Tabs -> Pages],
         \A t \in Tabs :
           \/ page'[t] = page[t] /\ page[t].waiting # s
           \/ page'[t].slip = 0 /\ page'[t].lines = 0
           \/ page'[t].slip = page[t].slip /\ page'[t].lines = page[t].lines
              /\ page[t].waiting = s,
         lost' \in [Slips -> 0..MaxLosses],
         \A r \in Slips : r # s => lost'[r] = lost[r],
         lost'[s] >= lost[s],
         UNCHANGED <<store, engine, tickets, slips>>,
         \/ ToBeSold(s)
         \/ lost'[s] = lost[s] + 1
         \/ \A t \in Tabs : page[t].waiting = s => page'[t].slip = 0
  PROVE  IInv'
  <1>1. /\ sale \in [Slips -> Sales] /\ NoSale \in Sales /\ NoSale.state = "none"
    BY Bounds DEF IInv, TypeOK, Sales, NoSale, Users
  <1>2. /\ \A r \in Slips : sale'[r] = IF r = s THEN NoSale ELSE sale[r]
        /\ sale' \in [Slips -> Sales]
    BY <1>1
  <1>3. \A t \in Tabs :
          \/ page'[t].slip = 0 /\ page'[t].lines = 0
          \/ page'[t].slip = page[t].slip /\ page'[t].lines = page[t].lines
    OBVIOUS
  <1>4. TypeOK'
    BY <1>2 DEF IInv, TypeOK, Pages, Sales
  <1>5. SlipsStarted'
    <2>1. slips \in Nat
      BY Bounds DEF IInv, TypeOK
    <2>2. QED
      BY <1>3, <2>1 DEF IInv, SlipsStarted
  <1>6. OnePage'
    BY <1>3 DEF IInv, OnePage
  <1>7. Unsent' /\ Gated'
    BY <1>1, <1>2 DEF IInv, Unsent, Gated
  <1>8. Awaited'
    <2> SUFFICES ASSUME NEW t \in Tabs, NEW r \in Slips, sale'[r].state # "none",
                        page'[t].slip = r
                 PROVE  page'[t].waiting = r
      BY DEF Awaited
    <2>1. r # 0 /\ r # s /\ sale[r].state # "none" /\ page[t].slip = r
      BY <1>1, <1>2, <1>3, Bounds
    <2>2. page[t].waiting = r
      BY <2>1 DEF IInv, Awaited
    <2>3. QED
      BY <2>1, <2>2, Bounds
  <1>9. SoldBefore'
    <2> SUFFICES ASSUME NEW r \in Slips
                 PROVE  /\ SalesOf(r)' <= 1 + lost'[r]
                        /\ ToBeSold(r)' => SalesOf(r)' <= lost'[r]
      BY DEF SoldBefore
    <2>1. SalesOf(r)' = SalesOf(r) /\ SalesOf(r) \in Nat
      BY Counted DEF SalesOf, SoldAs, IInv
    <2>2. /\ SalesOf(r) <= 1 + lost[r] /\ (ToBeSold(r) => SalesOf(r) <= lost[r])
      BY DEF IInv, SoldBefore
    <2>3. lost[r] \in Nat /\ lost'[r] \in Nat
      BY Bounds DEF IInv, TypeOK
    <2>4. CASE r # s
      <3>1. ToBeSold(r)' => ToBeSold(r)
        BY <1>2, <1>3, <2>4, Bounds DEF ToBeSold
      <3>2. QED
        BY <2>1, <2>2, <2>4, <3>1
    <2>5. CASE r = s /\ (ToBeSold(s) \/ lost'[s] = lost[s] + 1)
      BY <2>1, <2>2, <2>3, <2>5
    <2>6. CASE r = s /\ ~ToBeSold(s) /\ \A t \in Tabs : page[t].waiting = s => page'[t].slip = 0
      <3>1. ~(s > slips) /\ (sale[s].state # "none" \/ \A t \in Tabs : page[t].slip # s)
        BY <2>6 DEF ToBeSold
      <3>2. \A t \in Tabs : page'[t].slip # s
        BY <1>3, <2>6, <3>1, Bounds DEF IInv, Awaited
      <3>3. ~ToBeSold(s)'
        BY <1>1, <1>2, <2>6, <3>2 DEF ToBeSold
      <3>4. QED
        BY <2>1, <2>2, <2>3, <2>6, <3>3
    <2>7. QED
      BY <2>4, <2>5, <2>6
  <1>10. NoTicketIsStranded'
    BY DEF IInv, NoTicketIsStranded, ResultToCome
  <1>11. QED
    BY <1>4, <1>5, <1>6, <1>7, <1>8, <1>9, <1>10 DEF IInv

LEMMA SoldAnswerStep ==
  ASSUME IInv, NEW s \in Slips, SoldAnswer(s)
  PROVE  IInv'
  <1>1. page \in [Tabs -> Pages] /\ lost \in [Slips -> 0..MaxLosses] /\ 0 \in 0..MaxSlip
        /\ 0 \in 0..MaxLines
    BY Bounds DEF IInv, TypeOK, Pages
  <1>2. \A p \in Pages : Sold(p) \in Pages /\ Sold(p).slip = 0 /\ Sold(p).lines = 0
    BY <1>1 DEF Sold, Pages
  <1>3. /\ sale' = [sale EXCEPT ![s] = NoSale]
        /\ page' = [t \in Tabs |-> IF page[t].waiting = s THEN Sold(page[t]) ELSE page[t]]
        /\ UNCHANGED <<store, engine, tickets, slips, lost>>
    BY DEF SoldAnswer
  <1>4. /\ page' \in [Tabs -> Pages]
        /\ \A t \in Tabs : IF page[t].waiting = s
                           THEN page'[t].slip = 0 /\ page'[t].lines = 0
                           ELSE page'[t] = page[t]
    BY <1>1, <1>2, <1>3
  <1>5. lost'[s] >= lost[s]
    BY <1>1, <1>3, Bounds
  <1>6. QED
    BY <1>1, <1>3, <1>4, <1>5, AnswerStep

\* What a failure does to the pages.
LEMMA FailedPages ==
  ASSUME IInv, NEW s \in Slips, Failed(s)
  PROVE  /\ sale' = [sale EXCEPT ![s] = NoSale]
         /\ page' \in [Tabs -> Pages]
         /\ \A t \in Tabs : IF page[t].waiting = s
                            THEN page'[t].slip = page[t].slip /\ page'[t].lines = page[t].lines
                            ELSE page'[t] = page[t]
         /\ UNCHANGED <<store, engine, tickets, slips>>
  <1>1. page \in [Tabs -> Pages] /\ 0 \in 0..MaxSlip
    BY Bounds DEF IInv, TypeOK, Pages
  <1>2. \A p \in Pages : /\ [p EXCEPT !.waiting = 0] \in Pages
                         /\ [p EXCEPT !.waiting = 0].slip = p.slip
                         /\ [p EXCEPT !.waiting = 0].lines = p.lines
    BY <1>1 DEF Pages
  <1>3. QED
    BY <1>1, <1>2 DEF Failed

LEMMA RefuseStep ==
  ASSUME IInv, NEW s \in Slips, Refuse(s)
  PROVE  IInv'
  <1>1. Failed(s) /\ lost' = lost /\ ToBeSold(s)
    BY DEF Refuse, ToBeSold
  <1>2. lost \in [Slips -> 0..MaxLosses] /\ lost[s] \in Nat
    BY Bounds DEF IInv, TypeOK
  <1>3. lost'[s] >= lost[s]
    BY <1>1, <1>2
  <1>4. QED
    BY <1>1, <1>2, <1>3, FailedPages, AnswerStep

LEMMA LoseStep ==
  ASSUME IInv, NEW s \in Slips, Lose(s)
  PROVE  IInv'
  <1>1. Failed(s) /\ lost' = [lost EXCEPT ![s] = @ + 1] /\ lost[s] < MaxLosses
    BY DEF Lose
  <1>2. lost \in [Slips -> 0..MaxLosses] /\ lost[s] \in Nat
    BY Bounds DEF IInv, TypeOK
  <1>3. /\ lost' \in [Slips -> 0..MaxLosses] /\ lost'[s] = lost[s] + 1 /\ lost'[s] >= lost[s]
        /\ \A r \in Slips : r # s => lost'[r] = lost[r]
    BY <1>1, <1>2, Bounds
  <1>4. QED
    BY <1>1, <1>3, FailedPages, AnswerStep
-----------------------------------------------------------------------------
(* The engine.                                                             *)

\* Tickets get another state, and nothing else.
LEMMA MarkedTickets ==
  ASSUME TypeOK, NEW rounds, NEW from, NEW state \in {"due", "settled", "missed", "late"}
  PROVE  /\ Marked(rounds, from, state) \in Seq(Records)
         /\ DOMAIN Marked(rounds, from, state) = DOMAIN tickets
         /\ \A i \in DOMAIN tickets :
              /\ Marked(rounds, from, state)[i].slip = tickets[i].slip
              /\ Marked(rounds, from, state)[i].round = tickets[i].round
              /\ Marked(rounds, from, state)[i].state
                   = IF tickets[i].round \in rounds /\ tickets[i].state \in from
                     THEN state ELSE tickets[i].state
  <1>1. tickets \in Seq(Records) /\ DOMAIN tickets = 1..Len(tickets) /\ Len(tickets) \in Nat
    BY LenProperties DEF TypeOK
  <1> DEFINE marked(i) == IF tickets[i].round \in rounds /\ tickets[i].state \in from
                          THEN [tickets[i] EXCEPT !.state = state] ELSE tickets[i]
  <1>2. Marked(rounds, from, state) = [i \in 1..Len(tickets) |-> marked(i)]
    BY <1>1 DEF Marked
  <1>3. \A i \in 1..Len(tickets) : tickets[i] \in Records
    BY <1>1, ElementOfSeq
  <1>4. \A i \in 1..Len(tickets) :
          /\ marked(i) \in Records /\ marked(i).slip = tickets[i].slip
          /\ marked(i).round = tickets[i].round
          /\ marked(i).state = IF tickets[i].round \in rounds /\ tickets[i].state \in from
                               THEN state ELSE tickets[i].state
    BY <1>3 DEF Records
  <1> HIDE DEF marked
  <1>5. Marked(rounds, from, state) \in Seq(Records)
    BY <1>1, <1>2, <1>4, IsASeq
  <1>6. QED
    BY <1>1, <1>2, <1>4, <1>5

\* What any step of the engine does to the tickets, and to the round they wait for.
LEMMA EngineTickets ==
  ASSUME IInv, CloseBets \/ Finish \/ NextRound \/ Disable \/ \E r \in Rounds : Restart(r)
  PROVE  /\ tickets' \in Seq(Records) /\ DOMAIN tickets' = DOMAIN tickets
         /\ \A i \in DOMAIN tickets : tickets'[i].slip = tickets[i].slip
         /\ engine' \in [round : Rounds, phase : Phases]
         /\ NoTicketIsStranded'
  <1>1. /\ tickets \in Seq(Records) /\ engine \in [round : Rounds, phase : Phases]
        /\ \A i \in DOMAIN tickets : tickets[i].state = "due" => ResultToCome(tickets[i].round)
    BY DEF IInv, TypeOK, NoTicketIsStranded
  <1>2. CASE CloseBets
    BY <1>1, <1>2 DEF CloseBets, NoTicketIsStranded, ResultToCome, Phases
  <1>3. CASE Finish
    <2>1. /\ engine' = [engine EXCEPT !.phase = "finished"]
          /\ engine' \in [round : Rounds, phase : Phases]
      BY <1>1, <1>3 DEF Finish, Phases
    <2>2. PICK from \in SUBSET {"due", "missed", "late"}, state \in {"settled", "missed"} :
            tickets' = Marked({engine.round}, from, state) /\ "due" \in from
      BY <1>3 DEF Finish, Missed
    <2>3. /\ tickets' \in Seq(Records) /\ DOMAIN tickets' = DOMAIN tickets
          /\ \A i \in DOMAIN tickets :
               /\ tickets'[i].slip = tickets[i].slip /\ tickets'[i].round = tickets[i].round
               /\ tickets'[i].state = "due" => /\ tickets[i].state = "due"
                                              /\ tickets[i].round # engine.round
      BY <2>2, MarkedTickets DEF IInv
    <2>4. QED
      BY <1>1, <2>1, <2>3 DEF NoTicketIsStranded, ResultToCome
  <1>4. ASSUME NEW rounds, tickets' = Missed(rounds)
        PROVE  /\ tickets' \in Seq(Records) /\ DOMAIN tickets' = DOMAIN tickets
               /\ \A i \in DOMAIN tickets :
                    /\ tickets'[i].slip = tickets[i].slip /\ tickets'[i].round = tickets[i].round
                    /\ tickets'[i].state = "due" => /\ tickets[i].state = "due"
                                                   /\ tickets[i].round \notin rounds
    BY <1>4, MarkedTickets DEF IInv, Missed
  <1>5. ASSUME NEW r \in Rounds, NEW phase \in {"betting", "disabled"},
               engine' = [round |-> r, phase |-> phase], tickets' = Missed(Abandoned)
        PROVE  /\ tickets' \in Seq(Records) /\ DOMAIN tickets' = DOMAIN tickets
               /\ \A i \in DOMAIN tickets : tickets'[i].slip = tickets[i].slip
               /\ engine' \in [round : Rounds, phase : Phases]
               /\ NoTicketIsStranded'
    <2>1. \A i \in DOMAIN tickets : tickets'[i].state # "due"
      BY <1>1, <1>4, <1>5 DEF ResultToCome, Abandoned
    <2>2. QED
      BY <1>4, <1>5, <2>1 DEF NoTicketIsStranded, Phases
  <1>6. CASE NextRound
    <2>1. engine.round + 1 \in Rounds
      BY <1>1, <1>6, Bounds DEF NextRound
    <2>2. QED
      BY <1>5, <1>6, <2>1 DEF NextRound
  <1>7. CASE Disable
    <2>1. engine' = [round |-> engine.round, phase |-> "disabled"] /\ engine.round \in Rounds
      BY <1>1, <1>7 DEF Disable
    <2>2. QED
      BY <1>5, <1>7, <2>1 DEF Disable
  <1>8. ASSUME NEW r \in Rounds, Restart(r)
        PROVE  /\ tickets' \in Seq(Records) /\ DOMAIN tickets' = DOMAIN tickets
               /\ \A i \in DOMAIN tickets : tickets'[i].slip = tickets[i].slip
               /\ engine' \in [round : Rounds, phase : Phases]
               /\ NoTicketIsStranded'
    <2>1. CASE engine' = [round |-> r, phase |-> "betting"] /\ tickets' = Missed(Abandoned \ {r})
      <3>1. \A i \in DOMAIN tickets : tickets'[i].state = "due" => tickets'[i].round = r
        <4> DEFINE left == Abandoned \ {r}
        <4>1. \A i \in DOMAIN tickets : tickets'[i].state = "due" =>
                /\ tickets[i].state = "due" /\ tickets[i].round \notin left
                /\ tickets'[i].round = tickets[i].round
          <5> HIDE DEF left
          <5>1. tickets' = Missed(left)
            BY <2>1 DEF left
          <5>2. QED
            BY <1>4, <5>1
        <4>2. QED
          BY <1>1, <4>1 DEF ResultToCome, Abandoned
      <3>2. engine'.round = r /\ engine'.phase = "betting"
        BY <2>1
      <3>3. NoTicketIsStranded'
        BY <1>4, <2>1, <3>1, <3>2 DEF NoTicketIsStranded, ResultToCome
      <3>4. QED
        BY <1>4, <2>1, <3>3 DEF Phases
    <2>2. CASE engine' = [round |-> r, phase |-> "disabled"] /\ tickets' = Missed(Abandoned)
      BY <1>5, <2>2
    <2>3. QED
      BY <1>8, <2>1, <2>2 DEF Restart
  <1>9. QED
    BY <1>2, <1>3, <1>6, <1>7, <1>8

\* The engine does not touch pages, requests or slips.
LEMMA EngineStep ==
  ASSUME IInv, CloseBets \/ Finish \/ NextRound \/ Disable \/ \E r \in Rounds : Restart(r)
  PROVE  IInv'
  <1>1. UNCHANGED <<store, page, sale, slips, lost>>
    BY DEF CloseBets, Finish, NextRound, Disable, Restart
  <1>2. /\ tickets' \in Seq(Records) /\ DOMAIN tickets' = DOMAIN tickets
        /\ \A i \in DOMAIN tickets : tickets'[i].slip = tickets[i].slip
        /\ engine' \in [round : Rounds, phase : Phases]
        /\ NoTicketIsStranded'
    BY EngineTickets
  <1>3. TypeOK'
    BY <1>1, <1>2 DEF IInv, TypeOK
  <1>4. SlipsStarted' /\ OnePage' /\ Unsent' /\ Awaited' /\ Gated'
    BY <1>1 DEF IInv, SlipsStarted, OnePage, Unsent, Awaited, Gated
  <1>5. SoldBefore'
    <2>1. \A s \in Slips : SoldAs(s)' = SoldAs(s) /\ (ToBeSold(s)' <=> ToBeSold(s))
      BY <1>1, <1>2 DEF SoldAs, ToBeSold
    <2>2. QED
      BY <1>1, <2>1 DEF IInv, SoldBefore, SalesOf
  <1>6. QED
    BY <1>2, <1>3, <1>4, <1>5 DEF IInv
-----------------------------------------------------------------------------
(* The theorems.                                                           *)

LEMMA InitInv ==
  ASSUME Init
  PROVE  IInv
  <1>1. TypeOK
    <2>1. tickets \in Seq(Records)
      BY EmptySeq DEF Init
    <2>2. Nobody \in Users /\ Blank(Nobody) \in Pages /\ NoSale \in Sales
      BY BlankPage, Bounds DEF Users, NoSale, Sales
    <2>3. QED
      BY <2>1, <2>2, Bounds DEF Init, TypeOK, Pages, Sales, Phases
  <1>2. /\ \A t \in Tabs : page[t].slip = 0 /\ page[t].lines = 0
        /\ \A s \in Slips : s # 0 /\ sale[s].state = "none" /\ lost[s] = 0
        /\ slips = 0 /\ tickets = <<>>
    BY Bounds DEF Init, Blank, NoSale
  <1>3. \A s \in Slips : SalesOf(s) = 0
    <2>1. \A s \in Slips : SoldAs(s) = {}
      BY <1>2 DEF SoldAs
    <2>2. QED
      BY <2>1, FS_EmptySet DEF SalesOf
  <1>4. SoldBefore
    BY <1>2, <1>3 DEF SoldBefore
  <1>5. QED
    BY <1>1, <1>2, <1>4
    DEF IInv, SlipsStarted, OnePage, Unsent, Awaited, Gated, NoTicketIsStranded

LEMMA NextInv ==
  ASSUME IInv, [Next]_vars
  PROVE  IInv'
  <1>1. ASSUME NEW t \in Tabs,
               \/ Reload(t) \/ Logout(t) \/ See(t) \/ Leave(t) \/ AddLine(t)
               \/ Clear(t) \/ Submit(t)
               \/ \E a \in Agents : Login(t, a) \/ HandOver(t, a)
               \/ BalanceAnswer(t)
        PROVE  IInv'
    BY <1>1, SessionStep, SeeStep, AddLineStep, ClearStep, SubmitStep
  <1>2. ASSUME NEW s \in Slips,
               Check(s) \/ Sell(s) \/ Refuse(s) \/ SoldAnswer(s) \/ Lose(s)
        PROVE  IInv'
    BY <1>2, CheckStep, SellStep, RefuseStep, SoldAnswerStep, LoseStep
  <1>3. CASE CloseBets \/ Finish \/ NextRound \/ Disable \/ \E r \in Rounds : Restart(r)
    BY <1>3, EngineStep
  <1>4. CASE UNCHANGED vars
    BY <1>4 DEF vars, IInv, TypeOK, SlipsStarted, OnePage, Unsent, Awaited, SoldBefore,
       ToBeSold, SalesOf, SoldAs, Gated, NoTicketIsStranded, ResultToCome
  <1>5. QED
    BY <1>1, <1>2, <1>3, <1>4 DEF Next

\* The inductive invariant: which slips may still be sold, and which page waits for which.
THEOREM Invariant == Spec => []IInv
  BY InitInv, NextInv, PTL DEF Spec

\* Pages, requests and tickets keep their types.
THEOREM TypeCorrect == Spec => []TypeOK
  <1>1. IInv => TypeOK
    BY DEF IInv
  <1>2. QED
    BY Invariant, <1>1, PTL

\* SoldTwiceOnlyAfterLoss: submitTicket sells a slip at most once more than answers about
\* it were lost, in any number of windows and with any number of cashiers.
THEOREM SoldOnceUnlessLost == Spec => []SoldTwiceOnlyAfterLoss
  <1>1. IInv => SoldTwiceOnlyAfterLoss
    BY DEF IInv, SoldBefore, SalesOf, SoldTwiceOnlyAfterLoss
  <1>2. QED
    BY Invariant, <1>1, PTL

\* NoTicketIsStranded: whatever rounds the engines abandon, draw again or publish in vain, a
\* PENDING ticket is of the round being played, but for those of a round whose result was
\* missed and those let in by create_ticket in time and committed when the round was over.
THEOREM OnlyLateOrMissedAreStranded == Spec => []NoTicketIsStranded
  <1>1. IInv => NoTicketIsStranded
    BY DEF IInv
  <1>2. QED
    BY Invariant, <1>1, PTL
-----------------------------------------------------------------------------
(* The tables of Keno.                                                     *)

\* The server pays nothing or at least 0.81 of the stake, and most when everything comes
\* out; that is the multiplier both tables of agent-web announce.
LEMMA KenoTables ==
  ASSUME NEW s \in 1..11
  PROVE  /\ KENO_MAX_MULTIPLIER[s] \in Nat /\ KENO_MAX_MULTIPLIER[s] >= 101
         /\ \A m \in 0..s : Multiplier(s, m) = 0 \/ Multiplier(s, m) \in 81..KENO_MAX_MULTIPLIER[s]
         /\ Multiplier(s, s) = KENO_MAX_MULTIPLIER[s]
         /\ MaxMultiplier(s) = KENO_MAX_MULTIPLIER[s]
  <1>1. s \in {1, 2, 3, 4, 5, 6, 7, 8, 9, 10, 11}
    OBVIOUS
  <1>2. /\ KENO_MAX_MULTIPLIER[s] \in Nat /\ KENO_MAX_MULTIPLIER[s] >= 101
        /\ ServerPaytable[s][s + 1] = KENO_MAX_MULTIPLIER[s]
    BY <1>1 DEF ServerPaytable, KENO_MAX_MULTIPLIER
  <1>3. \A m \in 0..s : \/ ServerPaytable[s][m + 1] = 0
                        \/ ServerPaytable[s][m + 1] \in 81..KENO_MAX_MULTIPLIER[s]
    BY <1>1 DEF ServerPaytable, KENO_MAX_MULTIPLIER
  <1>4. /\ Len(GridPaytable[s]) = s + 1
        /\ DOMAIN GridPaytable[s] = 1..(s + 1)
        /\ GridPaytable[s][s + 1] = KENO_MAX_MULTIPLIER[s]
        /\ GridPaytable[s][s + 1] > 0
    <2>1. CASE s = 1
      BY <2>1 DEF GridPaytable, KENO_MAX_MULTIPLIER
    <2>2. CASE s = 2
      BY <2>2 DEF GridPaytable, KENO_MAX_MULTIPLIER
    <2>3. CASE s = 3
      BY <2>3 DEF GridPaytable, KENO_MAX_MULTIPLIER
    <2>4. CASE s = 4
      BY <2>4 DEF GridPaytable, KENO_MAX_MULTIPLIER
    <2>5. CASE s = 5
      BY <2>5 DEF GridPaytable, KENO_MAX_MULTIPLIER
    <2>6. CASE s = 6
      BY <2>6 DEF GridPaytable, KENO_MAX_MULTIPLIER
    <2>7. CASE s = 7
      BY <2>7 DEF GridPaytable, KENO_MAX_MULTIPLIER
    <2>8. CASE s = 8
      BY <2>8 DEF GridPaytable, KENO_MAX_MULTIPLIER
    <2>9. CASE s = 9
      BY <2>9 DEF GridPaytable, KENO_MAX_MULTIPLIER
    <2>10. CASE s = 10
      BY <2>10 DEF GridPaytable, KENO_MAX_MULTIPLIER
    <2>11. CASE s = 11
      BY <2>11 DEF GridPaytable, KENO_MAX_MULTIPLIER
    <2>12. QED
      BY <1>1, <2>1, <2>2, <2>3, <2>4, <2>5, <2>6, <2>7, <2>8, <2>9, <2>10, <2>11
  <1>5. \A i \in DOMAIN GridPaytable[s] :
          ( /\ GridPaytable[s][i] > 0
            /\ \A j \in (i + 1)..Len(GridPaytable[s]) : GridPaytable[s][j] = 0 ) <=> i = s + 1
    <2> TAKE i \in DOMAIN GridPaytable[s]
    <2>1. CASE i = s + 1
      BY <1>4, <2>1
    <2>2. CASE i # s + 1
      <3>1. s + 1 \in (i + 1)..Len(GridPaytable[s])
        BY <1>4, <2>2
      <3>2. QED
        BY <1>4, <2>2, <3>1
    <2>3. QED
      BY <2>1, <2>2
  <1>6. MaxMultiplier(s) = KENO_MAX_MULTIPLIER[s]
    BY <1>4, <1>5 DEF MaxMultiplier
  <1>7. QED
    BY <1>2, <1>3, <1>6 DEF Multiplier
-----------------------------------------------------------------------------
(* Amounts.                                                                *)

\* Rounding takes less than a coin, and leaves one of what is at least one.
LEMMA RoundedDown ==
  ASSUME NEW x \in Nat
  PROVE  /\ RoundDown(x) \in Nat /\ RoundDown(x) <= x
         /\ x - RoundDown(x) < PAYOUT_DENOMINATION
         /\ x >= PAYOUT_DENOMINATION => RoundDown(x) > 0
  BY DEF RoundDown, PAYOUT_DENOMINATION

\* A larger multiplier pays no less, and no whole hundreds are lost.
LEMMA Scaled ==
  ASSUME NEW q \in Nat, NEW h \in Nat, NEW k \in Nat, h <= k
  PROVE  q * h \in Nat /\ q * h <= q * k /\ (q > 0 => q * h >= h)
  OBVIOUS

\* Stakes are whole hundreds: multiplying by hundredths loses nothing.
LEMMA TimesOfHundreds ==
  ASSUME NEW q \in Nat, NEW h \in Nat
  PROVE  Times(100 * q, h) = q * h
  <1>1. (100 * q) \div 100 = q /\ (100 * q) % 100 = 0
    OBVIOUS
  <1>2. 0 * h = 0 /\ 0 \div 100 = 0
    OBVIOUS
  <1>3. q * h \in Nat
    OBVIOUS
  <1>4. QED
    BY <1>1, <1>2, <1>3 DEF Times

\* The buttons of the pages.
LEMMA StakesAreHundreds ==
  ASSUME NEW stake \in Stakes
  PROVE  \E q \in Nat : q > 0 /\ stake = 100 * q
  <1>1. stake \in {100, 200, 500, 1000, 2000, 5000, 10000}
    BY PayoutsAssumption DEF STAKE_PRESETS
  <1>2. /\ 100 = 100 * 1 /\ 200 = 100 * 2 /\ 500 = 100 * 5 /\ 1000 = 100 * 10
        /\ 2000 = 100 * 20 /\ 5000 = 100 * 50 /\ 10000 = 100 * 100
    OBVIOUS
  <1>3. QED
    BY <1>1, <1>2

-----------------------------------------------------------------------------
(* The slip.                                                               *)

\* A line is worth at least the smallest stake, in whole hundreds.
Line(b) ==
  /\ b = [type |-> b.type, target |-> b.target, spots |-> b.spots, amount |-> b.amount,
          sold |-> b.sold]
  /\ \E q \in Nat : q > 0 /\ b.amount = 100 * q
  /\ b.sold \in BOOLEAN
  /\ IF game = "keno" THEN b.type = "KENO" /\ b.spots \in 1..11 ELSE b.type \in ZoneTypes

\* The inductive invariant: what is drawn belongs to the ticket that was sold.
BetInv ==
  /\ BetTypeOK
  /\ bet = NoBet \/ Line(bet)
  /\ outcome # NotDrawn => bet.sold /\ outcome \in Results

\* A zone of the table has one of its types.
LEMMA ZonesOfTable ==
  ASSUME NEW z \in Zones
  PROVE  z.type \in ZoneTypes /\ z = [type |-> z.type, target |-> z.target]
  <1>1. z \in Cells \/ z \in Handles \/ z \in OutsideZones
    BY DEF Zones
  <1>2. CASE z \in Cells
    BY <1>2 DEF Cells, Zone, ZoneTypes, ENABLED_BET_TYPES
  <1>3. CASE z \in Handles
    BY <1>3 DEF Handles, Zone, ZoneTypes, ENABLED_BET_TYPES
  <1>4. CASE z \in OutsideZones
    BY <1>4 DEF OutsideZones, Zone, ZoneTypes, ENABLED_BET_TYPES
  <1>5. QED
    BY <1>1, <1>2, <1>3, <1>4

\* One stake more on the line.
LEMMA AddedLine ==
  ASSUME BetInv, ~bet.sold, game' = game,
         NEW type, NEW target, NEW spots, NEW stake \in Stakes, Add(type, target, spots, stake),
         IF game = "keno" THEN type = "KENO" /\ spots \in 1..11 ELSE type \in ZoneTypes
  PROVE  Line(bet)' /\ ~bet'.sold /\ bet'.amount \in Nat /\ bet'.type = type
  <1>1. PICK q \in Nat : q > 0 /\ stake = 100 * q
    BY StakesAreHundreds
  <1>2. \E p \in Nat : bet.amount = 100 * p
    <2>1. CASE bet = NoBet
      <3>1. bet.amount = 100 * 0
        BY <2>1 DEF NoBet
      <3>2. QED
        BY <3>1
    <2>2. CASE Line(bet)
      BY <2>2 DEF Line
    <2>3. QED
      BY <2>1, <2>2 DEF BetInv
  <1>3. PICK p \in Nat : bet.amount = 100 * p
    BY <1>2
  <1>4. bet.amount + stake = 100 * (p + q) /\ p + q \in Nat /\ p + q > 0
    BY <1>1, <1>3
  <1>5. bet' = [type |-> type, target |-> target, spots |-> spots,
                amount |-> bet.amount + stake, sold |-> FALSE]
    BY DEF Add
  <1>6. \E r \in Nat : r > 0 /\ bet'.amount = 100 * r
    BY <1>4, <1>5
  <1>7. bet'.amount \in Nat
    BY <1>6
  <1>8. QED
    BY <1>5, <1>6, <1>7 DEF Line

\* An empty slip.
LEMMA BetStarts ==
  ASSUME BetInit
  PROVE  BetInv
  BY PayoutsAssumption DEF BetInit, BetInv, BetTypeOK, SPOTS_PRESETS, NoBet, NotDrawn, NoZone

\* Every click, draw and ticket keeps it.
LEMMA BetStep ==
  ASSUME BetInv, [BetNext]_betVars
  PROVE  BetInv'
  <1>0. /\ game \in Games /\ open \in BOOLEAN /\ mode \in {"none"} \cup Groups
        /\ hovered \in {NoZone} \cup Zones /\ maxSpots \in 1..11 /\ picks \in 0..maxSpots
        /\ bet.type \in {"none", "KENO"} \cup ZoneTypes /\ bet.amount \in Nat
        /\ outcome \in NotDrawn..36
    BY DEF BetInv, BetTypeOK, SPOTS_PRESETS
  <1>1. ASSUME UNCHANGED <<game, bet, outcome>>, open' \in BOOLEAN,
               mode' \in {"none"} \cup Groups, hovered' \in {NoZone} \cup Zones,
               maxSpots' \in 1..11, picks' \in 0..maxSpots'
        PROVE  BetInv'
    BY <1>0, <1>1 DEF BetInv, BetTypeOK, SPOTS_PRESETS, Line, Results
  <1>2. ASSUME NEW m \in Groups, ChooseMode(m)
        PROVE  BetInv'
    BY <1>0, <1>1, <1>2 DEF ChooseMode
  <1>3. CASE ResetMode
    BY <1>0, <1>1, <1>3 DEF ResetMode
  <1>4. ASSUME NEW z \in Zones, Point(z)
        PROVE  BetInv'
    BY <1>0, <1>1, <1>4 DEF Point
  <1>5. ASSUME NEW stake \in Stakes, ClickZone(stake)
        PROVE  BetInv'
    <2>1. hovered \in Zones /\ game = "roulette" /\ ~bet.sold
          /\ Add(hovered.type, hovered.target, 0, stake)
          /\ UNCHANGED <<game, open, mode, hovered, maxSpots, picks, outcome>>
      BY <1>0, <1>5 DEF ClickZone
    <2>2. Line(bet)' /\ bet'.amount \in Nat /\ bet'.type = hovered.type
          /\ hovered.type \in ZoneTypes
      BY <2>1, ZonesOfTable, AddedLine
    <2>3. outcome' = NotDrawn
      BY <2>1 DEF BetInv
    <2>4. QED
      BY <1>0, <2>1, <2>2, <2>3 DEF BetInv, BetTypeOK, SPOTS_PRESETS
  <1>6. CASE Tick
    <2>1. picks' \in 0..maxSpots
      BY <1>0, <1>6 DEF Tick
    <2>2. QED
      BY <1>0, <1>1, <1>6, <2>1 DEF Tick
  <1>7. CASE Untick
    <2>1. picks' \in 0..maxSpots
      BY <1>0, <1>7 DEF Untick
    <2>2. QED
      BY <1>0, <1>1, <1>7, <2>1 DEF Untick
  <1>8. ASSUME NEW s \in 1..11, ChangeSpots(s)
        PROVE  BetInv'
    <2>1. picks' \in 0..s
      BY <1>0, <1>8 DEF ChangeSpots
    <2>2. QED
      BY <1>0, <1>1, <1>8, <2>1 DEF ChangeSpots
  <1>9. ASSUME NEW stake \in Stakes, AddToSlip(stake)
        PROVE  BetInv'
    <2>1. game = "keno" /\ ~bet.sold /\ picks \in 1..11 /\ Add("KENO", <<>>, picks, stake)
          /\ picks' = 0 /\ UNCHANGED <<game, open, mode, hovered, maxSpots, outcome>>
      BY <1>0, <1>9 DEF AddToSlip
    <2>2. Line(bet)' /\ bet'.amount \in Nat /\ bet'.type = "KENO"
      BY <2>1, AddedLine
    <2>3. outcome' = NotDrawn /\ picks' \in 0..maxSpots
      BY <1>0, <2>1 DEF BetInv
    <2>4. QED
      BY <1>0, <2>1, <2>2, <2>3 DEF BetInv, BetTypeOK, SPOTS_PRESETS
  <1>10. CASE SellBet
    <2>1. Line(bet) /\ bet' = [bet EXCEPT !.sold = TRUE] /\ ~bet.sold
          /\ UNCHANGED <<game, open, mode, hovered, maxSpots, picks, outcome>>
      BY <1>10 DEF SellBet, BetInv
    <2>2. /\ bet'.type = bet.type /\ bet'.target = bet.target /\ bet'.spots = bet.spots
          /\ bet'.amount = bet.amount /\ bet'.sold = TRUE
          /\ bet' = [type |-> bet.type, target |-> bet.target, spots |-> bet.spots,
                     amount |-> bet.amount, sold |-> TRUE]
      BY <2>1 DEF Line
    <2>3. Line(bet)'
      BY <2>1, <2>2 DEF Line
    <2>4. QED
      BY <1>0, <2>1, <2>2, <2>3 DEF BetInv, BetTypeOK, SPOTS_PRESETS
  <1>11. CASE Toggle
    BY <1>0, <1>1, <1>11 DEF Toggle
  <1>12. ASSUME NEW result \in Results, Draw(result)
         PROVE  BetInv'
    <2>1. Line(bet)
      BY <1>12 DEF Draw, BetInv, NoBet
    <2>2. result \in NotDrawn..36
      BY <2>1 DEF Results, Line, NotDrawn
    <2>3. QED
      BY <1>0, <1>12, <2>1, <2>2 DEF Draw, BetInv, BetTypeOK, SPOTS_PRESETS, Line, Results
  <1>13. CASE NextTicket
    BY <1>0, <1>13 DEF NextTicket, BetInv, BetTypeOK, SPOTS_PRESETS, NoBet, NotDrawn
  <1>14. CASE UNCHANGED betVars
    BY <1>0, <1>1, <1>14 DEF betVars
  <1>15. QED
    BY <1>2, <1>3, <1>4, <1>5, <1>6, <1>7, <1>8, <1>9, <1>10, <1>11, <1>12, <1>13, <1>14
    DEF BetNext, SPOTS_PRESETS
-----------------------------------------------------------------------------
(* What is announced and paid.                                             *)

\* The factors of the settlement are those of the screens.
LEMMA FactorsAgree ==
  ASSUME NEW t \in ZoneTypes
  PROVE  Factor[t] = BET_MODES[t] /\ Factor[t] \in 2..36
  BY DEF Factor, BET_MODES, ZoneTypes, ENABLED_BET_TYPES

\* A roulette line pays its stake times the factor, or nothing.
LEMMA RoulettePays ==
  ASSUME NEW b, b.type \in ZoneTypes, b.amount \in Nat, NEW n
  PROVE  /\ n \in WinsOn(b) => Payout(b, n) = RoundDown(b.amount * Factor[b.type])
         /\ n \notin WinsOn(b) => Payout(b, n) = 0
         /\ b.amount * Factor[b.type] \in Nat
         /\ b.amount >= 100 => b.amount * Factor[b.type] >= 100
  <1>1. b.type # "KENO"
    BY DEF ZoneTypes, ENABLED_BET_TYPES
  <1>2. Payout(b, n) = RoundDown(IF n \in WinsOn(b) THEN b.amount * Factor[b.type] ELSE 0)
    BY <1>1 DEF Payout
  <1>3. RoundDown(0) = 0
    BY RoundedDown
  <1>4. Factor[b.type] \in 2..36
    BY FactorsAgree
  <1>5. b.amount * Factor[b.type] \in Nat /\ b.amount * 1 <= b.amount * Factor[b.type]
    BY <1>4, Scaled
  <1>6. QED
    BY <1>2, <1>3, <1>5

\* The receipt announces the same product.
LEMMA RouletteGain ==
  ASSUME NEW b, b.type \in ZoneTypes, NEW q \in Nat, b.amount = 100 * q
  PROVE  ReceiptGain(b) = b.amount * Factor[b.type]
  <1>1. b.type # "KENO" /\ Factor[b.type] = BET_MODES[b.type] /\ Factor[b.type] \in Nat
    BY FactorsAgree DEF ZoneTypes, ENABLED_BET_TYPES
  <1>2. ReceiptGain(b) = Times(100 * q, 100 * Factor[b.type])
    <2>1. ~FlooredShort(b) /\ BetMultiplier(b) = 100 * Factor[b.type]
      BY <1>1 DEF FlooredShort, BetMultiplier
    <2>2. Times(100 * q, 100 * Factor[b.type]) \in Nat
      BY <1>1, TimesOfHundreds
    <2>3. QED
      BY <2>1, <2>2 DEF ReceiptGain
  <1>3. Times(100 * q, 100 * Factor[b.type]) = q * (100 * Factor[b.type])
    BY <1>1, TimesOfHundreds
  <1>4. q * (100 * Factor[b.type]) = (100 * q) * Factor[b.type]
    BY <1>1
  <1>5. QED
    BY <1>2, <1>3, <1>4

\* A Keno card pays the hundreds of its stake times the multiplier of the table; the
\* receipt announces that of the best line, or a franc less.
LEMMA KenoPays ==
  ASSUME NEW b, b.type = "KENO", b.spots \in 1..11, NEW q \in Nat, q > 0, b.amount = 100 * q,
         NEW m \in 0..b.spots
  PROVE  LET best == Times(b.amount, MaxMultiplier(b.spots)) IN
         /\ Payout(b, m) = RoundDown(q * Multiplier(b.spots, m))
         /\ q * Multiplier(b.spots, m) \in Nat
         /\ q * Multiplier(b.spots, m) <= best
         /\ Multiplier(b.spots, m) > 0 => q * Multiplier(b.spots, m) >= 81
         /\ m = b.spots => q * Multiplier(b.spots, m) = best
         /\ best \in Nat /\ best > b.amount
         /\ ReceiptGain(b) = best - (IF FlooredShort(b) THEN 1 ELSE 0)
  <1> DEFINE h == Multiplier(b.spots, m)
             k == KENO_MAX_MULTIPLIER[b.spots]
  <1>1. k \in Nat /\ k >= 101 /\ (h = 0 \/ h \in 81..k) /\ Multiplier(b.spots, b.spots) = k
        /\ MaxMultiplier(b.spots) = k
    BY KenoTables
  <1> HIDE DEF k
  <1>2. q * h \in Nat /\ q * h <= q * k /\ (h > 0 => q * h >= h) /\ q * 101 <= q * k
    <2> HIDE DEF h
    <2>1. QED
      BY <1>1, Scaled
  <1>3. m = b.spots => q * h = q * k
    BY <1>1
  <1> HIDE DEF h
  <1>4. Payout(b, m) = RoundDown(q * h)
    BY <1>1, TimesOfHundreds DEF Payout, h
  <1>5. ReceiptGain(b) = q * k - (IF FlooredShort(b) THEN 1 ELSE 0)
    BY <1>1, TimesOfHundreds DEF ReceiptGain, BetMultiplier, k
  <1>6. Times(b.amount, MaxMultiplier(b.spots)) = q * k
    BY <1>1, TimesOfHundreds
  <1>7. q * k \in Nat /\ q * k > b.amount
    BY <1>1, <1>2
  <1>8. QED
    BY <1>1, <1>2, <1>3, <1>4, <1>5, <1>6, <1>7 DEF h, k
-----------------------------------------------------------------------------
(* What lights up.                                                         *)

\* The red numbers of the wheel, on the screen and in the settlement.
LEMMA SameColours ==
  \A n \in 1..36 : /\ n \in RedOnScreen <=> n \in RED_NUMBERS
                   /\ n \notin RedOnScreen <=> n \in BLACK_NUMBERS
  BY DEF RedOnScreen, RED_NUMBERS, BLACK_NUMBERS

\* The sectors are the same too, and zero has no colour and no sector.
LEMMA NumbersOfWheel ==
  /\ RED_NUMBERS \subseteq 1..36 /\ BLACK_NUMBERS \subseteq 1..36
  /\ \A s \in 1..6 : SECTORS[s] = WHEEL_SECTORS[s] /\ SECTORS[s] \subseteq 1..36
  <1>1. RED_NUMBERS \subseteq 1..36 /\ BLACK_NUMBERS \subseteq 1..36
    BY DEF RED_NUMBERS, BLACK_NUMBERS
  <1>2. ASSUME NEW s \in 1..6
        PROVE  SECTORS[s] = WHEEL_SECTORS[s] /\ SECTORS[s] \subseteq 1..36
    <2>1. s \in {1, 2, 3, 4, 5, 6}
      OBVIOUS
    <2>2. SECTORS[s] = WHEEL_SECTORS[s]
      BY DEF SECTORS, WHEEL_SECTORS
    <2>3. SECTORS[s] \subseteq 1..36
      BY <2>1 DEF SECTORS
    <2>4. QED
      BY <2>2, <2>3
  <1>3. QED
    BY <1>1, <1>2

\* A group of cells.
LEMMA OnWheel ==
  ASSUME NEW S, S \subseteq 1..36
  PROVE  {n \in 1..36 : n \in S} = S /\ S \subseteq 0..36
  <1>1. \A n \in 1..36 : n \in 0..36
    OBVIOUS
  <1>2. QED
    BY <1>1

\* A zone lights the numbers its bet wins on: the zero only by itself.
LEMMA ZoneLights ==
  ASSUME NEW z \in Zones, z.type \notin {"SPLIT", "CORNER"}, Allow(mode, z)
  PROVE  Lit(mode, z) = WinsOn(z) /\ WinsOn(z) \subseteq 0..36
  <1> DEFINE t == z.target
  <1>1. z \in Cells \/ z \in OutsideZones
    BY DEF Zones, Handles, Zone
  <1>2. CASE z \in Cells
    <2>1. PICK n \in 0..36 : z = [type |-> "STRAIGHT", target |-> <<n>>]
      BY <1>2 DEF Cells, Zone
    <2>2. Lit(mode, z) = {n}
      BY <1>2, <2>1 DEF Lit, InHoveredGroup
    <2>3. WinsOn(z) = {n}
      BY <2>1 DEF WinsOn, SeqRange
    <2>4. QED
      BY <2>2, <2>3
  <1>3. CASE z \in OutsideZones
    <2>1. z \notin Cells
      BY <1>3 DEF OutsideZones, Cells, Zone
    <2>2. Lit(mode, z) = {n \in 1..36 : InHoveredGroup(z, n)}
      BY <2>1 DEF Lit
    <2>3. CASE z.type = "COLUMN"
      BY <1>3, <2>2, <2>3 DEF InHoveredGroup, WinsOn
    <2>4. CASE z.type = "DOZEN"
      <3>1. PICK d \in 1..3 : z = [type |-> "DOZEN", target |-> <<d>>]
        BY <1>3, <2>4 DEF OutsideZones, Zone
      <3>2. WinsOn(z) = (12 * d - 11)..(12 * d)
        BY <3>1 DEF WinsOn
      <3>3. \A n : InHoveredGroup(z, n) <=> n > 12 * (d - 1) /\ n <= 12 * d
        BY <3>1 DEF InHoveredGroup
      <3>4. \A n \in 1..36 : n > 12 * (d - 1) /\ n <= 12 * d <=> n \in (12 * d - 11)..(12 * d)
        OBVIOUS
      <3>5. (12 * d - 11)..(12 * d) \subseteq 1..36
        OBVIOUS
      <3>6. Lit(mode, z) = {n \in 1..36 : n \in (12 * d - 11)..(12 * d)}
        BY <2>2, <3>3, <3>4
      <3>7. QED
        BY <3>2, <3>5, <3>6, OnWheel
    <2>5. CASE z.type = "COLOR"
      <3>1. PICK c \in {RED, BLACK} : z = [type |-> "COLOR", target |-> <<c>>]
        BY <1>3, <2>5 DEF OutsideZones, Zone
      <3>2. WinsOn(z) = IF c = RED THEN RED_NUMBERS ELSE BLACK_NUMBERS
        BY <3>1 DEF WinsOn
      <3>3. \A n : InHoveredGroup(z, n) <=> ((n \in RedOnScreen) <=> c = RED)
        BY <3>1 DEF InHoveredGroup
      <3>4. CASE c = RED
        <4>1. Lit(mode, z) = {n \in 1..36 : n \in RED_NUMBERS}
          BY <2>2, <3>3, <3>4, SameColours
        <4>2. WinsOn(z) = RED_NUMBERS
          BY <3>2, <3>4
        <4>3. QED
          BY <4>1, <4>2, NumbersOfWheel, OnWheel
      <3>5. CASE c # RED
        <4>1. Lit(mode, z) = {n \in 1..36 : n \in BLACK_NUMBERS}
          BY <2>2, <3>3, <3>5, SameColours
        <4>2. WinsOn(z) = BLACK_NUMBERS
          BY <3>2, <3>5
        <4>3. QED
          BY <4>1, <4>2, NumbersOfWheel, OnWheel
      <3>6. QED
        BY <3>4, <3>5
    <2>6. CASE z.type = "EVEN_ODD"
      BY <1>3, <2>2, <2>6 DEF OutsideZones, Zone, InHoveredGroup, WinsOn, Parity, EVEN, ODD
    <2>7. CASE z.type \in {"HALF", "LINES"}
      <3>1. PICK l \in 1..36, h \in 1..36 : z.target = <<l, h>>
        BY <1>3, <2>7 DEF OutsideZones, Zone, Halves, Bands
      <3>2. WinsOn(z) = l..h
        BY <2>7, <3>1 DEF WinsOn
      <3>3. \A n : InHoveredGroup(z, n) <=> n >= l /\ n <= h
        BY <2>7, <3>1 DEF InHoveredGroup, Within
      <3>4. l..h \subseteq 1..36
        OBVIOUS
      <3>5. Lit(mode, z) = {n \in 1..36 : n >= l /\ n <= h}
        BY <2>2, <3>3
      <3>6. {n \in 1..36 : n >= l /\ n <= h} = l..h
        OBVIOUS
      <3>7. QED
        BY <3>2, <3>4, <3>5, <3>6
    <2>8. CASE z.type = "SECTOR"
      <3>1. PICK s \in 1..6 : z = [type |-> "SECTOR", target |-> <<s>>]
        BY <1>3, <2>8 DEF OutsideZones, Zone
      <3>2. WinsOn(z) = SECTORS[s] /\ \A n : InHoveredGroup(z, n) <=> n \in WHEEL_SECTORS[s]
        BY <3>1 DEF WinsOn, InHoveredGroup
      <3>3. SECTORS[s] = WHEEL_SECTORS[s] /\ SECTORS[s] \subseteq 1..36
        BY NumbersOfWheel
      <3>4. Lit(mode, z) = {n \in 1..36 : n \in SECTORS[s]}
        BY <2>2, <3>2, <3>3
      <3>5. QED
        BY <3>2, <3>3, <3>4
    <2>9. CASE z.type = "HALF_COLOR"
      <3>1. PICK h \in 1..2, c \in {RED, BLACK} : z = [type |-> "HALF_COLOR", target |-> <<h, c>>]
        BY <1>3, <2>9 DEF OutsideZones, Zone
      <3>2. WinsOn(z) = (IF h = 1 THEN 1..18 ELSE 19..36)
                        \cap (IF c = RED THEN RED_NUMBERS ELSE BLACK_NUMBERS)
        BY <3>1 DEF WinsOn
      <3>3. \A n : InHoveredGroup(z, n) <=> /\ IF h = 1 THEN n <= 18 ELSE n >= 19
                                            /\ (n \in RedOnScreen) <=> c = RED
        BY <3>1 DEF InHoveredGroup
      <3>4. QED
        BY <2>2, <3>2, <3>3, SameColours, NumbersOfWheel
    <2>10. CASE z.type = "MIRROR"
      <3>1. z.target \in Mirrors
        BY <1>3, <2>10 DEF OutsideZones, Zone
      <3>2. /\ WinsOn(z) = SeqRange(z.target)
            /\ \A n : InHoveredGroup(z, n) <=> n \in SeqRange(z.target)
        BY <2>10, <3>1 DEF WinsOn, InHoveredGroup, Mirrors
      <3>3. SeqRange(z.target) \subseteq 1..36
        BY <3>1 DEF SeqRange, Mirrors
      <3>4. QED
        BY <2>2, <3>2, <3>3
    <2>11. QED
      BY <1>3, <2>3, <2>4, <2>5, <2>6, <2>7, <2>8, <2>9, <2>10 DEF OutsideZones, Zone
  <1>4. QED
    BY <1>1, <1>2, <1>3
-----------------------------------------------------------------------------
(* The theorems about bets.                                                *)

\* Whatever is clicked in whatever order, the slip is empty or holds a line of the game
\* on the page for whole hundreds, and what is drawn belongs to the line that was sold.
THEOREM BetInvariant == BetSpec => []BetInv
  <1>1. BetInit => BetInv
    BY BetStarts
  <1>2. BetInv /\ [BetNext]_betVars => BetInv'
    BY BetStep
  <1>3. QED
    BY <1>1, <1>2, PTL DEF BetSpec

\* The page, the line of the slip and the result keep their types.
THEOREM BetTypeCorrect == BetSpec => []BetTypeOK
  <1>1. BetInv => BetTypeOK
    BY DEF BetInv
  <1>2. QED
    BY BetInvariant, <1>1, PTL

\* LitIsWhatPays: the numbers BettingGrid lights under the mouse are those rules.py pays
\* the bet on, in every mode and for whatever types are enabled.
THEOREM LightsArePaid == BetSpec => []LitIsWhatPays
  <1>1. ASSUME BetInv
        PROVE  LitIsWhatPays
    <2> SUFFICES ASSUME hovered # NoZone, hovered.type \notin {"SPLIT", "CORNER"},
                        Allow(mode, hovered)
                 PROVE  Lit(mode, hovered)
                        = {n \in 0..36 : Payout([type |-> hovered.type, target |-> hovered.target,
                                                 amount |-> 100], n) > 0}
      BY DEF LitIsWhatPays
    <2> DEFINE b == [type |-> hovered.type, target |-> hovered.target, amount |-> 100]
    <2>1. hovered \in Zones
      BY <1>1 DEF BetInv, BetTypeOK
    <2>2. Lit(mode, hovered) = WinsOn(hovered) /\ WinsOn(hovered) \subseteq 0..36
      BY <2>1, ZoneLights
    <2>3. WinsOn(b) = WinsOn(hovered)
      BY DEF WinsOn
    <2>4. b.type \in ZoneTypes /\ b.amount = 100
      BY <2>1, ZonesOfTable
    <2> HIDE DEF b
    <2>5. ASSUME NEW n
          PROVE  Payout(b, n) > 0 <=> n \in WinsOn(b)
      <3>1. /\ n \in WinsOn(b) => Payout(b, n) = RoundDown(b.amount * Factor[b.type])
            /\ n \notin WinsOn(b) => Payout(b, n) = 0
            /\ b.amount * Factor[b.type] \in Nat /\ b.amount * Factor[b.type] >= 100
        BY <2>4, RoulettePays
      <3>2. RoundDown(b.amount * Factor[b.type]) > 0
        BY <3>1, RoundedDown DEF PAYOUT_DENOMINATION
      <3>3. QED
        BY <3>1, <3>2
    <2>6. QED
      BY <2>2, <2>3, <2>5 DEF b
  <1>2. QED
    BY <1>1, BetInvariant, PTL

\* ReceiptGainIsPaid: calculate_payout and calculate_keno_payout pay at most what the
\* receipt of agent-web announced, but for the franc its Math.floor loses on some cards of 3
\* spots; that gain up to a coin when everything came out; and no other screen announces
\* more; for every stake of the pages, added any number of times.
THEOREM AnnouncedIsPaid == BetSpec => []ReceiptGainIsPaid
  <1>1. ASSUME BetInv
        PROVE  ReceiptGainIsPaid
    <2> SUFFICES ASSUME outcome # NotDrawn
                 PROVE  /\ \/ Payout(bet, outcome) <= ReceiptGain(bet)
                           \/ FlooredShort(bet) /\ Payout(bet, outcome) = ReceiptGain(bet) + 1
                        /\ \/ bet.type # "KENO" /\ outcome \in WinsOn(bet)
                           \/ bet.type = "KENO" /\ outcome = bet.spots
                           => ReceiptGain(bet) - Payout(bet, outcome) < PAYOUT_DENOMINATION
                        /\ {SlipGain(bet), AdminGain(bet)} \subseteq 0..ReceiptGain(bet)
                        /\ bet.type = "KENO" =>
                             Times(bet.amount, MaxMultiplier(bet.spots)) - ReceiptGain(bet)
                               = IF FlooredShort(bet) THEN 1 ELSE 0
      BY DEF ReceiptGainIsPaid
    <2>1. Line(bet) /\ outcome \in Results
      BY <1>1 DEF BetInv, NoBet
    <2>2. PICK q \in Nat : q > 0 /\ bet.amount = 100 * q
      BY <2>1 DEF Line
    <2>3. bet.amount \in Nat /\ bet.amount >= 100
      BY <2>2
    <2>4. CASE game = "keno"
      <3>1. bet.type = "KENO" /\ bet.spots \in 1..11 /\ outcome \in 0..bet.spots
        BY <2>1, <2>4 DEF Line, Results
      <3> DEFINE x == q * Multiplier(bet.spots, outcome)
                 best == Times(bet.amount, MaxMultiplier(bet.spots))
                 short == IF FlooredShort(bet) THEN 1 ELSE 0
      <3>2. /\ Payout(bet, outcome) = RoundDown(x) /\ x \in Nat
            /\ x <= best /\ best \in Nat /\ best > bet.amount
            /\ outcome = bet.spots => x = best
            /\ ReceiptGain(bet) = best - short
        BY <2>2, <3>1, KenoPays
      <3> HIDE DEF x, best
      <3>3. RoundDown(x) <= x /\ x - RoundDown(x) < PAYOUT_DENOMINATION /\ RoundDown(x) \in Nat
        BY <3>2, RoundedDown
      <3>4. SlipGain(bet) = bet.amount /\ AdminGain(bet) = bet.amount
        BY <2>3, <3>1 DEF SlipGain, AdminGain
      <3>5. best - ReceiptGain(bet) = short /\ ReceiptGain(bet) \in Nat
            /\ ReceiptGain(bet) >= bet.amount
        BY <2>3, <3>2
      <3>6. outcome = bet.spots =>
              ReceiptGain(bet) - Payout(bet, outcome) < PAYOUT_DENOMINATION
        BY <3>2, <3>3 DEF PAYOUT_DENOMINATION
      <3>7. \/ Payout(bet, outcome) <= ReceiptGain(bet)
            \/ FlooredShort(bet) /\ Payout(bet, outcome) = ReceiptGain(bet) + 1
        BY <3>2, <3>3
      <3>8. {SlipGain(bet), AdminGain(bet)} \subseteq 0..ReceiptGain(bet)
        BY <2>3, <3>4, <3>5
      <3>9. QED
        BY <3>1, <3>5, <3>6, <3>7, <3>8 DEF best
    <2>5. CASE game # "keno"
      <3>1. bet.type \in ZoneTypes
        BY <2>1, <2>5 DEF Line
      <3>2. bet.type # "KENO"
        BY <3>1 DEF ZoneTypes, ENABLED_BET_TYPES
      <3> DEFINE x == bet.amount * Factor[bet.type]
      <3>3. ReceiptGain(bet) = x /\ x \in Nat
        BY <2>2, <2>3, <3>1, RouletteGain, RoulettePays
      <3>4. bet.amount * 1 <= x
        BY <2>3, <3>1, FactorsAgree, Scaled
      <3>5. SlipGain(bet) \in {bet.amount * 1, x} /\ AdminGain(bet) \in {bet.amount * 1, x}
        BY <3>1, FactorsAgree DEF SlipGain, AdminGain
      <3>6. /\ outcome \in WinsOn(bet) => Payout(bet, outcome) = RoundDown(x)
            /\ outcome \notin WinsOn(bet) => Payout(bet, outcome) = 0
        BY <2>3, <3>1, RoulettePays
      <3> HIDE DEF x
      <3>7. RoundDown(x) <= x /\ x - RoundDown(x) < PAYOUT_DENOMINATION /\ RoundDown(x) \in Nat
        BY <3>3, RoundedDown
      <3>8. QED
        BY <2>3, <3>2, <3>3, <3>4, <3>5, <3>6, <3>7
    <2>6. QED
      BY <2>4, <2>5
  <1>2. QED
    BY <1>1, BetInvariant, PTL

\* WinningLinePays: _round_down_to_denomination never leaves a winning line without money,
\* for every stake of the pages, added any number of times.
THEOREM WinnersArePaid == BetSpec => []WinningLinePays
  <1>1. ASSUME BetInv
        PROVE  WinningLinePays
    <2> SUFFICES ASSUME outcome # NotDrawn,
                        IF bet.type = "KENO" THEN Multiplier(bet.spots, outcome) > 0
                        ELSE outcome \in WinsOn(bet)
                 PROVE  Payout(bet, outcome) > 0
      BY DEF WinningLinePays
    <2>1. Line(bet) /\ outcome \in Results
      BY <1>1 DEF BetInv, NoBet
    <2>2. PICK q \in Nat : q > 0 /\ bet.amount = 100 * q
      BY <2>1 DEF Line
    <2>3. bet.amount \in Nat /\ bet.amount >= 100
      BY <2>2
    <2>4. \E x \in Nat : x >= PAYOUT_DENOMINATION /\ Payout(bet, outcome) = RoundDown(x)
      <3>1. CASE game = "keno"
        <4>1. bet.type = "KENO" /\ bet.spots \in 1..11 /\ outcome \in 0..bet.spots
          BY <2>1, <3>1 DEF Line, Results
        <4>2. /\ Payout(bet, outcome) = RoundDown(q * Multiplier(bet.spots, outcome))
              /\ q * Multiplier(bet.spots, outcome) \in Nat
              /\ q * Multiplier(bet.spots, outcome) >= 81
          BY <2>2, <4>1, KenoPays
        <4>3. QED
          BY <4>2 DEF PAYOUT_DENOMINATION
      <3>2. CASE game # "keno"
        <4>1. bet.type \in ZoneTypes /\ bet.type # "KENO"
          BY <2>1, <3>2 DEF Line, ZoneTypes, ENABLED_BET_TYPES
        <4>2. /\ Payout(bet, outcome) = RoundDown(bet.amount * Factor[bet.type])
              /\ bet.amount * Factor[bet.type] \in Nat
              /\ bet.amount * Factor[bet.type] >= 100
          BY <2>3, <4>1, RoulettePays
        <4>3. QED
          BY <4>2 DEF PAYOUT_DENOMINATION
      <3>3. QED
        BY <3>1, <3>2
    <2>5. QED
      BY <2>4, RoundedDown
  <1>2. QED
    BY <1>1, BetInvariant, PTL
=============================================================================
