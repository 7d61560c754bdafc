------------------------- MODULE TicketDesk_proofs --------------------------
(***************************************************************************)
(* Proofs about TicketDesk, for any number of tickets, and of reads and    *)
(* payouts under way.                                                      *)
(*                                                                         *)
(* A payout the window still waits for is alone (PayButton): the button is *)
(* free again only when its outcome was heard, or given up.  The others    *)
(* were given up, which counted as one outcome not heard.  So Budget books *)
(* a debit that may still come from one of them at once, and what is left  *)
(* beyond the outcomes not heard is one debit: that of the payout which is *)
(* waited for, or of the one that made the ticket PAID; and no payout that *)
(* comes later passes the check of a PAID ticket.                          *)
(***************************************************************************)
EXTENDS TicketDesk, FiniteSetTheorems, TLAPS

Slots == 1..MaxPays
PayRecs == [ticket : Tickets \cup {NoTicket}, live : BOOLEAN,
            state : {"none", "sent", "checked", "debited", "ok", "refused"}]
GetRecs == [kind : Kinds, ticket : Tickets, status : Statuses \cup {"asked"}]
Views == [ticket : Tickets \cup {NoTicket}, status : Statuses]

\* Polls are about the receipt that is shown, and what is shown is a ticket.
Screens ==
  /\ ReceiptIsLatestSale
  /\ \A g \in gets : g.kind = "poll" => g.ticket = receipt.ticket
  /\ receipt.status # "none" => receipt.ticket \in Tickets
  /\ view.status # "none" => view.ticket \in Tickets

\* As long as a payout is waited for, or its ticket is read again, the button is disabled.
PayButton ==
  /\ \A p \in Slots : pays[p].live \/ pays[p].state # "none" => pays[p].ticket \in Tickets
  /\ \A p, q \in Slots : pays[p].live /\ pays[q].live => p = q
  /\ \A p \in Slots : pays[p].live => paying /\ \A g \in gets : g.kind # "confirm"
  /\ \A g \in gets : g.kind = "confirm" => paying
  /\ \A g, h \in gets : g.kind = "confirm" /\ h.kind = "confirm" => g = h

\* A payout of t nobody waits for, which may still debit the register.
Loose(pay, t) == ~pay.live /\ pay.ticket = t /\ pay.state \in {"sent", "checked"}

LooseOnes(t) == {p \in Slots : Loose(pays[p], t)}

At(pay, t, state) == pay.live /\ pay.ticket = t /\ pay.state = state

\* The one debit of t that is not excused by an outcome nobody heard may have come.
Spent(t) ==
  \/ \E p \in Slots : At(pays[p], t, "debited")
  \/ row[t] = "PAID" /\ \A p \in Slots : ~At(pays[p], t, "checked")

Budget ==
  \A t \in Tickets :
    paid[t] + Cardinality(LooseOnes(t)) <= unheard[t] + (IF Spent(t) THEN 1 ELSE 0)

IInv == TypeOK /\ Screens /\ PayButton /\ Budget
-----------------------------------------------------------------------------
(* Counting.                                                               *)

LEMMA LooseCounted ==
  ASSUME NEW t
  PROVE  IsFiniteSet(LooseOnes(t)) /\ Cardinality(LooseOnes(t)) \in Nat
  <1>1. IsFiniteSet(Slots)
    BY DeskAssumption, FS_Interval DEF Slots
  <1>2. IsFiniteSet(LooseOnes(t))
    BY <1>1, FS_Subset DEF LooseOnes
  <1>3. QED
    BY <1>2, FS_CardinalityType

Bit(b) == IF b THEN 1 ELSE 0

\* One payout changes.
LEMMA OnePayChanges ==
  ASSUME pays \in [Slots -> PayRecs], NEW t, NEW p \in Slots, NEW pay \in PayRecs,
         pays' = [pays EXCEPT ![p] = pay]
  PROVE  Cardinality(LooseOnes(t))' =
           Cardinality(LooseOnes(t)) - Bit(Loose(pays[p], t)) + Bit(Loose(pay, t))
  <1> DEFINE old == LooseOnes(t)
             new == LooseOnes(t)'
  <1>1. /\ p \in new <=> Loose(pay, t)
        /\ p \in old <=> Loose(pays[p], t)
        /\ \A q \in Slots \ {p} : q \in new <=> q \in old
    BY DEF LooseOnes
  <1>2. new \subseteq Slots /\ old \subseteq Slots
    BY DEF LooseOnes
  <1>3. IsFiniteSet(old) /\ Cardinality(old) \in Nat
    BY LooseCounted
  <1>4. CASE Loose(pay, t) /\ ~Loose(pays[p], t)
    <2>1. new = old \cup {p} /\ p \notin old
      BY <1>1, <1>2, <1>4
    <2>2. Cardinality(new) = Cardinality(old) + 1
      BY <1>3, <2>1, FS_AddElement
    <2>3. QED
      BY <1>3, <1>4, <2>2 DEF Bit
  <1>5. CASE ~Loose(pay, t) /\ Loose(pays[p], t)
    <2>1. new = old \ {p} /\ p \in old
      BY <1>1, <1>2, <1>5
    <2>2. Cardinality(new) = Cardinality(old) - 1
      BY <1>3, <2>1, FS_RemoveElement
    <2>3. QED
      BY <1>3, <1>5, <2>2 DEF Bit
  <1>6. CASE Loose(pay, t) <=> Loose(pays[p], t)
    <2>1. new = old
      BY <1>1, <1>2, <1>6
    <2>2. QED
      BY <1>3, <1>6, <2>1 DEF Bit
  <1>7. QED
    BY <1>4, <1>5, <1>6

\* Neither payouts nor money: tickets that are PAID stay so, no other becomes PAID.
LEMMA NoMoneyStep ==
  ASSUME IInv, UNCHANGED <<pays, paid, unheard>>,
         \A t \in Tickets : row'[t] = "PAID" <=> row[t] = "PAID"
  PROVE  Budget'
  <1>1. \A t \in Tickets : LooseOnes(t)' = LooseOnes(t) /\ (Spent(t)' <=> Spent(t))
    BY DEF LooseOnes, Spent
  <1>2. QED
    BY <1>1 DEF IInv, Budget

\* A payout nobody waits for changes, and what it books does not get more.
LEMMA LooseStep ==
  ASSUME IInv, NEW p \in Slots, NEW pay \in PayRecs, pays' = [pays EXCEPT ![p] = pay],
         ~pays[p].live, ~pay.live,
         \A t \in Tickets : row'[t] = row[t] \/ row'[t] = "PAID",
         paid' \in [Tickets -> Nat], unheard' \in [Tickets -> Nat],
         \A t \in Tickets :
           paid'[t] + Bit(Loose(pay, t)) + unheard[t]
             <= paid[t] + Bit(Loose(pays[p], t)) + unheard'[t]
  PROVE  Budget'
  <1>1. pays \in [Slots -> PayRecs] /\ paid \in [Tickets -> Nat] /\ unheard \in [Tickets -> Nat]
    BY DEF IInv, TypeOK, Slots, PayRecs
  <1>2. SUFFICES ASSUME NEW t \in Tickets
                 PROVE  paid'[t] + Cardinality(LooseOnes(t))'
                          <= unheard'[t] + (IF Spent(t)' THEN 1 ELSE 0)
    BY DEF Budget
  <1>3. Cardinality(LooseOnes(t))' =
          Cardinality(LooseOnes(t)) - Bit(Loose(pays[p], t)) + Bit(Loose(pay, t))
    BY <1>1, OnePayChanges
  <1>4. Spent(t) => Spent(t)'
    <2>1. \A q \in Slots, s \in {"checked", "debited"} :
            At(pays'[q], t, s) <=> At(pays[q], t, s)
      BY <1>1 DEF At
    <2>2. QED
      BY <2>1 DEF Spent
  <1>5. paid[t] + Cardinality(LooseOnes(t)) <= unheard[t] + (IF Spent(t) THEN 1 ELSE 0)
    BY DEF IInv, Budget
  <1>6. /\ paid[t] \in Nat /\ paid'[t] \in Nat /\ unheard[t] \in Nat /\ unheard'[t] \in Nat
        /\ Cardinality(LooseOnes(t)) \in Nat
        /\ Bit(Loose(pay, t)) \in {0, 1} /\ Bit(Loose(pays[p], t)) \in {0, 1}
        /\ paid'[t] + Bit(Loose(pay, t)) + unheard[t]
             <= paid[t] + Bit(Loose(pays[p], t)) + unheard'[t]
    BY <1>1, LooseCounted DEF Bit
  <1> DEFINE c == Cardinality(LooseOnes(t))
             d == Cardinality(LooseOnes(t))'
             x == Bit(Loose(pay, t))
             y == Bit(Loose(pays[p], t))
  <1> HIDE DEF c, d, x, y
  <1>7. QED
    BY <1>3, <1>4, <1>5, <1>6 DEF c, d, x, y

\* The payout that is waited for changes: only its ticket's budget is concerned.
LEMMA LiveStep ==
  ASSUME IInv, NEW p \in Slots, NEW pay \in PayRecs, pays' = [pays EXCEPT ![p] = pay],
         pays[p].live \/ ~paying,
         pay.live \/ pays[p].live,
         NEW u \in Tickets, pays[p].ticket \in {u, NoTicket}, pay.ticket \in {u, NoTicket},
         ~Loose(pays[p], u),
         \A t \in Tickets \ {u} : row'[t] = row[t],
         paid' \in [Tickets -> Nat], unheard' \in [Tickets -> Nat],
         \A t \in Tickets \ {u} : paid'[t] = paid[t] /\ unheard'[t] = unheard[t],
         paid'[u] + Bit(Loose(pay, u)) + unheard[u]
            + Bit(At(pays[p], u, "debited")
                    \/ (row[u] = "PAID" /\ ~At(pays[p], u, "checked")))
           <= paid[u] + unheard'[u]
            + Bit(At(pay, u, "debited") \/ (row'[u] = "PAID" /\ ~At(pay, u, "checked")))
  PROVE  Budget'
  <1>1. /\ pays \in [Slots -> PayRecs] /\ paid \in [Tickets -> Nat]
        /\ unheard \in [Tickets -> Nat] /\ NoTicket \notin Tickets
    BY DeskAssumption DEF IInv, TypeOK, Slots, PayRecs
  <1>2. \A q \in Slots : pays[q].live => q = p
    BY DEF IInv, PayButton
  <1>3. \A q \in Slots : pays'[q] = IF q = p THEN pay ELSE pays[q]
    BY <1>1
  <1>4. ASSUME NEW t \in Tickets
        PROVE  /\ Spent(t) <=> \/ At(pays[p], t, "debited")
                               \/ row[t] = "PAID" /\ ~At(pays[p], t, "checked")
               /\ Spent(t)' <=> \/ At(pay, t, "debited")
                                \/ row'[t] = "PAID" /\ ~At(pay, t, "checked")
    <2>1. \A q \in Slots, s \in {"checked", "debited"} :
            /\ At(pays[q], t, s) => q = p
            /\ At(pays'[q], t, s) => q = p
      BY <1>2, <1>3 DEF At
    <2>2. QED
      BY <1>3, <2>1 DEF Spent
  <1>5. SUFFICES ASSUME NEW t \in Tickets
                 PROVE  paid'[t] + Cardinality(LooseOnes(t))'
                          <= unheard'[t] + (IF Spent(t)' THEN 1 ELSE 0)
    BY DEF Budget
  <1> DEFINE c == Cardinality(LooseOnes(t))
             d == Cardinality(LooseOnes(t))'
  <1>6. d = c - Bit(Loose(pays[p], t)) + Bit(Loose(pay, t))
    BY <1>1, OnePayChanges
  <1>7. paid[t] + c <= unheard[t] + (IF Spent(t) THEN 1 ELSE 0)
    BY DEF IInv, Budget
  <1>8. /\ paid[t] \in Nat /\ paid'[t] \in Nat /\ unheard[t] \in Nat /\ unheard'[t] \in Nat
        /\ c \in Nat
    BY <1>1, LooseCounted
  <1> HIDE DEF c, d
  <1>9. CASE t # u
    <2>1. /\ ~Loose(pays[p], t) /\ ~Loose(pay, t)
          /\ \A s : ~At(pays[p], t, s) /\ ~At(pay, t, s)
      BY <1>1, <1>9 DEF Loose, At
    <2>2. d = c /\ (Spent(t)' <=> Spent(t)) /\ paid'[t] = paid[t] /\ unheard'[t] = unheard[t]
      BY <1>4, <1>6, <1>8, <1>9, <2>1 DEF Bit
    <2>3. QED
      BY <1>7, <2>2 DEF d
  <1>10. CASE t = u
    <2> DEFINE spent == Bit(Spent(u))
               spending == Bit(Spent(u)')
               x == Bit(Loose(pay, u))
    <2>1. d = c + x /\ x \in {0, 1} /\ spent \in {0, 1} /\ spending \in {0, 1}
      BY <1>6, <1>8, <1>10 DEF Bit
    <2>2. paid'[u] + x + unheard[u] + spent <= paid[u] + unheard'[u] + spending
      BY <1>4 DEF Bit
    <2>3. paid[u] + c <= unheard[u] + spent
      BY <1>7, <1>10 DEF Bit
    <2>4. spending = IF Spent(t)' THEN 1 ELSE 0
      BY <1>10 DEF Bit
    <2> HIDE DEF spent, spending, x
    <2>5. QED
      BY <1>8, <1>10, <2>1, <2>2, <2>3, <2>4 DEF d
  <1>11. QED
    BY <1>9, <1>10
-----------------------------------------------------------------------------
(* Screens and reads.                                                      *)

\* The types, by name.
LEMMA Typed ==
  ASSUME TypeOK
  PROVE  /\ row \in [Tickets -> Statuses]
         /\ paid \in [Tickets -> Nat] /\ unheard \in [Tickets -> Nat]
         /\ page \in Pages /\ receipt \in Views /\ view \in Views
         /\ latest \in Tickets \cup {NoTicket} /\ loading \in BOOLEAN /\ paying \in BOOLEAN
         /\ gets \subseteq GetRecs /\ pays \in [Slots -> PayRecs]
         /\ list \in [Tickets -> Statuses]
         /\ fetches \subseteq [state : {"asked", "read"}, rows : [Tickets -> Statuses]]
  BY DEF TypeOK, Views, GetRecs, Slots, PayRecs

\* The button is as it was, and no ticket is read again that was not before.
LEMMA SameButton ==
  ASSUME IInv, UNCHANGED <<pays, paying>>, \A g \in gets' : g.kind = "confirm" => g \in gets
  PROVE  PayButton'
  BY DEF IInv, PayButton

\* A step of a screen: what it changes keeps its type, the rest is as before.
LEMMA ScreenStep ==
  ASSUME IInv, UNCHANGED <<row, paid, unheard, page, pays, list, fetches>>,
         receipt' \in Views, view' \in Views, latest' \in Tickets \cup {NoTicket},
         loading' \in BOOLEAN, paying' \in BOOLEAN, gets' \subseteq GetRecs,
         Screens', PayButton'
  PROVE  IInv'
  <1>1. TypeOK'
    BY DEF IInv, TypeOK, Views, GetRecs
  <1>2. Budget'
    BY NoMoneyStep
  <1>3. QED
    BY <1>1, <1>2 DEF IInv

LEMMA ClosedView == Closed \in Views /\ Closed.status = "none" /\ Closed.ticket = NoTicket
  BY DEF Closed, Views, Statuses

\* Settle and Sale: no ticket becomes PAID.
LEMMA SettleStep ==
  ASSUME IInv, NEW t \in Tickets, Settle(t)
  PROVE  IInv'
  <1>1. UNCHANGED <<paid, unheard, page, receipt, latest, view, loading, paying, gets, pays,
                    list, fetches>>
    BY DEF Settle, desk, sales
  <1>2. row' \in [Tickets -> Statuses] /\ \A u \in Tickets : row'[u] = "PAID" <=> row[u] = "PAID"
    BY Typed DEF Settle, IInv, Statuses
  <1>3. TypeOK'
    BY <1>1, <1>2 DEF IInv, TypeOK
  <1>4. Screens' /\ PayButton'
    BY <1>1, SameButton DEF IInv, Screens, ReceiptIsLatestSale
  <1>5. Budget'
    BY <1>1, <1>2, NoMoneyStep
  <1>6. QED
    BY <1>3, <1>4, <1>5 DEF IInv

LEMMA SaleStep ==
  ASSUME IInv, NEW t \in Tickets, Sale(t)
  PROVE  IInv'
  <1>1. UNCHANGED <<paid, unheard, page, view, loading, paying, gets, pays, list, fetches>>
    BY DEF Sale, sales
  <1>2. /\ row' \in [Tickets -> Statuses] /\ \A u \in Tickets : row'[u] = "PAID" <=> row[u] = "PAID"
        /\ receipt' \in Views /\ receipt'.ticket = t /\ latest' = t
    BY Typed DEF Sale, IInv, Statuses, Views, Shown
  <1>3. \A g \in gets : g.kind # "poll"
    BY Typed, ClosedView, DeskAssumption DEF Sale, IInv, Screens, GetRecs
  <1>4. TypeOK'
    BY <1>1, <1>2 DEF IInv, TypeOK, Views
  <1>5. Screens' /\ PayButton'
    BY <1>1, <1>2, <1>3, SameButton DEF IInv, Screens, ReceiptIsLatestSale
  <1>6. Budget'
    BY <1>1, <1>2, NoMoneyStep
  <1>7. QED
    BY <1>4, <1>5, <1>6 DEF IInv

LEMMA ReadStep ==
  ASSUME IInv, NEW g \in gets, Read(g)
  PROVE  IInv'
  <1> DEFINE answered == [g EXCEPT !.status = row[g.ticket]]
  <1>1. /\ gets' = (gets \ {g}) \cup {answered}
        /\ UNCHANGED <<row, paid, unheard, page, receipt, latest, view, loading, paying, pays,
                       list, fetches>>
    BY DEF Read, server, desk, sales
  <1>2. /\ answered \in GetRecs /\ answered.kind = g.kind /\ answered.ticket = g.ticket
    BY Typed DEF IInv, GetRecs
  <1> HIDE DEF answered
  <1>3. gets' \subseteq GetRecs
    BY <1>1, <1>2, Typed DEF IInv
  <1>4. Screens' /\ PayButton'
    BY <1>1, <1>2 DEF IInv, Screens, ReceiptIsLatestSale, PayButton
  <1>5. QED
    BY <1>1, <1>3, <1>4, Typed, ScreenStep DEF IInv

\* Render, CloseReceipt and CloseView drop things.
LEMMA DropStep ==
  ASSUME IInv, Render \/ CloseReceipt \/ CloseView
  PROVE  IInv'
  <1>1. /\ UNCHANGED <<row, paid, unheard, page, loading, paying, pays, list, fetches>>
        /\ gets' \in {gets, WithoutPolls(gets)} /\ gets' \subseteq gets
        /\ \/ UNCHANGED <<receipt, latest>>
           \/ receipt' = Closed /\ latest' = NoTicket /\ \A g \in gets' : g.kind # "poll"
        /\ view' \in {view, Closed}
    BY DEF Render, CloseReceipt, CloseView, server, desk, sales, WithoutPolls
  <1>2. Screens'
    BY <1>1, ClosedView DEF IInv, Screens, ReceiptIsLatestSale
  <1>3. PayButton'
    BY <1>1, SameButton
  <1>4. QED
    BY <1>1, <1>2, <1>3, Typed, ClosedView, ScreenStep DEF IInv

\* Asking for a ticket.
LEMMA AskStep ==
  ASSUME IInv, NEW t \in Tickets, NEW kind \in Kinds \ {"confirm"},
         kind = "poll" => t = receipt.ticket,
         Ask(kind, t), UNCHANGED <<server, page, receipt, latest, paying, pays, sales>>,
         view' \in {view, Closed}, loading' \in BOOLEAN
  PROVE  IInv'
  <1> DEFINE g == [kind |-> kind, ticket |-> t, status |-> "asked"]
  <1>1. g \in GetRecs /\ g.kind = kind /\ g.ticket = t /\ gets' = gets \cup {g}
    BY DEF GetRecs, Ask
  <1> HIDE DEF g
  <1>2. UNCHANGED <<row, paid, unheard, page, receipt, latest, paying, pays, list, fetches>>
    BY DEF server, sales
  <1>3. Screens'
    BY <1>1, <1>2, ClosedView DEF IInv, Screens, ReceiptIsLatestSale
  <1>4. PayButton'
    BY <1>1, <1>2, SameButton
  <1>5. QED
    BY <1>1, <1>2, <1>3, <1>4, Typed, ClosedView, ScreenStep DEF IInv

LEMMA AskingSteps ==
  ASSUME IInv, Poll \/ \E t \in Tickets : Search(t) \/ Sibling(t) \/ Open(t)
  PROVE  IInv'
  <1>1. loading \in BOOLEAN /\ page \in Pages
    BY Typed DEF IInv
  <1>2. CASE Poll
    <2>1. receipt.ticket \in Tickets /\ Ask("poll", receipt.ticket)
      BY <1>2 DEF Poll, IInv, Screens
    <2>2. UNCHANGED <<server, page, receipt, latest, view, loading, paying, pays, sales>>
      BY <1>2 DEF Poll, desk
    <2>3. "poll" \in Kinds \ {"confirm"}
      BY DEF Kinds
    <2>4. QED
      BY <1>1, <2>1, <2>2, <2>3, AskStep
  <1>3. ASSUME NEW t \in Tickets, Search(t)
        PROVE  IInv'
    <2>1. /\ Ask("look", t) /\ view' = Closed /\ loading' = TRUE
          /\ UNCHANGED <<server, page, receipt, latest, paying, pays, sales>>
      BY <1>3 DEF Search
    <2>2. "look" \in Kinds \ {"confirm"} /\ "look" # "poll"
      BY DEF Kinds
    <2>3. QED
      BY <2>1, <2>2, AskStep
  <1>4. ASSUME NEW t \in Tickets, Sibling(t)
        PROVE  IInv'
    <2>1. /\ \E k \in {"look", "open"} : Ask(k, t)
          /\ view' = view /\ loading' \in BOOLEAN
          /\ UNCHANGED <<server, page, receipt, latest, paying, pays, sales>>
      BY <1>1, <1>4 DEF Sibling
    <2>2. {"look", "open"} \subseteq Kinds \ {"confirm"} /\ "poll" \notin {"look", "open"}
      BY DEF Kinds
    <2>3. QED
      BY <2>1, <2>2, AskStep
  <1>5. ASSUME NEW t \in Tickets, Open(t)
        PROVE  IInv'
    <2>1. /\ Ask("open", t)
          /\ UNCHANGED <<server, page, receipt, latest, view, loading, paying, pays, sales>>
      BY <1>5 DEF Open, desk
    <2>2. "open" \in Kinds \ {"confirm"} /\ "open" # "poll"
      BY DEF Kinds
    <2>3. QED
      BY <1>1, <2>1, <2>2, AskStep
  <1>6. QED
    BY <1>2, <1>3, <1>4, <1>5

\* A poll that is answered is about the receipt that is shown.
LEMMA PollAnswerStep ==
  ASSUME IInv, NEW g \in gets, PollAnswer(g)
  PROVE  IInv'
  <1>1. /\ g \in GetRecs /\ g.ticket \in Tickets
        /\ g.ticket = receipt.ticket /\ g.status \in Statuses
    BY Typed DEF PollAnswer, IInv, Screens, GetRecs
  <1>2. /\ UNCHANGED <<row, paid, unheard, page, latest, view, loading, paying, pays, list, fetches>>
        /\ gets' \subseteq gets
        /\ receipt' \in {receipt, Shown(g.ticket, g.status)}
    BY DEF PollAnswer, server, sales
  <1>3. /\ receipt'.ticket = receipt.ticket /\ receipt' \in Views
        /\ receipt'.status # "none" => receipt'.ticket \in Tickets
    BY <1>1, <1>2, Typed DEF Shown, Views, IInv, Screens
  <1>4. Screens'
    BY <1>2, <1>3 DEF IInv, Screens, ReceiptIsLatestSale
  <1>5. PayButton'
    BY <1>2, SameButton
  <1>6. QED
    BY <1>2, <1>3, <1>4, <1>5, Typed, ScreenStep DEF IInv

\* The other answers, and failures.
LEMMA AnswerStep ==
  ASSUME IInv, NEW g \in gets, Answer(g) \/ GetFails(g)
  PROVE  IInv'
  <1>1. g \in GetRecs /\ g.ticket \in Tickets /\ (Answer(g) => g.status \in Statuses)
    BY Typed DEF Answer, IInv, GetRecs
  <1>2. /\ UNCHANGED <<row, paid, unheard, page, receipt, latest, pays, list, fetches>>
        /\ gets' = gets \ {g}
        /\ loading' = (loading /\ g.kind # "look") /\ paying' = (paying /\ g.kind # "confirm")
        /\ \/ view' \in {view, Closed}
           \/ g.status \in Statuses /\ view' = Shown(g.ticket, g.status)
    BY <1>1 DEF Answer, GetFails, Freed, server, sales
  <1>3. view' \in Views /\ (view'.status # "none" => view'.ticket \in Tickets)
    BY <1>1, <1>2, Typed, ClosedView DEF Shown, Views, IInv, Screens
  <1>4. Screens'
    BY <1>2, <1>3 DEF IInv, Screens, ReceiptIsLatestSale
  <1>5. PayButton'
    BY <1>2 DEF IInv, PayButton
  <1>6. loading' \in BOOLEAN /\ paying' \in BOOLEAN /\ gets' \subseteq GetRecs
    BY <1>2, Typed DEF IInv
  <1>7. QED
    BY <1>2, <1>3, <1>4, <1>5, <1>6, Typed, ScreenStep DEF IInv

\* The list of sales.
LEMMA ListStep ==
  ASSUME IInv, Fetch \/ FetchRead \/ FetchAnswer
  PROVE  IInv'
  <1>1. UNCHANGED <<row, paid, unheard, page, receipt, latest, view, loading, paying, gets, pays>>
    BY DEF Fetch, FetchRead, FetchAnswer, server, desk
  <1>2. /\ row \in [Tickets -> Statuses] /\ list \in [Tickets -> Statuses]
        /\ fetches \subseteq [state : {"asked", "read"}, rows : [Tickets -> Statuses]]
    BY Typed DEF IInv
  <1>3. Asked \in [state : {"asked", "read"}, rows : [Tickets -> Statuses]]
    BY DEF Asked, Unread, Statuses
  <1>4. /\ list' \in [Tickets -> Statuses]
        /\ fetches' \subseteq [state : {"asked", "read"}, rows : [Tickets -> Statuses]]
    BY <1>2, <1>3 DEF Fetch, FetchRead, FetchAnswer
  <1>5. TypeOK'
    BY <1>1, <1>4 DEF IInv, TypeOK
  <1>6. Screens' /\ PayButton'
    BY <1>1 DEF IInv, Screens, ReceiptIsLatestSale, PayButton
  <1>7. Budget'
    BY <1>1, NoMoneyStep
  <1>8. QED
    BY <1>5, <1>6, <1>7 DEF IInv
-----------------------------------------------------------------------------
(* Payouts.                                                                *)

\* A payout changes and nothing on the screens does; it is not waited for if it was not.
LEMMA PayStep ==
  ASSUME IInv, NEW p \in Slots, NEW pay \in PayRecs, pays' = [pays EXCEPT ![p] = pay],
         pay.live => pays[p].live, pay.live \/ pay.state # "none" => pay.ticket \in Tickets,
         UNCHANGED <<desk, gets, sales>>,
         row' \in [Tickets -> Statuses], paid' \in [Tickets -> Nat],
         unheard' \in [Tickets -> Nat], Budget'
  PROVE  IInv'
  <1>1. pays \in [Slots -> PayRecs]
    BY Typed DEF IInv
  <1>2. pays' \in [Slots -> PayRecs] /\ \A q \in Slots : pays'[q] = IF q = p THEN pay ELSE pays[q]
    BY <1>1
  <1>3. UNCHANGED <<page, receipt, latest, view, loading, paying, gets, list, fetches>>
    BY DEF desk, sales
  <1>4. TypeOK'
    BY <1>2, <1>3 DEF IInv, TypeOK, Slots, PayRecs
  <1>5. Screens' /\ PayButton'
    BY <1>2, <1>3 DEF IInv, Screens, ReceiptIsLatestSale, PayButton
  <1>6. QED
    BY <1>4, <1>5 DEF IInv

\* The steps of ticket-service, for payouts that are waited for and for others.
LEMMA ServiceStep ==
  ASSUME IInv, NEW p \in Slots,
         Check(p) \/ Debit(p) \/ DebitFails(p) \/ Commit(p) \/ CommitFails(p)
  PROVE  IInv'
  <1> DEFINE old == pays[p]
             u == old.ticket
  <1>1. /\ pays \in [Slots -> PayRecs] /\ old \in PayRecs
        /\ row \in [Tickets -> Statuses] /\ paid \in [Tickets -> Nat]
        /\ unheard \in [Tickets -> Nat]
    BY Typed DEF IInv
  <1>2. u \in Tickets
    BY DEF Check, Debit, DebitFails, Commit, CommitFails, IInv, PayButton
  <1>3. \A state \in {"checked", "debited", "ok", "refused"} :
          /\ [old EXCEPT !.state = state] \in PayRecs
          /\ [old EXCEPT !.state = state].state = state
          /\ [old EXCEPT !.state = state].live = old.live
          /\ [old EXCEPT !.state = state].ticket = u
    BY <1>1 DEF PayRecs
  <1>4. \A state : PayState(p, state) => pays' = [pays EXCEPT ![p] = [old EXCEPT !.state = state]]
    BY <1>1 DEF PayState
  <1>5. PICK state \in {"checked", "debited", "ok", "refused"} :
          /\ PayState(p, state)
          /\ UNCHANGED <<desk, gets, sales>>
          /\ \/ /\ old.state = "sent" /\ UNCHANGED server
                /\ IF row[u] = "WON" THEN state = "checked" ELSE state = "refused"
             \/ /\ old.state = "checked" /\ state = "debited"
                /\ paid' = [paid EXCEPT ![u] = @ + 1] /\ UNCHANGED <<row, unheard>>
             \/ old.state = "checked" /\ state = "refused" /\ UNCHANGED server
             \/ /\ old.state = "debited" /\ state = "ok"
                /\ row' = [row EXCEPT ![u] = "PAID"] /\ UNCHANGED <<paid, unheard>>
             \/ /\ old.state = "debited" /\ state = "refused"
                /\ unheard' = [unheard EXCEPT ![u] = @ + 1] /\ UNCHANGED <<row, paid>>
    BY DEF Check, Debit, DebitFails, Commit, CommitFails, Payable, Mishap
  <1> DEFINE new == [old EXCEPT !.state = state]
  <1>6. /\ new \in PayRecs /\ new.state = state /\ new.live = old.live /\ new.ticket = u
        /\ pays' = [pays EXCEPT ![p] = new]
    BY <1>3, <1>4, <1>5
  <1> HIDE DEF new
  <1>7. /\ row' \in [Tickets -> Statuses] /\ paid' \in [Tickets -> Nat]
        /\ unheard' \in [Tickets -> Nat]
        /\ \A t \in Tickets \ {u} :
             row'[t] = row[t] /\ paid'[t] = paid[t] /\ unheard'[t] = unheard[t]
        /\ row'[u] \in {row[u], "PAID"}
    BY <1>1, <1>2, <1>5 DEF server, Statuses
  <1>8. /\ row[u] \in Statuses /\ paid[u] \in Nat /\ unheard[u] \in Nat
        /\ \/ old.state = "sent" /\ state = "checked" /\ row[u] = "WON"
              /\ row'[u] = row[u] /\ paid'[u] = paid[u] /\ unheard'[u] = unheard[u]
           \/ old.state = "sent" /\ state = "refused"
              /\ row'[u] = row[u] /\ paid'[u] = paid[u] /\ unheard'[u] = unheard[u]
           \/ old.state = "checked" /\ state = "debited"
              /\ row'[u] = row[u] /\ paid'[u] = paid[u] + 1 /\ unheard'[u] = unheard[u]
           \/ old.state = "checked" /\ state = "refused"
              /\ row'[u] = row[u] /\ paid'[u] = paid[u] /\ unheard'[u] = unheard[u]
           \/ old.state = "debited" /\ state = "ok"
              /\ row'[u] = "PAID" /\ paid'[u] = paid[u] /\ unheard'[u] = unheard[u]
           \/ old.state = "debited" /\ state = "refused"
              /\ row'[u] = row[u] /\ paid'[u] = paid[u] /\ unheard'[u] = unheard[u] + 1
    BY <1>1, <1>2, <1>5 DEF server
  <1>9. Budget'
    <2>1. CASE old.live
      <3>1. ~Loose(old, u) /\ ~Loose(new, u)
        BY <2>1, <1>6 DEF Loose
      <3>2. paid'[u] + Bit(Loose(new, u)) + unheard[u]
              + Bit(At(old, u, "debited") \/ (row[u] = "PAID" /\ ~At(old, u, "checked")))
            <= paid[u] + unheard'[u]
              + Bit(At(new, u, "debited") \/ (row'[u] = "PAID" /\ ~At(new, u, "checked")))
        BY <1>6, <1>8, <2>1, <3>1 DEF Bit, At
      <3>3. /\ old.live \/ ~paying
            /\ new.live \/ old.live
            /\ old.ticket \in {u, NoTicket} /\ new.ticket \in {u, NoTicket}
            /\ \A t \in Tickets \ {u} : row'[t] = row[t]
            /\ \A t \in Tickets \ {u} : paid'[t] = paid[t] /\ unheard'[t] = unheard[t]
        BY <1>6, <1>7, <2>1
      <3>4. QED
        BY <1>2, <1>6, <1>7, <3>1, <3>2, <3>3, LiveStep
    <2>2. CASE ~old.live
      <3>1. \A t \in Tickets :
              paid'[t] + Bit(Loose(new, t)) + unheard[t]
                <= paid[t] + Bit(Loose(old, t)) + unheard'[t]
        <4> TAKE t \in Tickets
        <4>1. paid[t] \in Nat /\ unheard[t] \in Nat
          BY <1>1
        <4>2. CASE t = u
          BY <1>6, <1>8, <2>2, <4>2 DEF Bit, Loose
        <4>3. CASE t # u
          BY <1>6, <1>7, <4>1, <4>3 DEF Bit, Loose
        <4>4. QED
          BY <4>2, <4>3
      <3>2. \A t \in Tickets : row'[t] = row[t] \/ row'[t] = "PAID"
        BY <1>7
      <3>3. QED
        BY <1>6, <1>7, <2>2, <3>1, <3>2, LooseStep
    <2>3. QED
      BY <2>1, <2>2
  <1>10. QED
    BY <1>2, <1>5, <1>6, <1>7, <1>9, PayStep

LEMMA NoPayTyped ==
  NoPay \in PayRecs /\ NoPay.live = FALSE /\ NoPay.ticket = NoTicket /\ NoPay.state = "none"
  BY DEF NoPay, PayRecs

\* A payout that was not waited for any more, or is over, is forgotten.
LEMMA ForgetPay ==
  ASSUME IInv, NEW p \in Slots, pays' = [pays EXCEPT ![p] = NoPay],
         pays[p].state \in {"ok", "refused"}, UNCHANGED <<row, paid, unheard>>
  PROVE  Budget'
  <1> DEFINE old == pays[p]
             u == old.ticket
  <1>1. /\ old \in PayRecs /\ paid \in [Tickets -> Nat] /\ unheard \in [Tickets -> Nat]
        /\ u \in Tickets
    BY Typed DEF IInv, PayButton
  <1>2. \A t : ~Loose(old, t) /\ ~Loose(NoPay, t)
    BY NoPayTyped DEF Loose
  <1>3. CASE old.live
    <2>1. paid'[u] + Bit(Loose(NoPay, u)) + unheard[u]
            + Bit(At(old, u, "debited") \/ (row[u] = "PAID" /\ ~At(old, u, "checked")))
          <= paid[u] + unheard'[u]
            + Bit(At(NoPay, u, "debited") \/ (row'[u] = "PAID" /\ ~At(NoPay, u, "checked")))
      BY <1>1, <1>2, NoPayTyped DEF Bit, At
    <2>2. /\ old.live \/ ~paying
          /\ NoPay.live \/ old.live
          /\ old.ticket \in {u, NoTicket} /\ NoPay.ticket \in {u, NoTicket}
          /\ \A t \in Tickets \ {u} : row'[t] = row[t]
          /\ \A t \in Tickets \ {u} : paid'[t] = paid[t] /\ unheard'[t] = unheard[t]
          /\ paid' \in [Tickets -> Nat] /\ unheard' \in [Tickets -> Nat]
      BY <1>1, <1>3, NoPayTyped
    <2>3. QED
      BY <1>1, <1>2, <2>1, <2>2, NoPayTyped, LiveStep
  <1>4. CASE ~old.live
    <2>1. \A t \in Tickets :
            paid'[t] + Bit(Loose(NoPay, t)) + unheard[t]
              <= paid[t] + Bit(Loose(old, t)) + unheard'[t]
      BY <1>1, <1>2 DEF Bit
    <2>2. QED
      BY <1>1, <1>4, <2>1, NoPayTyped, LooseStep
  <1>5. QED
    BY <1>3, <1>4

LEMMA PayAnswerStep ==
  ASSUME IInv, NEW p \in Slots, PayAnswer(p)
  PROVE  IInv'
  <1>1. /\ pays' = [pays EXCEPT ![p] = NoPay] /\ pays[p].state = "ok"
        /\ UNCHANGED <<row, paid, unheard, page, receipt, latest, view, loading, paying, list,
                       fetches>>
    BY DEF PayAnswer, server, desk, sales
  <1>2. pays \in [Slots -> PayRecs] /\ pays[p].ticket \in Tickets
    BY <1>1, Typed DEF IInv, PayButton
  <1>3. /\ pays' \in [Slots -> PayRecs]
        /\ \A q \in Slots : pays'[q] = IF q = p THEN NoPay ELSE pays[q]
    BY <1>1, <1>2, NoPayTyped
  <1> DEFINE g == [kind |-> "confirm", ticket |-> pays[p].ticket, status |-> "asked"]
  <1>4. g \in GetRecs /\ g.kind = "confirm"
    BY <1>2 DEF GetRecs, Kinds
  <1>5. IF pays[p].live THEN gets' = gets \cup {g} ELSE gets' = gets
    BY DEF PayAnswer, Ask
  <1> HIDE DEF g
  <1>6. TypeOK'
    BY <1>1, <1>3, <1>4, <1>5 DEF IInv, TypeOK, Slots, PayRecs, GetRecs
  <1>7. Screens'
    BY <1>1, <1>4, <1>5 DEF IInv, Screens, ReceiptIsLatestSale
  <1>8. PayButton'
    BY <1>1, <1>3, <1>4, <1>5, NoPayTyped DEF IInv, PayButton
  <1>9. Budget'
    BY <1>1, ForgetPay
  <1>10. QED
    BY <1>6, <1>7, <1>8, <1>9 DEF IInv

LEMMA PayRefusedStep ==
  ASSUME IInv, NEW p \in Slots, PayRefused(p)
  PROVE  IInv'
  <1>1. /\ pays' = [pays EXCEPT ![p] = NoPay] /\ pays[p].state = "refused"
        /\ paying' = (paying /\ ~pays[p].live)
        /\ UNCHANGED <<row, paid, unheard, page, receipt, latest, view, loading, gets, list,
                       fetches>>
    BY DEF PayRefused, server, sales
  <1>2. pays \in [Slots -> PayRecs] /\ paying' \in BOOLEAN
    BY <1>1, Typed DEF IInv
  <1>3. /\ pays' \in [Slots -> PayRecs]
        /\ \A q \in Slots : pays'[q] = IF q = p THEN NoPay ELSE pays[q]
    BY <1>1, <1>2, NoPayTyped
  <1>4. TypeOK'
    BY <1>1, <1>2, <1>3 DEF IInv, TypeOK, Slots, PayRecs
  <1>5. Screens'
    BY <1>1 DEF IInv, Screens, ReceiptIsLatestSale
  <1>6. PayButton'
    BY <1>1, <1>3, NoPayTyped DEF IInv, PayButton
  <1>7. Budget'
    BY <1>1, ForgetPay
  <1>8. QED
    BY <1>4, <1>5, <1>6, <1>7 DEF IInv

\* The button is free: no payout is waited for, and none is confirmed.
LEMMA PayingStep ==
  ASSUME IInv, Pay
  PROVE  IInv'
  <1> DEFINE u == view.ticket
             pay == [ticket |-> u, state |-> "sent", live |-> TRUE]
  <1>1. /\ view.status = "WON" /\ ~paying /\ paying' = TRUE
        /\ UNCHANGED <<row, paid, unheard, page, receipt, latest, view, loading, gets, list,
                       fetches>>
    BY DEF Pay, PayOffered, server, sales
  <1>2. PICK p \in Slots : pays[p] = NoPay /\ pays' = [pays EXCEPT ![p] = pay]
    BY Typed DEF Pay, IInv
  <1>3. /\ u \in Tickets /\ pay \in PayRecs /\ pay.live = TRUE /\ pay.ticket = u
        /\ pay.state = "sent"
    BY <1>1 DEF IInv, Screens, PayRecs
  <1> HIDE DEF pay
  <1>4. /\ pays \in [Slots -> PayRecs] /\ paid \in [Tickets -> Nat]
        /\ unheard \in [Tickets -> Nat]
    BY Typed DEF IInv
  <1>5. /\ pays' \in [Slots -> PayRecs]
        /\ \A q \in Slots : pays'[q] = IF q = p THEN pay ELSE pays[q]
    BY <1>2, <1>3, <1>4
  <1>6. TypeOK'
    BY <1>1, <1>5 DEF IInv, TypeOK, Slots, PayRecs
  <1>7. Screens'
    BY <1>1 DEF IInv, Screens, ReceiptIsLatestSale
  <1>8. PayButton'
    BY <1>1, <1>3, <1>5 DEF IInv, PayButton
  <1>9. Budget'
    <2>1. ~Loose(pays[p], u) /\ ~Loose(pay, u)
      BY <1>2, <1>3, NoPayTyped DEF Loose
    <2>2. paid'[u] + Bit(Loose(pay, u)) + unheard[u]
            + Bit(At(pays[p], u, "debited") \/ (row[u] = "PAID" /\ ~At(pays[p], u, "checked")))
          <= paid[u] + unheard'[u]
            + Bit(At(pay, u, "debited") \/ (row'[u] = "PAID" /\ ~At(pay, u, "checked")))
      BY <1>1, <1>2, <1>3, <1>4, <2>1, NoPayTyped DEF Bit, At
    <2>3. /\ pays[p].live \/ ~paying
          /\ pay.live \/ pays[p].live
          /\ pays[p].ticket \in {u, NoTicket} /\ pay.ticket \in {u, NoTicket}
          /\ \A t \in Tickets \ {u} : row'[t] = row[t]
          /\ \A t \in Tickets \ {u} : paid'[t] = paid[t] /\ unheard'[t] = unheard[t]
          /\ paid' \in [Tickets -> Nat] /\ unheard' \in [Tickets -> Nat]
      BY <1>1, <1>2, <1>3, <1>4, NoPayTyped
    <2>4. QED
      BY <1>2, <1>3, <2>1, <2>2, <2>3, LiveStep
  <1>10. QED
    BY <1>6, <1>7, <1>8, <1>9 DEF IInv

\* A payout that is given up counts as an outcome nobody heard; it may still debit.
LEMMA GivenUp ==
  ASSUME IInv, NEW p \in Slots, pays[p].live,
         pays' = [pays EXCEPT ![p] = [pays[p] EXCEPT !.live = FALSE]],
         unheard' = [unheard EXCEPT ![pays[p].ticket] = @ + 1],
         UNCHANGED <<row, paid>>
  PROVE  /\ Budget'
         /\ pays' \in [Slots -> PayRecs] /\ unheard' \in [Tickets -> Nat]
         /\ \A q \in Slots : ~pays'[q].live
         /\ \A q \in Slots : pays'[q].state # "none" => pays'[q].ticket \in Tickets
  <1> DEFINE u == pays[p].ticket
             pay == [pays[p] EXCEPT !.live = FALSE]
  <1>1. /\ pays \in [Slots -> PayRecs] /\ pays[p] \in PayRecs /\ paid \in [Tickets -> Nat]
        /\ unheard \in [Tickets -> Nat] /\ u \in Tickets
    BY Typed DEF IInv, PayButton
  <1>2. /\ pay \in PayRecs /\ pay.live = FALSE /\ pay.ticket = u /\ pay.state = pays[p].state
    BY <1>1 DEF PayRecs
  <1> HIDE DEF pay
  <1>3. pays' = [pays EXCEPT ![p] = pay]
    BY DEF pay
  <1>4. /\ pays' \in [Slots -> PayRecs]
        /\ \A q \in Slots : pays'[q] = IF q = p THEN pay ELSE pays[q]
    BY <1>1, <1>2, <1>3
  <1>5. /\ \A q \in Slots : ~pays'[q].live
        /\ \A q \in Slots : pays'[q].state # "none" => pays'[q].ticket \in Tickets
    BY <1>1, <1>2, <1>4 DEF IInv, PayButton
  <1>6. /\ unheard' \in [Tickets -> Nat] /\ unheard'[u] = unheard[u] + 1
        /\ \A t \in Tickets \ {u} : unheard'[t] = unheard[t]
    BY <1>1
  <1>7. Budget'
    <2>1. ~Loose(pays[p], u)
      BY DEF Loose
    <2>2. paid'[u] + Bit(Loose(pay, u)) + unheard[u]
            + Bit(At(pays[p], u, "debited") \/ (row[u] = "PAID" /\ ~At(pays[p], u, "checked")))
          <= paid[u] + unheard'[u]
            + Bit(At(pay, u, "debited") \/ (row'[u] = "PAID" /\ ~At(pay, u, "checked")))
      BY <1>1, <1>2, <1>6 DEF Bit, At, Loose
    <2>3. /\ pays[p].live \/ ~paying
          /\ pay.live \/ pays[p].live
          /\ pays[p].ticket \in {u, NoTicket} /\ pay.ticket \in {u, NoTicket}
          /\ \A t \in Tickets \ {u} : row'[t] = row[t]
          /\ \A t \in Tickets \ {u} : paid'[t] = paid[t] /\ unheard'[t] = unheard[t]
          /\ paid' \in [Tickets -> Nat] /\ unheard' \in [Tickets -> Nat]
      BY <1>1, <1>2, <1>6
    <2>4. QED
      BY <1>1, <1>2, <1>3, <2>1, <2>2, <2>3, LiveStep
  <1>8. QED
    BY <1>4, <1>5, <1>6, <1>7

LEMMA PayBreaksStep ==
  ASSUME IInv, NEW p \in Slots, PayBreaks(p)
  PROVE  IInv'
  <1>1. /\ pays[p].live /\ pays' = [pays EXCEPT ![p] = [pays[p] EXCEPT !.live = FALSE]]
        /\ unheard' = [unheard EXCEPT ![pays[p].ticket] = @ + 1] /\ paying' = FALSE
        /\ UNCHANGED <<row, paid, page, receipt, latest, view, loading, gets, list, fetches>>
    BY Typed DEF PayBreaks, Mishap, sales, IInv
  <1>2. /\ Budget'
        /\ pays' \in [Slots -> PayRecs] /\ unheard' \in [Tickets -> Nat]
        /\ \A q \in Slots : ~pays'[q].live
        /\ \A q \in Slots : pays'[q].state # "none" => pays'[q].ticket \in Tickets
    BY <1>1, GivenUp
  <1>3. TypeOK'
    BY <1>1, <1>2 DEF IInv, TypeOK, Slots, PayRecs
  <1>4. Screens'
    BY <1>1 DEF IInv, Screens, ReceiptIsLatestSale
  <1>5. PayButton'
    BY <1>1, <1>2 DEF IInv, PayButton
  <1>6. QED
    BY <1>2, <1>3, <1>4, <1>5 DEF IInv

\* Leaving the page gives up the payout that is waited for, if there is one.
LEMMA LeaveStep ==
  ASSUME IInv, NEW to \in Pages, Leave(to)
  PROVE  IInv'
  <1>1. /\ page' = to /\ receipt' = Closed /\ latest' = NoTicket /\ view' = Closed
        /\ loading' = FALSE /\ paying' = FALSE /\ gets' = {} /\ list' = Unread
        /\ fetches' = {} /\ UNCHANGED <<row, paid>>
    BY DEF Leave
  <1>2. pays \in [Slots -> PayRecs] /\ unheard \in [Tickets -> Nat]
    BY Typed DEF IInv
  <1>3. pays' = [q \in Slots |-> [pays[q] EXCEPT !.live = FALSE]]
    BY <1>2 DEF Leave
  <1>4. /\ Budget'
        /\ pays' \in [Slots -> PayRecs] /\ unheard' \in [Tickets -> Nat]
        /\ \A q \in Slots : ~pays'[q].live
        /\ \A q \in Slots : pays'[q].state # "none" => pays'[q].ticket \in Tickets
    <2>1. CASE \E p \in Slots : pays[p].live
      <3>1. PICK p \in Slots : pays[p].live
        BY <2>1
      <3>2. \A q \in Slots : pays[q].live => q = p
        BY <3>1 DEF IInv, PayButton
      <3>3. {q \in DOMAIN pays : pays[q].live} = {p}
        BY <1>2, <3>1, <3>2
      <3>4. unheard' = [unheard EXCEPT ![pays[p].ticket] = @ + 1]
        BY <1>2, <3>3 DEF Leave, Mishap
      <3>5. pays' = [pays EXCEPT ![p] = [pays[p] EXCEPT !.live = FALSE]]
        <4>1. \A q \in Slots \ {p} : [pays[q] EXCEPT !.live = FALSE] = pays[q]
          BY <1>2, <3>2 DEF PayRecs
        <4>2. QED
          BY <1>2, <1>3, <3>1, <4>1
      <3>6. QED
        BY <1>1, <3>1, <3>4, <3>5, GivenUp
    <2>2. CASE \A p \in Slots : ~pays[p].live
      <3>1. pays' = pays
        <4>1. \A q \in Slots : [pays[q] EXCEPT !.live = FALSE] = pays[q]
          BY <1>2, <2>2 DEF PayRecs
        <4>2. QED
          BY <1>2, <1>3, <4>1
      <3>2. unheard' = unheard
        BY <1>2, <2>2 DEF Leave
      <3>3. Budget'
        BY <1>1, <3>1, <3>2, NoMoneyStep
      <3>4. QED
        BY <1>2, <2>2, <3>1, <3>2, <3>3 DEF IInv, PayButton
    <2>3. QED
      BY <2>1, <2>2
  <1>5. TypeOK'
    <2>1. Unread \in [Tickets -> Statuses]
      BY DEF Unread, Statuses
    <2>2. QED
      BY <1>1, <1>4, <2>1, ClosedView, Typed
      DEF IInv, TypeOK, Slots, PayRecs, Views
  <1>6. Screens' /\ PayButton'
    BY <1>1, <1>4, ClosedView DEF Screens, ReceiptIsLatestSale, PayButton
  <1>7. QED
    BY <1>4, <1>5, <1>6 DEF IInv
-----------------------------------------------------------------------------
(* The theorems.                                                           *)

LEMMA InitInv ==
  ASSUME Init
  PROVE  IInv
  <1>1. /\ pays \in [Slots -> PayRecs] /\ \A p \in Slots : pays[p] = NoPay
    BY NoPayTyped DEF Init, Slots
  <1>2. TypeOK
    <2>1. Unread \in [Tickets -> Statuses] /\ "sale" \in Pages
      BY DEF Unread, Statuses, Pages
    <2>2. QED
      BY <1>1, <2>1, ClosedView DEF Init, TypeOK, Slots, PayRecs, Views
  <1>3. Screens
    BY ClosedView DEF Init, Screens, ReceiptIsLatestSale
  <1>4. PayButton
    BY <1>1, NoPayTyped DEF Init, PayButton
  <1>5. Budget
    <2>1. \A t \in Tickets : LooseOnes(t) = {}
      BY <1>1, NoPayTyped DEF LooseOnes, Loose
    <2>2. \A t \in Tickets : Cardinality(LooseOnes(t)) = 0
      BY <2>1, FS_EmptySet
    <2>3. QED
      BY <2>2 DEF Init, Budget
  <1>6. QED
    BY <1>2, <1>3, <1>4, <1>5 DEF IInv

LEMMA NextInv ==
  ASSUME IInv, [Next]_vars
  PROVE  IInv'
  <1>1. ASSUME NEW t \in Tickets, Settle(t) \/ Sale(t) \/ Search(t) \/ Sibling(t) \/ Open(t)
        PROVE  IInv'
    BY <1>1, SettleStep, SaleStep, AskingSteps
  <1>2. ASSUME NEW g \in gets, Read(g) \/ PollAnswer(g) \/ Answer(g) \/ GetFails(g)
        PROVE  IInv'
    BY <1>2, ReadStep, PollAnswerStep, AnswerStep
  <1>3. ASSUME NEW p \in 1..MaxPays,
               \/ Check(p) \/ Debit(p) \/ DebitFails(p) \/ Commit(p)
               \/ CommitFails(p) \/ PayAnswer(p) \/ PayRefused(p) \/ PayBreaks(p)
        PROVE  IInv'
    BY <1>3, ServiceStep, PayAnswerStep, PayRefusedStep, PayBreaksStep DEF Slots
  <1>4. CASE Render \/ Poll \/ CloseReceipt \/ CloseView \/ Pay
    BY <1>4, DropStep, AskingSteps, PayingStep
  <1>5. CASE Fetch \/ FetchRead \/ FetchAnswer
    BY <1>5, ListStep
  <1>6. ASSUME NEW to \in Pages, Leave(to)
        PROVE  IInv'
    BY <1>6, LeaveStep
  <1>7. CASE UNCHANGED vars
    <2>1. UNCHANGED <<row, paid, unheard, page, receipt, latest, view, loading, paying, gets,
                      pays, list, fetches>>
      BY <1>7 DEF vars
    <2>2. Screens' /\ PayButton'
      BY <2>1 DEF IInv, Screens, ReceiptIsLatestSale, PayButton
    <2>3. QED
      BY <2>1, <2>2, Typed, ScreenStep DEF IInv
  <1>8. QED
    BY <1>1, <1>2, <1>3, <1>4, <1>5, <1>6, <1>7 DEF Next

\* The inductive invariant: one payout is waited for, the others were given up.
THEOREM Invariant == Spec => []IInv
  BY InitInv, NextInv, PTL DEF Spec

\* Screens, reads and payouts keep their types.
THEOREM TypeCorrect == Spec => []TypeOK
  <1>1. IInv => TypeOK
    BY DEF IInv
  <1>2. QED
    BY Invariant, <1>1, PTL

\* ReceiptIsLatestSale: no late answer replaces or reopens a receipt of the sale pages.
THEOREM ReceiptFollowsSales == Spec => []ReceiptIsLatestSale
  <1>1. IInv => ReceiptIsLatestSale
    BY DEF IInv, Screens
  <1>2. QED
    BY Invariant, <1>1, PTL

\* PaidAgainOnlyUnheard: however many reads and payouts of the verifier are under way, a
\* ticket is paid at most once more than outcomes were not heard.
THEOREM NeverPaidTwiceByItself == Spec => []PaidAgainOnlyUnheard
  <1>1. ASSUME IInv
        PROVE  PaidAgainOnlyUnheard
    <2> SUFFICES ASSUME NEW t \in Tickets
                 PROVE  paid[t] <= 1 + unheard[t]
      BY DEF PaidAgainOnlyUnheard
    <2>1. paid[t] \in Nat /\ unheard[t] \in Nat /\ Cardinality(LooseOnes(t)) \in Nat
      BY <1>1, Typed, LooseCounted DEF IInv
    <2>2. paid[t] + Cardinality(LooseOnes(t)) <= unheard[t] + (IF Spent(t) THEN 1 ELSE 0)
      BY <1>1 DEF IInv, Budget
    <2>3. QED
      BY <2>1, <2>2
  <1>2. QED
    BY Invariant, <1>1, PTL
=============================================================================
