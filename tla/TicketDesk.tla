----------------------------- MODULE TicketDesk -----------------------------
(***************************************************************************)
(* What a cashier does with tickets that were sold, in one window of       *)
(* agent-web: the receipt of the latest sale (Jeux, Keno), the verifier    *)
(* that pays winners (TicketVerifier) and the list of recent sales         *)
(* (Ventes).                                                               *)
(*                                                                         *)
(* Every screen works on copies of tickets, read by requests whose answers *)
(* come late, in any order, or not at all; each screen forgets what it     *)
(* awaits when the cashier leaves it.  A payout is three steps of          *)
(* ticket-service: it checks the status, debits the register and commits   *)
(* PAID, as TicketLifecycle has them.  How a sale itself may fail is       *)
(* PosTerminal's subject.                                                  *)
(***************************************************************************)
EXTENDS Naturals, FiniteSets

CONSTANTS
  Tickets,
  NoTicket,
  MaxGets,    \* reads of one ticket under way at once: a bound of the model
  MaxFetches, \* reads of the list under way at once: a bound of the model
  MaxPays,    \* payouts under way at once: a bound of the model
  MaxMishaps  \* outcomes of payouts nobody heard of: a bound of the model

ASSUME DeskAssumption ==
  /\ NoTicket \notin Tickets
  /\ {MaxGets, MaxFetches, MaxPays} \subseteq Nat \ {0}
  /\ MaxMishaps \in Nat

VARIABLES
  row,      \* the status of each ticket in the database
  paid,     \* how often the register paid it
  unheard,  \* payouts of it whose outcome the cashier did not hear
  page,     \* the page that is shown
  receipt,  \* lastTicket of the sale page
  latest,   \* the sale whose receipt was not closed yet
  view,     \* ticket of the verifier, selected of the list
  loading,
  paying,   \* payoutLoading
  gets,     \* reads of one ticket the screen awaits
  pays,     \* payouts under way
  list,     \* tickets of Ventes
  fetches   \* reads of the list under way

vars == <<row, paid, unheard, page, receipt, latest, view, loading, paying, gets, pays,
          list, fetches>>
server == <<row, paid, unheard>>
sales == <<list, fetches>>
desk == <<page, receipt, latest, view, loading, paying>>

Statuses == {"none", "PENDING", "WON", "LOST", "PAID"}
\* The page Verify is the sale page without a sale.
Pages == {"sale", "sales"}
Kinds == {"poll", "look", "confirm", "open"}

Closed == [ticket |-> NoTicket, status |-> "none"]
Unread == [t \in Tickets |-> "none"]
NoPay == [ticket |-> NoTicket, state |-> "none", live |-> FALSE]
Asked == [state |-> "asked", rows |-> Unread]

TypeOK ==
  /\ row \in [Tickets -> Statuses]
  /\ paid \in [Tickets -> Nat]
  /\ unheard \in [Tickets -> Nat]
  /\ page \in Pages
  /\ {receipt, view} \subseteq [ticket : Tickets \cup {NoTicket}, status : Statuses]
  /\ latest \in Tickets \cup {NoTicket}
  /\ {loading, paying} \subseteq BOOLEAN
  /\ gets \subseteq [kind : Kinds, ticket : Tickets, status : Statuses \cup {"asked"}]
  /\ pays \in [1..MaxPays ->
       [ticket : Tickets \cup {NoTicket}, live : BOOLEAN,
        state : {"none", "sent", "checked", "debited", "ok", "refused"}]]
  /\ list \in [Tickets -> Statuses]
  /\ fetches \subseteq [state : {"asked", "read"}, rows : [Tickets -> Statuses]]

Init ==
  /\ row = Unread
  /\ paid = [t \in Tickets |-> 0]
  /\ unheard = [t \in Tickets |-> 0]
  /\ page = "sale"
  /\ receipt = Closed
  /\ latest = NoTicket
  /\ view = Closed
  /\ loading = FALSE
  /\ paying = FALSE
  /\ gets = {}
  /\ pays = [p \in 1..MaxPays |-> NoPay]
  /\ list = Unread
  /\ fetches = {}

\* The reads of single tickets whose answer the screen still awaits; two that ask the
\* same are one.  What became of the others changes nothing.
Ask(kind, t) ==
  /\ Cardinality(gets) < MaxGets
  /\ gets' = gets \cup {[kind |-> kind, ticket |-> t, status |-> "asked"]}

Shown(t, status) == [ticket |-> t, status |-> status]

\* One more payout of t whose outcome does not reach the cashier.
Mishap(t) ==
  /\ \A u \in Tickets : unheard[u] < MaxMishaps
  /\ unheard' = [unheard EXCEPT ![t] = @ + 1]
-----------------------------------------------------------------------------
(* ticket-service and the engines.                                         *)

Settle(t) ==
  /\ row[t] = "PENDING"
  /\ \E verdict \in {"WON", "LOST"} : row' = [row EXCEPT ![t] = verdict]
  /\ UNCHANGED <<paid, unheard, desk, gets, pays, sales>>

\* get_ticket answers with the row of this moment.
Read(g) ==
  /\ g.status = "asked"
  /\ gets' = (gets \ {g}) \cup {[g EXCEPT !.status = row[g.ticket]]}
  /\ UNCHANGED <<server, desk, pays, sales>>

Payable(t) == row[t] = "WON"

PayState(p, state) == pays' = [pays EXCEPT ![p].state = state]

\* payout_ticket reads the status; what is not WON is refused.
Check(p) ==
  /\ pays[p].state = "sent"
  /\ PayState(p, IF Payable(pays[p].ticket) THEN "checked" ELSE "refused")
  /\ UNCHANGED <<server, desk, gets, sales>>

\* The register is debited, and ticket-service hears of it.
Debit(p) ==
  /\ pays[p].state = "checked"
  /\ paid' = [paid EXCEPT ![pays[p].ticket] = @ + 1]
  /\ PayState(p, "debited")
  /\ UNCHANGED <<row, unheard, desk, gets, sales>>

\* The register refuses, or cannot be reached: 503.
DebitFails(p) ==
  /\ pays[p].state = "checked"
  /\ PayState(p, "refused")
  /\ UNCHANGED <<server, desk, gets, sales>>

Commit(p) ==
  /\ pays[p].state = "debited"
  /\ row' = [row EXCEPT ![pays[p].ticket] = "PAID"]
  /\ PayState(p, "ok")
  /\ UNCHANGED <<paid, unheard, desk, gets, sales>>

\* The debit was posted, but its answer or the commit of PAID fails.
CommitFails(p) ==
  /\ pays[p].state = "debited"
  /\ Mishap(pays[p].ticket)
  /\ PayState(p, "refused")
  /\ UNCHANGED <<row, paid, desk, gets, sales>>
-----------------------------------------------------------------------------
(* The receipt of the latest sale.                                         *)

\* submitTicket is answered: setLastTicket.  A ticket that hit a jackpot is WON.
\* The receipt of the sale before covers the slip until it is closed.
Sale(t) ==
  /\ page = "sale"
  /\ receipt = Closed
  /\ row[t] = "none"
  /\ \E status \in {"PENDING", "WON"} :
       /\ row' = [row EXCEPT ![t] = status]
       /\ receipt' = Shown(t, status)
  /\ latest' = t
  /\ UNCHANGED <<paid, unheard, page, view, loading, paying, gets, pays, sales>>

\* Mutant of WithoutPolls: the cleanup clears the timer, and nothing looks at
\* cancelled after the await.
WithAllPolls(asked) == asked

\* The cleanup of the effect cancels the poll that is under way.
WithoutPolls(asked) == {g \in asked : g.kind # "poll"}

\* The page renders, as it does every second: refreshJackpots is a new function
\* each time, so that the effect starts again.
Render ==
  /\ page = "sale"
  /\ gets' = WithoutPolls(gets)
  /\ UNCHANGED <<server, desk, pays, sales>>

\* The timer of the effect: the page asks for a ticket that is PENDING.
Poll ==
  /\ page = "sale"
  /\ receipt.status = "PENDING"
  /\ \A g \in gets : g.kind # "poll"
  /\ Ask("poll", receipt.ticket)
  /\ UNCHANGED <<server, desk, pays, sales>>

\* What is not PENDING any more is shown, and the effect starts again.
PollAnswer(g) ==
  /\ g.kind = "poll"
  /\ g.status # "asked"
  /\ IF g.status # "PENDING"
     THEN receipt' = Shown(g.ticket, g.status)
     ELSE UNCHANGED receipt
  /\ gets' = gets \ {g}
  /\ UNCHANGED <<server, page, latest, view, loading, paying, pays, sales>>

\* Escape, the cross, a click beside it or the button below it.
CloseReceipt ==
  /\ receipt # Closed
  /\ receipt' = Closed
  /\ latest' = NoTicket
  /\ gets' = WithoutPolls(gets)
  /\ UNCHANGED <<server, page, view, loading, paying, pays, sales>>
-----------------------------------------------------------------------------
(* The verifier.                                                           *)

\* handleSearch.  The scanner types into the form even when a receipt covers it.
Search(t) ==
  /\ page = "sale"
  /\ ~loading
  /\ row[t] # "none"
  /\ loading' = TRUE
  /\ view' = Closed
  /\ Ask("look", t)
  /\ UNCHANGED <<server, page, receipt, latest, paying, pays, sales>>

\* Another ticket of the chain shown on the receipt: handleSelectSibling, or
\* openTicket of the list, which has no loading state.
Sibling(t) ==
  /\ view # Closed
  /\ view.ticket # t
  /\ row[t] # "none"
  /\ loading' = (page = "sale" \/ loading)
  /\ Ask(IF page = "sale" THEN "look" ELSE "open", t)
  /\ UNCHANGED <<server, page, receipt, latest, view, paying, pays, sales>>

\* What the end of a read frees: the form, or the button of the payout.
Freed(g) ==
  /\ gets' = gets \ {g}
  /\ loading' = (loading /\ g.kind # "look")
  /\ paying' = (paying /\ g.kind # "confirm")

\* The answer to any of these reads replaces what is shown.
Answer(g) ==
  /\ g.kind # "poll"
  /\ g.status # "asked"
  /\ view' = Shown(g.ticket, g.status)
  /\ Freed(g)
  /\ UNCHANGED <<server, page, receipt, latest, pays, sales>>

\* No answer, or an error: it is shown, and the list closes its receipt.  A poll is
\* tried again.
GetFails(g) ==
  /\ view' = IF g.kind = "open" THEN Closed ELSE view
  /\ Freed(g)
  /\ UNCHANGED <<server, page, receipt, latest, pays, sales>>

CloseView ==
  /\ view # Closed
  /\ view' = Closed
  /\ UNCHANGED <<server, page, receipt, latest, loading, paying, gets, pays, sales>>

\* Mutant of PayOffered: the button is not disabled while a payout is under way.
PayOfferedAlways == page = "sale" /\ view.status = "WON"

\* The button of the receipt; only the verifier has one.
PayOffered == page = "sale" /\ view.status = "WON" /\ ~paying

\* handlePayout up to its first await.
Pay ==
  /\ PayOffered
  /\ \E p \in {q \in DOMAIN pays : pays[q] = NoPay} :
       pays' = [pays EXCEPT ![p] = [ticket |-> view.ticket, state |-> "sent", live |-> TRUE]]
  /\ paying' = TRUE
  /\ UNCHANGED <<server, page, receipt, latest, view, loading, gets, sales>>

\* It was paid: the ticket is read again; only then the button is free.
PayAnswer(p) ==
  /\ pays[p].state = "ok"
  /\ pays' = [pays EXCEPT ![p] = NoPay]
  /\ IF pays[p].live THEN Ask("confirm", pays[p].ticket) ELSE UNCHANGED gets
  /\ UNCHANGED <<server, desk, sales>>

\* It was refused or failed: the error is shown, the receipt is not read again.
PayRefused(p) ==
  /\ pays[p].state = "refused"
  /\ pays' = [pays EXCEPT ![p] = NoPay]
  /\ paying' = (paying /\ ~pays[p].live)
  /\ UNCHANGED <<server, page, receipt, latest, view, loading, gets, sales>>

\* The connection of the window breaks: ticket-service goes on.
PayBreaks(p) ==
  /\ pays[p].live
  /\ Mishap(pays[p].ticket)
  /\ pays' = [pays EXCEPT ![p].live = FALSE]
  /\ paying' = FALSE
  /\ UNCHANGED <<row, paid, page, receipt, latest, view, loading, gets, sales>>
-----------------------------------------------------------------------------
(* The list of recent sales.                                               *)

\* A click on a line of the list.
Open(t) ==
  /\ page = "sales"
  /\ list[t] # "none"
  /\ Ask("open", t)
  /\ UNCHANGED <<server, desk, pays, sales>>

\* Mutant of Due: the list is read once, when the page opens.
DueOnce == list = Unread

\* fetchTickets is called when the page opens and by an interval, whether or not
\* its last call was answered.
Due == TRUE

Fetch ==
  /\ page = "sales"
  /\ Due
  /\ Asked \notin fetches
  /\ Cardinality(fetches) < MaxFetches
  /\ fetches' = fetches \cup {Asked}
  /\ UNCHANGED <<server, desk, gets, pays, list>>

FetchRead ==
  /\ Asked \in fetches
  /\ fetches' = (fetches \ {Asked}) \cup {[state |-> "read", rows |-> row]}
  /\ UNCHANGED <<server, desk, gets, pays, list>>

\* Answers are taken in the order in which they arrive.
FetchAnswer ==
  \E f \in fetches \ {Asked} :
    /\ list' = f.rows
    /\ fetches' = fetches \ {f}
    /\ UNCHANGED <<server, desk, gets, pays>>
-----------------------------------------------------------------------------
\* Another page: what the screens showed and awaited is forgotten.  A payout whose
\* answer is still due will not be heard of.
Leave(to) ==
  LET asked == {p \in DOMAIN pays : pays[p].live} IN
  /\ to # page
  /\ page' = to
  /\ IF asked = {} THEN UNCHANGED unheard
     ELSE \E p \in asked : Mishap(pays[p].ticket)
  /\ receipt' = Closed
  /\ latest' = NoTicket
  /\ view' = Closed
  /\ loading' = FALSE
  /\ paying' = FALSE
  /\ gets' = {}
  /\ pays' = [p \in DOMAIN pays |-> [pays[p] EXCEPT !.live = FALSE]]
  /\ list' = Unread
  /\ fetches' = {}
  /\ UNCHANGED <<row, paid>>

Next ==
  \/ \E t \in Tickets : Settle(t) \/ Sale(t) \/ Search(t) \/ Sibling(t) \/ Open(t)
  \/ \E g \in gets : Read(g) \/ PollAnswer(g) \/ Answer(g) \/ GetFails(g)
  \/ \E p \in 1..MaxPays : \/ Check(p) \/ Debit(p) \/ DebitFails(p) \/ Commit(p)
                           \/ CommitFails(p) \/ PayAnswer(p) \/ PayRefused(p) \/ PayBreaks(p)
  \/ Render \/ Poll \/ CloseReceipt \/ CloseView \/ Pay
  \/ Fetch \/ FetchRead \/ FetchAnswer
  \/ \E to \in Pages : Leave(to)

Spec == Init /\ [][Next]_vars

\* The interval goes on, and what is asked is answered.
Fairness == WF_vars(Fetch) /\ WF_vars(FetchRead) /\ WF_vars(FetchAnswer)

FairSpec == Spec /\ Fairness
-----------------------------------------------------------------------------
\* The receipt on the sale page is that of the latest sale, until it is closed: an
\* answer about an earlier ticket, however late, neither replaces nor reopens it.
ReceiptIsLatestSale == receipt.ticket = latest

\* A ticket is paid a second time only when the cashier did not hear what became of
\* the first: one window, with its closed and reopened receipts, stale copies and
\* answers out of order, never pays a ticket twice by itself, although ticket-service
\* would let two payouts at the same time pass.
PaidAgainOnlyUnheard == \A t \in Tickets : paid[t] <= 1 + unheard[t]

\* While the list stays open it comes to show what has become of the tickets, in
\* whatever order its answers arrive.
ListCatchesUp == <>[](page = "sales") => <>[](list = row)
=============================================================================
