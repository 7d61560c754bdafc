---------------------------- MODULE PosTerminal -----------------------------
(***************************************************************************)
(* The sale pages of agent-web in the windows of one terminal.             *)
(*                                                                         *)
(* Each window keeps its cashier and its slip in React state; the token    *)
(* and the saved user lie in the localStorage that all windows share.      *)
(* Whoever signs in last in one window signs the requests of the others.   *)
(* A slip is submitted to ticket-service over HTTP: the page shows a round *)
(* that may be over, an answer may be lost, the cashier may edit the slip, *)
(* leave the page or sign out while the request is under way.              *)
(*                                                                         *)
(* A slip is known by a number: a new one is started whenever the page     *)
(* empties it.  Its lines are an amount.  The check of the cash balance is *)
(* left open, as both outcomes are possible for every amount.  Of          *)
(* create_ticket its checks and its commit are kept, two steps between     *)
(* which the round may end; the rest is TicketLifecycle's subject.         *)
(***************************************************************************)
EXTENDS Naturals, Sequences, FiniteSets

CONSTANTS
  Agents,     \* the cashiers
  Nobody,     \* no cashier, no token
  Tabs,       \* the windows
  Embedded,   \* opened inside a parent that hands over sessions
  MaxRound,   \* the last round: a bound of the model
  MaxSlip,    \* slips started: a bound of the model
  MaxLines,   \* the amount on a slip: a bound of the model
  MaxTickets, \* tickets sold: a bound of the model
  MaxLosses   \* answers lost: a bound of the model

ASSUME TerminalAssumption ==
  /\ Nobody \notin Agents
  /\ Embedded \in BOOLEAN
  /\ {MaxRound, MaxSlip, MaxLines, MaxTickets} \subseteq Nat \ {0}
  /\ MaxLosses \in Nat

VARIABLES
  store,   \* agent_token and agent_user of localStorage
  page,    \* the React state of each window
  sale,    \* the request of each slip
  engine,  \* the round and its phase, as the pages and ticket-service are told
  tickets,
  slips,   \* how many slips were started
  lost     \* how often the answer about a slip was lost

vars == <<store, page, sale, engine, tickets, slips, lost>>

Users == Agents \cup {Nobody}
Rounds == 0..MaxRound
Slips == 1..MaxSlip

\* A round takes bets, is closed, and is finished when ROUND_FINISHED was published.
\* While the game is disabled Keno takes bets for the last draw: a disabled roulette
\* stays closed.
Phases == {"betting", "closed", "finished", "disabled"}
TakesBets(e) == e.phase \in {"betting", "disabled"}

\* The tickets, as far as they matter here.  All but the settled ones are PENDING: "due"
\* until the round is finished, "missed" if that was never heard of, "late" if the ticket
\* was committed when it was over.
Records == [slip : Slips, round : Rounds, state : {"due", "settled", "missed", "late"}]

\* The request of a slip: own if its token is that of the cashier it names; gate is the
\* round it was let in to.
Sales == [state : {"none", "sent", "checked", "sold"}, own : BOOLEAN, round : Rounds,
          gate : Rounds]
NoSale == [state |-> "none", own |-> FALSE, round |-> 0, gate |-> 0]

TypeOK ==
  /\ store \in [token : Users, user : Users]
  /\ page \in [Tabs -> [user : Users, slip : 0..MaxSlip, lines : 0..MaxLines,
                        round : Rounds, waiting : 0..MaxSlip]]
  /\ sale \in [Slips -> Sales]
  /\ engine \in [round : Rounds, phase : Phases]
  /\ tickets \in Seq(Records)
  /\ slips \in 0..MaxSlip
  /\ lost \in [Slips -> 0..MaxLosses]

\* A page that is not shown, or was just opened.  round is the one it takes bets for,
\* 0 when it takes none; waiting is the slip whose answer it awaits (loading).
Blank(user) ==
  [user |-> user, slip |-> 0, lines |-> 0, round |-> 0, waiting |-> 0]

Init ==
  /\ store = [token |-> Nobody, user |-> Nobody]
  /\ page = [t \in Tabs |-> Blank(Nobody)]
  /\ sale = [s \in Slips |-> NoSale]
  /\ engine = [round |-> 1, phase |-> "betting"]
  /\ tickets = <<>>
  /\ slips = 0
  /\ lost = [s \in Slips |-> 0]
-----------------------------------------------------------------------------
(* Sessions: AuthContext.                                                  *)

\* bootstrap: a window is opened or reloaded; it takes the saved user; the token
\* is not looked at.  With a token in its address a HandOver follows.
Reload(t) ==
  /\ page' = [page EXCEPT ![t] = Blank(store.user)]
  /\ UNCHANGED <<store, sale, engine, tickets, slips, lost>>

\* login of the Login page, which is shown as long as there is no user.
Login(t, a) ==
  /\ page[t].user = Nobody
  /\ store' = [token |-> a, user |-> a]
  /\ page' = [page EXCEPT ![t] = Blank(a)]
  /\ UNCHANGED <<sale, engine, tickets, slips, lost>>

\* agd:auth from the parent: replaces the cashier of a window in use; the page
\* stays, with its slip.
HandOver(t, a) ==
  /\ Embedded
  /\ store' = [token |-> a, user |-> a]
  /\ page' = [page EXCEPT ![t].user = a]
  /\ UNCHANGED <<sale, engine, tickets, slips, lost>>

\* logoutInternal, from the menu, the shift page or the parent: the routes leave
\* the page.
Logout(t) ==
  /\ page[t].user # Nobody
  /\ store' = [token |-> Nobody, user |-> Nobody]
  /\ page' = [page EXCEPT ![t] = Blank(Nobody)]
  /\ UNCHANGED <<sale, engine, tickets, slips, lost>>

\* An answer of fetchBalance that brings another kiosk: the window saves its own
\* user again, whoever is signed in by now.  Balances are asked for at every
\* sign-in, load and sale and may take any time, so that one may always be due.
BalanceAnswer(t) ==
  /\ page[t].user # Nobody
  /\ store' = [store EXCEPT !.user = page[t].user]
  /\ UNCHANGED <<page, sale, engine, tickets, slips, lost>>
-----------------------------------------------------------------------------
(* The page and its slip.                                                  *)

\* A frame of the engine reaches the page.
See(t) ==
  /\ page[t].user # Nobody
  /\ page' = [page EXCEPT ![t].round = IF TakesBets(engine) THEN engine.round ELSE 0]
  /\ UNCHANGED <<store, sale, engine, tickets, slips, lost>>

\* Another page and back: the page forgets its slip and that it was submitted.
Leave(t) ==
  /\ page[t].user # Nobody
  /\ page' = [page EXCEPT ![t] = Blank(page[t].user)]
  /\ UNCHANGED <<store, sale, engine, tickets, slips, lost>>

\* addBet and addToSlip: on an empty slip the first line starts a new one.
AddLine(t) ==
  /\ page[t].user # Nobody
  /\ page[t].round # 0
  /\ page[t].lines < MaxLines
  /\ IF page[t].lines = 0
     THEN /\ slips < MaxSlip
          /\ slips' = slips + 1
          /\ page' = [page EXCEPT ![t].slip = slips + 1, ![t].lines = 1]
     ELSE /\ page' = [page EXCEPT ![t].lines = @ + 1]
          /\ UNCHANGED slips
  /\ UNCHANGED <<store, sale, engine, tickets, lost>>

\* removeBet of the last line, and clearBets; also while a sale is under way.
Clear(t) ==
  /\ page[t].lines > 0
  /\ page' = [page EXCEPT ![t].lines = 0, ![t].slip = 0]
  /\ UNCHANGED <<store, sale, engine, tickets, slips, lost>>

\* The button of BetSlip.
CanSubmit(p) == p.round # 0 /\ p.lines > 0 /\ p.waiting = 0

\* submitTicket: the body names the cashier and the round of the page, the
\* interceptor adds the token of localStorage.
Submit(t) ==
  LET p == page[t] IN
  /\ CanSubmit(p)
  /\ sale[p.slip] = NoSale
  /\ sale' = [sale EXCEPT ![p.slip] = [state |-> "sent", own |-> p.user = store.token,
                                        round |-> p.round, gate |-> 0]]
  /\ page' = [page EXCEPT ![t].waiting = p.slip]
  /\ UNCHANGED <<store, engine, tickets, slips, lost>>

\* Mutant of Accepts: the round of the body is not compared.
AcceptsAnyRound(r) == r.own /\ TakesBets(engine)

\* create_ticket: 401, 403 and rules A and B.
Accepts(r) ==
  /\ r.own
  /\ TakesBets(engine)
  /\ r.round = engine.round

Check(s) ==
  /\ sale[s].state = "sent"
  /\ Accepts(sale[s])
  /\ sale' = [sale EXCEPT ![s] = [NoSale EXCEPT !.state = "checked", !.round = sale[s].round,
                                                !.gate = engine.round]]
  /\ UNCHANGED <<store, page, engine, tickets, slips, lost>>

\* The round can still be finished.
ResultToCome(r) == r = engine.round /\ engine.phase \in {"betting", "closed"}

\* The round may have ended between the checks and the commit.
Ticket(s) == [slip |-> s, round |-> sale[s].round,
              state |-> IF ResultToCome(sale[s].gate) THEN "due" ELSE "late"]

Sell(s) ==
  /\ sale[s].state = "checked"
  /\ Len(tickets) < MaxTickets
  /\ tickets' = Append(tickets, Ticket(s))
  /\ sale' = [sale EXCEPT ![s] = [NoSale EXCEPT !.state = "sold"]]
  /\ UNCHANGED <<store, page, engine, slips, lost>>

\* Mutant of Sold: the slip stays.
SoldKeepingSlip(p) == [p EXCEPT !.waiting = 0]

\* setBets([]): the slip is emptied, with whatever was added to it since.
Sold(p) == [p EXCEPT !.waiting = 0, !.lines = 0, !.slip = 0]

\* The rest of submitTicket works on the page that submitted, if it is still there.
SoldAnswer(s) ==
  /\ sale[s].state = "sold"
  /\ sale' = [sale EXCEPT ![s] = NoSale]
  /\ page' = [t \in Tabs |-> IF page[t].waiting = s THEN Sold(page[t]) ELSE page[t]]
  /\ UNCHANGED <<store, engine, tickets, slips, lost>>

\* An error is shown and the slip is kept.
Failed(s) ==
  /\ sale' = [sale EXCEPT ![s] = NoSale]
  /\ page' = [t \in Tabs |-> IF page[t].waiting = s THEN [page[t] EXCEPT !.waiting = 0]
                             ELSE page[t]]
  /\ UNCHANGED <<store, engine, tickets, slips>>

\* The sale is refused by one of the checks, or for its stake or its balance, or it
\* fails, or the request does not arrive: nothing changes but for what the page hears.
Refuse(s) ==
  /\ sale[s].state \in {"sent", "checked"}
  /\ Failed(s)
  /\ UNCHANGED lost

\* The answer to a sale does not arrive: to the page it is the same.
Lose(s) ==
  /\ sale[s].state = "sold"
  /\ \A r \in Slips : lost[r] < MaxLosses
  /\ lost' = [lost EXCEPT ![s] = @ + 1]
  /\ Failed(s)
-----------------------------------------------------------------------------
(* The engines, and the listener of ticket-service, as far as a sale sees them. *)

CloseBets ==
  /\ engine.phase = "betting"
  /\ engine' = [engine EXCEPT !.phase = "closed"]
  /\ UNCHANGED <<store, page, sale, tickets, slips, lost>>

\* The PENDING tickets of a round that are there get a state.
Marked(rounds, from, state) ==
  [i \in DOMAIN tickets |-> IF tickets[i].round \in rounds /\ tickets[i].state \in from
                            THEN [tickets[i] EXCEPT !.state = state] ELSE tickets[i]]

\* Nobody hears of the result of these rounds, and nothing makes up for it.
Missed(rounds) == Marked(rounds, {"due"}, "missed")

\* ROUND_FINISHED is published: by Keno when it draws, by roulette at the result.  The
\* listener settles the round; or the event is lost, as pub/sub keeps nothing for a
\* listener that is away or has died.
Finish ==
  /\ engine.phase = "closed"
  /\ engine' = [engine EXCEPT !.phase = "finished"]
  /\ \/ tickets' = Marked({engine.round}, {"due", "missed", "late"}, "settled")
     \/ tickets' = Missed({engine.round})
  /\ UNCHANGED <<store, page, sale, slips, lost>>

\* A round that is left before it is finished publishes nothing.
Abandoned == IF engine.phase \in {"betting", "closed"} THEN {engine.round} ELSE {}

\* The loop is at its top again: after a finished round, or at any time after an exception
\* or a restart.
NextRound ==
  /\ engine.round < MaxRound
  /\ engine' = [round |-> engine.round + 1, phase |-> "betting"]
  /\ tickets' = Missed(Abandoned)
  /\ UNCHANGED <<store, page, sale, slips, lost>>

\* The loop of Keno finds the game disabled.
Disable ==
  /\ engine.phase # "disabled"
  /\ engine' = [engine EXCEPT !.phase = "disabled"]
  /\ tickets' = Missed(Abandoned)
  /\ UNCHANGED <<store, page, sale, slips, lost>>

\* Keno restarts with the draw that follows the last one of its history, or with that one
\* if it finds the game disabled.  The history may lack the current draw and, after errors
\* of Redis, any number of those before.
Restart(r) ==
  /\ r \in 1..engine.round
  /\ \/ /\ engine' = [round |-> r, phase |-> "betting"]
        /\ tickets' = Missed(Abandoned \ {r})
     \/ /\ engine' = [round |-> r, phase |-> "disabled"]
        /\ tickets' = Missed(Abandoned)
  /\ UNCHANGED <<store, page, sale, slips, lost>>

Next ==
  \/ \E t \in Tabs : \/ Reload(t) \/ Logout(t) \/ See(t) \/ Leave(t) \/ AddLine(t)
                     \/ Clear(t) \/ Submit(t)
                     \/ \E a \in Agents : Login(t, a) \/ HandOver(t, a)
                     \/ BalanceAnswer(t)
  \/ \E s \in Slips : Check(s) \/ Sell(s) \/ Refuse(s) \/ SoldAnswer(s) \/ Lose(s)
  \/ CloseBets \/ Finish \/ NextRound \/ Disable
  \/ \E r \in Rounds : Restart(r)

Spec == Init /\ [][Next]_vars
-----------------------------------------------------------------------------
SoldAs(s) == {i \in DOMAIN tickets : tickets[i].slip = s}

\* A slip is sold a second time only if an answer about it was lost: the edits of the
\* slip, the errors, the other windows and the change of cashier during a request do
\* not sell it twice.
SoldTwiceOnlyAfterLoss == \A s \in Slips : Cardinality(SoldAs(s)) <= 1 + lost[s]

\* However late the page saw the round and the service the request, a PENDING ticket is of
\* the round that is played, whose result is to come, with these exceptions: its round was
\* abandoned by an exception or a restart of the engine, or ROUND_FINISHED was lost
\* ("missed"); or it was let in as long as its round took bets, and committed when the
\* round was over ("late").  None is let in for a round that takes no bets.
NoTicketIsStranded ==
  \A i \in DOMAIN tickets : tickets[i].state = "due" => ResultToCome(tickets[i].round)
=============================================================================
