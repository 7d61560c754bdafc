# Casino microservices: specification and proofs

A TLA+ development kept beside the casino microservices: modules that model what
the services do to money, tickets, jackpots and draws, TLC configurations that
check them on small instances, and TLAPS proofs of their safety for any number of
agents, tickets, clients and replicas. The screens that cashiers and administrators
work at are modelled with them, since what they do with late answers decides what is sold
and paid. Paths are relative to the repository root;
`PROJECT.json` holds the line of the source behind every definition.

To check a run: `tlc -config <file>.cfg <module>.tla`, with the module and the file that
`PROJECT.json` names for it; to check the proofs: `tlapm` on `CashRegister_proofs.tla`,
`TicketLifecycle_proofs.tla`, `JackpotPots_proofs.tla`, `ReplayPlans_proofs.tla`,
`KenoRounds_proofs.tla`, `PosTerminal_proofs.tla`, `TicketDesk_proofs.tla` and
`Screens_proofs.tla`.

## 1. The system

Five Python services (FastAPI, asyncio, SQLAlchemy, one Postgres database each)
and two React clients. Synchronous calls are HTTP; everything else goes through
Redis, as keys that hold the current state and as pub/sub channels that lose what
nobody listens to.

    agent-web, backoffice
          | HTTP                          HTTP /{agent}/provision
    ticket-service  x1..4  ---------------------------------->  agent-service
      |    ^   ^                                                (cash registers)
      |    |   | Redis: roulette-events, keno-events            row lock per register
      |    |   | Redis: roulette:current_state, keno:current_state
      |    |   game-roulette-service, game-keno-service  --WebSocket-->  displays
      |    |                         ^
      |    |                         | Redis: jackpot-updated, jackpot-hit
      +----+--- HTTP /internal/contribute ---> jackpot-service

| Component | State | Operations | What makes it correct |
|---|---|---|---|
| **agent-service: registers** (`services/agent-service/app/main.py`) | `CashRegister.balance`, `CashRegisterTransaction` audit rows | `POST /{agent_id}/provision`: one transaction under `SELECT ... FOR UPDATE`; registers are opened with their agent | no overdraft; the audit rows chain up to the balance; an answer tells the truth; a call is one atomic posting; every request ends |
| agent-service: accounts, kiosk codes | agents, codes, Redis caches of codes | login, create, regenerate a code, statistics | a code names one kiosk, caches included |
| **ticket-service: tickets** (`services/ticket-service/app/main.py`) | `Ticket` rows: status, total_payout, winning_number | sale, settlement by the listener of each replica, payout, cancel | settled exactly, once; no status without its money; never more paid than owed, and once; final statuses are final; what was sold in time is settled |
| **ticket-service: replay plans** (`replay/`) | `TicketPlan` rows: status, counters, last round | created with a sale, a child ticket per round, cancel with refund | counters match the tickets; rounds played plus rounds refunded are the rounds paid |
| ticket-service: payout rules (`rules.py`, `keno_rules.py`) | none | `calculate_payout`, `calculate_keno_payout` | a bet pays what the screens announced for it, on the numbers they showed |
| **jackpot-service** (`services/jackpot-service/app/services.py`) | `JackpotPot`, `JackpotContribution`, `JackpotWin` | contribute: feed every pot of a ticket, detect and pay hits; redraw a threshold | one winner per cycle; no money invented or lost; the trail chains; every contribution ends |
| **game-keno-service** | draw id, phase, history in Redis, `keno_draws`, queued celebrations | `game_loop`, `consume_jackpot_hit`, settings | a draw id is drawn once; no bets on a draw that is known; the audit table agrees with the settlement; interrupted draws are resumed |
| game-roulette-service | round, phase, history, `roulette_rounds` | `game_loop`, `/internal/spins` | as for Keno; a round is committed to by its hash |
| **WebSocket managers of the engines, and the hooks that follow them** (`useKenoWs`, `useRoulette`, `useRouletteWs`) | connections by kiosk; what a screen shows, its socket, its timers | connect, welcome, broadcast; reconnect, clean up | a screen converges on the state of the engine; a page owns one connection and comes back after losses |
| **agent-web: sessions and sale pages** (`context/AuthContext.jsx`, `pages/Jeux.jsx`, `pages/Keno.jsx`, `components/BetSlip.jsx`) | token and user in the `localStorage` all windows share; a slip for each page | sign in and out, take over a parent's session, fill and submit a slip | a slip is sold once; no ticket for a round that is over |
| **agent-web: table and odds** (`BettingGrid`, `OddsTable`, `KenoGrid`, `TicketReceipt`) | the bet being composed | click a zone, pick numbers | what is lit is what pays; the gain announced is the gain paid |
| **agent-web: verifier, receipt, list** (`TicketVerifier`, `TicketReceipt`, `pages/Ventes.jsx`) | copies of tickets | search, pay, poll, list | a receipt is of the latest sale; the desk pays once; the list catches up |
| **backoffice: jackpots page** (`pages/Jackpots.jsx`) | copies of pots, the modals | list, create, edit | an edit never touches money; thresholds fit their bounds; every pot can be edited |
| agent-web: jackpots and celebrations; adapter to an external operator | displays; none | poll, overlay; HTTP | |
| backoffice: other pages | forms and tables | settings, agents, transactions | |

What is hard here is the same everywhere: a handler reads a row, awaits another
service, and then writes what it computed from what it read. Handlers of one process
interleave at each `await`; ticket-service can run in four replicas
(`docker-compose.scale.yml`), each with its own listener; an HTTP call may be
executed although its answer is lost, since the client gives up after 5 s; pub/sub
messages are not repeated; a commit may fail; an engine may die between any two awaits. On
the screens it is the same with other words: React state is a copy, requests are answered late and in any
order, and the page may be another by then.
`PROJECT.json` lists these hazards at the lines where they bite, with the properties
that would catch each of them.

## 2. The modules

| Module | Lines | Models |
|---|---|---|
| `CashLedger` | abstract | what callers of a register may rely on: a call is posted at once, at most once, and never below zero |
| `CashRegister` | component | the transactions, row locks, failures and answers of `provision_cash` |
| `CashRegister_proofs` | proofs | its safety for any number of agents, requests and amounts; it implements `CashLedger` |
| `TicketLifecycle` | composition | sale, settlement, payout and cancellation of one round, over the abstract registers |
| `TicketLifecycle_proofs` | proofs | its safety for any number of tickets, counters and replicas, under every failure; a ticket is paid once at one counter with one replica |
| `JackpotPots` | component | contributions as concurrent Postgres transactions, with ORM images of the pots |
| `JackpotPots_proofs` | proofs | cycles, money, audit trail and credits, for any number of pots and concurrent tickets, any contributions, seeds, caps and thresholds |
| `ReplayPlans` | component | plans generated by the listeners while clients cancel them |
| `ReplayPlans_proofs` | proofs | a plan that is over stays over with any number of replicas; with one its counters match its tickets |
| `KenoRounds` | component and its gate | the draw loop of Keno with crashes, the betting gate, the audit table, queued celebrations |
| `KenoRounds_proofs` | proofs | gate, audit table and celebrations survive failures, for any number of tickets, hits and draws |
| `EngineFeed` | composition | one screen that follows one engine over a WebSocket, by each of the four hooks |
| `BetPayouts` | composition | one bet from the click on the table to the cash it pays: tables of the screens against tables of the service |
| `PosTerminal` | composition | windows of one terminal that share a `localStorage`, their slips, `create_ticket`, and an engine that may abandon its rounds |
| `PosTerminal_proofs` | proofs | `PosTerminal`: slips are sold once, for any number of windows, cashiers and rounds; `BetPayouts`: what the screens light up and announce is what is paid, for every stake of the pages and any number of clicks |
| `TicketDesk` | composition | receipt, verifier and list, with the payouts they ask for |
| `TicketDesk_proofs` | proofs | the desk alone never pays twice, for any number of reads and payouts under way |
| `PotAdmin` | composition | the jackpots page and the endpoints behind it, beside tickets that feed the pots |
| `Screens_proofs` | proofs | `PotAdmin`: edits keep money and thresholds, for any number of consoles, edits and pots; `EngineFeed`: screens follow the engine and leak no connection, for any number of draws, mounts, frames in flight and lost connections |
| `MC*` | configuration | values of the constants for TLC |

`TicketLifecycle` composes with `CashRegister` through `CashLedger`: it instantiates the
ledger and calls `Cash!Post`, and `CashRegister` is shown to implement the same ledger
(`ImplementsLedger`, checked and proved). Each handler's view of a register is thus the one
the register's own locking protocol justifies.

### CashRegister

`pc[r]` is how far the handler of request `r` is; `seen[r]` is `caisse.balance` as its session
read it, and `lock[a]` the row lock. `Acquire` is the locking SELECT, `Reject` the 400 of a
debit above the balance, `Commit` writes `seen + amount` (an absolute value, as the ORM does)
and the audit row. `CommitFails` is the `except` branch, where Postgres may or may not have
applied the commit, and `Lose` a worker or connection that dies. The id of a request stands for
the audit row it writes.

### TicketLifecycle

One round, any number of tickets.

| Code | Actions | State |
|---|---|---|
| `create_ticket`: gate, register, jackpot and commit | `GateSale`, `ChargeSale`, `CommitSale`, `LoseSale` | `sale[t]` |
| `listen_to_roulette_results`, `process_settlement`, `process_keno_settlement` | `ReadChunk`, `CommitChunk`, `AbandonChunk` of each replica | `work[s]`, `view[s]`: the rows as they were SELECTed |
| `payout_ticket`, `cancel_ticket` | `AskPayout`, `AskCancel`: the row read is accepted; `Debit`: the register is called; `CommitStatus`, `LoseStatus` | `req[c]` with the amount computed from the row |
| the engine, as ticket-service sees it | `CloseBets`, `FinishRound` | `phase`, `drawn` |
| `CashRegister` | `Cash!Post` | `balance`, `postings` |

A commit writes the columns that changed, by primary key and without a version check, as
SQLAlchemy does. `Faults` selects what may fail: a call to the register that was posted
but not answered (`timeout`) or not posted (`unreachable`), a failed commit (`commit`), and a
`ROUND_FINISHED` some replicas miss (`event`). Jackpots are a number added at the sale; their
origin is `JackpotPots`. What the bets of a ticket win with a number is the constant `Gain`, and
`Malformed` tickets are those whose evaluation raises.

### JackpotPots

A contribution is a transaction: `image[t]` are the pots as the session loaded them, `draft[t]`
the rows it has written and holds until it commits. The atomic `UPDATE ... RETURNING` works on
the row; the hit is decided and paid on `image`, since a `SELECT ... FOR UPDATE` returns
the object of the identity map without refreshing it. Waiting for each other's rows is resolved by
Postgres (`Abort` of a deadlocked transaction). `credited` is what `create_ticket` does with the
answer: it credits the hits of the ticket being sold, and no others.

An image may even be from before another ticket's hit, that is of an earlier cycle. A hit decided on it is a second
win of that cycle and sets the pot back (section 5). `Fresh` tells the other wins by what the tables hold: the trigger's
audit row is of the cycle of the win. `HitOncePerCycle`, `NoMoneyInvented` and `TrailIsChained` are stated of pots all of whose
wins are fresh (`HitsAreFresh`); `CreditsAreWins` of all.

### ReplayPlans

`plan[p]` is the committed row. Each replica has an `inbox` of `phase_changed` events, `view[s]`
is what its generation SELECTed; a cancellation holds the row it read across the call to the
register. `Flushed` writes only the columns that differ from what was read. Money is counted in
stakes: one stake is one round of one plan.

### KenoRounds

`pc` is the await `game_loop` stands at. `shown` is `current_phase_state` in the process and
`gate` is `keno:current_state` in Redis; `SetPhase` changes the first, tells the displays,
then writes the second, and an error of Redis in between sends the loop to its top. `history` is the
highest id in `keno:history`, which is all a restart looks at. `PassGate`, `Commit` and
`Settle` are ticket-service, reduced to what the numbering of draws can harm.

### EngineFeed

`engine` is the state of the engine and `step` what its loop has changed but not yet broadcast
(`Announce`, `Lock`). `Register` adds a connection, `Welcome` sends it the state as it is after the
request to jackpot-service, so frames of the loop may come first. On the screen, `kind` is which
of the hooks it runs: `agentKeno`, `agentRoulette` (agent-web's `useKenoWs`, `useRoulette`), `adminKeno`,
`adminRoulette` (backoffice's `useKenoWs`, `useRouletteWs`). They differ in the frames they handle
(`Clears`, `Handle`) and in the guard of their `onclose` (`Guarded`, `Reconnects`). An effect of React is numbered,
as its closures are: a socket and a timer belong to the effect that created them (`Mount`, `Unmount`,
`ChangeKiosk`). `Drop` and `Closed` are two events, as in a browser, and the page may be left in between. `Connect` is the
constructor of a socket: it succeeds (`Connects`) or throws (`Throws`), upon which Keno's hooks schedule a retry and the
roulette's do not (`gaveUp`, section 5).

### BetPayouts

One bet goes through `ChooseMode`, `Point`, `ClickZone` (or `Tick`, `Untick`, `ChangeSpots`, `AddToSlip` of Keno),
`SellBet` and `Draw`. `Zones` are the zones `BettingGrid` has, `Lit` the numbers that light up under the mouse,
`WinsOn` and `Factor` the conditions of `_calculate_payout_raw`, `ServerPaytable` the table of `keno_rules.py`,
and `ReceiptGain`, `SlipGain`, `AdminGain` what the screens announce from tables of their own. `RoundDown` is the
rounding to 50 XAF. The receipt is `Math.floor` of a product of doubles: `FlooredShort` says for which lines that is a franc
less than the product of decimals the service pays.

### PosTerminal

`store` is the `localStorage`, `page[t]` the React state of window `t`: its user, the slip it shows,
the round it believes open, and the slip whose answer it waits for. `sale[s]` is the request of slip `s`; it keeps
the cashier it names and the token that signed it, which differ after somebody else signed in in another
window. `Submit` sends it, `Check` and `Sell` are the checks and the commit of `create_ticket` with the end of a
round in between, `SoldAnswer`, `Failed` and `Lose` what the page hears, `Refuse` a failed check.
`CloseBets`, `Finish` and `NextRound` are a round of either engine. `Finish` publishes `ROUND_FINISHED`, and the listener settles the
round, or the event is lost. `NextRound` may come at any time, as the loops go back to their top after an exception; `Disable`
and `Restart` are Keno's maintenance and resumption, with a history that may lack any number of its last draws. A ticket
that is PENDING is `due`, `missed` (nobody heard of the result of its round) or `late` (committed when the round was over).
`Login`, `HandOver`, `Logout`, `Reload` and `BalanceAnswer` are `AuthProvider` and the parent that hands over sessions.

### TicketDesk

`receipt` is `lastTicket` of the sale page with its poll, `view` the ticket of the verifier or of the list's detail,
`gets` the reads of single tickets, `fetches` those of the list, `pays` the payouts, each checked,
debited and committed as `TicketLifecycle` has it. A read takes its value in one step (`Read`) and is
answered in another (`PollAnswer`, `Answer`), in any order. Leaving a page forgets what it waited for (`Leave`).
`unheard` counts the payouts whose outcome the cashier did not learn: a broken connection, a page
that was left, a receipt that was closed.

### PotAdmin

`pots` is the table; a pot is who it is (scope, game, kiosk, tier) and the columns followed here. `SubmitEdit`
loads the row without a lock and `Edit` commits the columns that differ from that copy (`Flushed`), as the ORM
does; `Begin`, `Grow` and `Hit` are a ticket that feeds a pot with the image its session has.
`EnsureLocal` creates the pots of a kiosk with its first ticket. `Typed`, `Identified` and `Free` are the three filters
of a creation: the form, the service, and the partial unique indexes. `Lists` are the pots a console has heard of,
any subset of the table, and `Editable` what its page lets one open from them.

## 3. The runs

| Run | Instance | Distinct states | Shows |
|---|---|---|---|
| `cash_register` | 2 agents, 3 requests, amounts -1 and 2 | 99 072 | `AuditChained`, `AnswersAreTrue`, `ImplementsLedger`, `EveryRequestEnds` |
| `ticket_faults` | 2 tickets (one malformed), 2 clients with 2 calls each, 2 replicas, chunks of 1, all faults | 835 949 | the five invariants and `LostStaysUnpaid` that survive everything |
| `ticket_counter` | 2 tickets, 1 client with 3 calls, 1 replica, no fault | 3 181 | `PaidAtMostOnce`, `PaidIsFinal`, `SoldInTimeIsSettled` where they hold |
| `double_payout` | 2 clients, 1 replica | violated | two concurrent payouts of a ticket are both paid |
| `jackpot` | 3 tickets, 2 pots, failures, lost answers, redrawn thresholds | 60 592 | `HitOncePerCycle`, `NoMoneyInvented`, `TrailIsChained`, `CreditsAreWins`, `EveryContributionEnds` |
| `replay` | plans of 3 and 2 rounds, 1 replica, 2 cancellers, all faults | 724 895 | `TicketsMatchPlan`, `CancelledIsRefunded`, `OverIsOver` |
| `keno` | 1 synthetic and 2 real draws, 1 crash, 1 switch to maintenance, Redis and database errors | 2 443 756 | `AuditSurvivesFailures`, `GateSurvivesFailures`, `NoHitWaitsWhileIdle`, `SoldInTimeIsDrawn` |
| `feed` | the 4 hooks, 2 draws, 2 mounts, 2 sockets, 2 frames in flight, 2 faults (losses and exceptions) | 384 552 | `DisplayFollowsEngine`, `NumbersBelongToDraw`, `FeedsAreOwned`, `FeedComesBack` |
| `payouts` | every zone and mode of the table, Keno cards of every size, lines of one or two stakes of 100, 500 and 5000, every result | 429 324 | `LitIsWhatPays`, `ReceiptGainIsPaid`, `WinningLinePays` |
| `terminal` | 1 cashier, 2 windows inside a parent, 2 rounds with any failure of the engine, 2 slips, 2 tickets, 1 lost answer | 3 865 800 | `SoldTwiceOnlyAfterLoss`, `NoTicketIsStranded` |
| `desk` | 2 tickets, 2 reads, 2 payouts and 2 reads of the list at once, 1 outcome not heard | 1 859 353 | `ReceiptIsLatestSale`, `PaidAgainOnlyUnheard`, `ListCatchesUp` |
| `pot_admin` | 1 console, 2 calls at once, 2 pots of which 1 is fed, bounds to 2 | 367 580 | `EditsKeepMoney`, `ThresholdWithinBounds`, `EveryPotIsEditable` |

Every property of a passing run has a mutant: an operator in the module that replaces one
definition by what a plausible slip in the code would make of it (a lock not taken, an
error swallowed, a counter reset from the wrong place), and under which TLC finds the property
violated. `PROJECT.json` pairs them.

### Bounds, and why they are enough

* `CashRegister`: three requests are one holder of a lock, one that waits and one that comes
  later; with -1 and 2 a register is filled, emptied exactly and overdrawn, and two agents show
  that their locks are independent. Requests are handled once; the proofs drop all these bounds.
* `TicketLifecycle`: `Batch = 1` makes a round of two tickets take several chunks and end on an
  exact multiple; two replicas, two clients and two calls each give every pair of handlers on one
  ticket, and a retry. `Float = 1` makes registers too poor for some payouts. With
  three calls the lone client of `ticket_counter` can pay, try again and cancel. The proofs drop
  the bounds, except for what only holds of one counter and one replica.
* `JackpotPots`: two tickets reach a threshold, and a third feeds the pot between the image and the
  hit, and two of them reach the general pot's threshold alone, so that an image can be from before a hit (the
  run has such hits: `OneWinnerPerCycle` fails in it); the two pots have a cap that bites and one that does not, a seed and
  none, and both kinds of winner. Each ticket contributes once, so cycles are at most as many as tickets.
* `ReplayPlans`: `MaxRound = 4` lets a plan of three rounds miss one and still end; two
  cancellations are one during each step of the other.
* `KenoRounds`: the second draw shows what the first leaves behind; one crash can fall at any
  await of either. No step relates two tickets or two hits, so one of each is enough. The history holds the 200 latest
  draws in the code; at most three occur here, so its trimming does not show.
* `EngineFeed`: the first draw of the engine and one that replaces it on the screen; two mounts are a page that is
  left and opened again, two sockets the one that dies and the one that replaces it, two frames a welcome and what overtook
  it, two faults a loss or an exception during the recovery from a loss.
* `BetPayouts`: 37 numbers, all zones and Keno cards of all sizes are enumerated; 100 is the least stake, 500 one
  with a different remainder, and 5500, one of each of 500 and 5000, the smallest line whose receipt is a franc short of the payment;
  two clicks (`MaxLine`) on a zone give a line of two stakes. `MaxGain` keeps gains within TLC's integers (cards of 11 spots
  reach it). The matches of a card stand for
  its numbers, since a payout counts them.
* `PosTerminal`: two windows of a cashier give each mixture of token and user that a request can meet: it compares the
  token with the cashier it names, and to it the token of another is the same as none. The proofs are for any number of
  cashiers. In two rounds a ticket can be late or missed; the second slip is the one begun while the first is sold. Windows
  are interchangeable, and only invariants are checked, so symmetry is sound.
* `TicketDesk`: two of everything under way is what it takes to answer in the wrong order, and two tickets
  to answer about the wrong one. A mishap allows one payout too many, and no second.
* `PotAdmin`: two calls are an edit or a creation during another, one threshold step (`MaxBound = 2`) is reached by one
  contribution and redrawn by an edit; only the first pot is fed (`Watched`), since nothing but identity
  relates two pots. The proof drops these bounds. Calls are interchangeable, and only invariants are checked.

`CHECK_DEADLOCK FALSE` is set where a model ends when its bounded requests, rounds or draws are
used up: in all runs but `payouts`, `terminal`, `desk` and `pot_admin`, where users can always go on.

### Fairness

Safety is checked and proved without any. The liveness properties assume weak fairness of
the steps that the code takes by itself: a handler that has been entered and can go on does so (the
event loop runs ready coroutines, and Postgres queues waiters for row locks); the listener takes the messages
it is given; `game_loop` never returns, and its container is restarted
(`restart: unless-stopped` in `docker-compose.prod.yml`). None is assumed of clients, operators,
draws of luck or failures. `SoldInTimeIsSettled` speaks of rows committed while bets are open, in
a run in which no event is lost; `SoldInTimeIsDrawn` holds for executions in which Redis does
not fail and the game is not switched off, as its antecedent says. `FeedComesBack` assumes the engine's
broadcasts, the server's handlers and the browser's events and timers (`Announce`, `Lock`, `Register`, `Welcome`, `Open`,
`Closed`, `Message`, `Retry`), not that rounds begin or users act, and connections that are lost, or not created, finitely often, which the
bound on faults says. It asks nothing of a roulette hook whose constructor threw (section 5). `ListCatchesUp` assumes the interval of the list and the answers to its reads (`Fetch`, `FetchRead`,
`FetchAnswer`).

## 4. What is proved

Eight modules of proofs, for every value of the constants that satisfies the
assumptions stated in the component modules (types of the parameters, positive wagers, gains that are not
negative, sentinels outside the sets they complete). Nothing is assumed about the number of
agents, requests, cashiers, windows, consoles or replicas, but where `Alone` is said; the set of tickets of `TicketLifecycle` is finite.

**`CashRegister_proofs`.** A balance is written as *seen + amount*, so an update is lost unless
what was seen is still the balance. The inductive invariant `IInv` therefore adds to the
properties: who is between its SELECT and its commit holds the lock of its register, and what
it has seen is the committed balance (`LockProtects`); and audit rows belong to requests that ran, with one for each that
committed (`RowsOwned`, `CommittedHasRow`). Every step keeps it because
only the holder of a lock writes the row. From it follow `TypeOK` (no overdraft),
`AuditChained`, `AnswersAreTrue`, and `RegisterImplementsLedger`: initial states map to initial
states of `CashLedger`, and every step maps to a posting, the opening of a register, or a stutter.

**`TicketLifecycle_proofs`.** Here the copies *are* stale: a replica writes what it computed
from rows it read before another replica settled them or a client was paid. The invariants
survive since the copies are stale in known ways only, which `IInv` spells out:

* `ViewsAreTrue`: a row a replica SELECTed was not settled then, so the payout in it is the
  jackpot and nothing else, and settling from it gives the same sum whoever does it;
* `RequestsAreTrue`: the amount a client is about to be paid was owed when it was computed,
  and an amount once owed stays in the set of what is owed;
* `PostingsAreTrue`: a sale that is about to commit has its stake posted, and postings of a ticket
  are as its handlers make them;
* `SalesInStep`, `RoundInStep`: nothing is known of a ticket before its row, and nothing settled
  before the draw.

One lemma per action shows that it keeps `IInv`; the theorems are its conjuncts:
`SettlementIsExact`, `StatusTellsTheTruth`, `NoTicketWithoutMoney`, `OnlyOwedIsPaid`, and the action
property `LosersStayUnpaid`. So the failures found below are not failures of settlement: no interleaving
of replicas counts winnings twice or drops a jackpot.

The second part of the module: what two counters break (section 5) holds at one, with one replica, if no answer of the
register and no commit is lost (`Alone`); registers may refuse or be unreachable, `ROUND_FINISHED` may be missed. To
`IInv` it adds `Fresh`: a row that a chunk read PENDING is PENDING or CANCELLED, since the only counter pays WON tickets
(`RowsAhead`); a ticket whose payout is under way is WON, and one whose cancellation is under way not PAID
(`CallsAhead`); what the register paid for is PAID, or about to be (`PaymentsEnd`). A payout is asked for
WON tickets only, so a second one finds nothing to start from. Theorems: `PaidOnceAtOneCounter`, `PaidStaysPaid`. Each part of `Alone` is
needed: with a second client, a lost answer or a lost commit TLC finds two payouts (the latter two leave WON behind, and the payout is
repeated), and with a second replica PAID becomes WON again.

**`JackpotPots_proofs`.** The row lock is taken by the first UPDATE and held to the commit, but the hit is decided on an
image that may be older. What makes this harmless within a cycle, and only there, is that the amount of a cycle only
grows. `IInv` says so of every pot whose wins are fresh: an image of the current cycle is not richer than the row
(`ImagesAreOld`), cycles that were won are over and the trail of the current one ends at the row (`CyclesEnd`, `TrailGoesOn`), and
what was paid is covered (`Funded`); and of every transaction that a row has one writer (`RowsLocked`), whose draft is one
contribution, and at most one hit, ahead of the row as committed (`Drafted`). Begin, Feed, Abort and Redraw leave the committed store as
it is; the commit is the step where the drafts become rows, one pot at a time: untouched (`UntouchedPot`), fed
(`FedPot`), or hit (`HitPot`). A win that turns out not to be fresh takes its pot out of the invariant, and
never back in (`FreshBefore`). Theorems: `OneHitPerFreshCycle`, `FundsSuffice`, `AuditTrail`, `CreditsCovered`.
Nothing in these four depends on what a ticket contributes or where thresholds lie; `AuditTrail` leaves out a cap that equals the seed.
The attempt to prove them without the condition on wins is what showed `OneWinnerPerCycle` to fail: the earlier instance had
no ticket that reaches a threshold alone.

Their sums are `SumFunctionOnSet` of the community modules, a recursive function over subsets. The first part of the
module proves what is needed of it (`SumUnfolds`, `SumOfNaturals`, `SumRemove`, `SumAdd`, `SumGrows`), for every function into the
naturals. An induction theorem cannot be instantiated here; instead each lemma takes the set of subsets that refute it and, by
`FS_StrictSubsetOrderingWellFounded`, a smallest one in it. That the recursive definition has a solution at all is proved the same way
(`SumsExist`, `SumsAgree`).

**`ReplayPlans_proofs`.** Both handlers write into a status only COMPLETED or CANCELLED, and who read an ACTIVE row writes
no ACTIVE back, as only changed columns are written: `PlansStayOver`, and `TypeCorrect` with rounds that are never
negative, hold with any number of replicas (`Shared`). Counters need one replica (`Alone`): what its generation read then
differs from the row by a cancellation only (`Generating`), and what a cancellation read is older by rounds played
since, whose refund is then too high but never too low (`Cancelling`). Theorems: `CountersMatchTickets`,
`NobodyIsShortChanged`, through every failure.

**`KenoRounds_proofs`.** Until a crash, draw ids only grow: what events, tickets and the audit table say of
an id is said of one draw, and nothing is known of a draw to come (`OneDrawPerId`). The loop shows numbers only
after Redis has taken a phase that shuts the gate, and a round that was given up is never revealed
(`GateFollows`). While the queue of celebrations is flushed and bets are taken the displays are idle (`Idles`), so that the
task that hears of a hit does not queue it then; this holds through crashes. Theorems: `AuditAgrees`, `GateIsShut`, `HitsAreCelebrated`.

**`PosTerminal_proofs`.** A slip may be submitted again as long as a page shows it and nothing about it is
under way. So that a slip is sold at most once more than answers were lost, one that may still be sold has to be one sale short of
that (`SoldBefore`), and the answer to a sale has to take the slip off its page: a slip is on one
page (`OnePage`), which waits for the answer whatever the cashier does to the lines meanwhile (`Awaited`). Which tickets are
stranded: those of a round that was abandoned or whose event was lost, and those committed after the end of their round; that there are
no others follows from `Gated`, since the check compared the round, and from what each step of the engine does to the rounds
it ends or leaves. Theorems: `SoldOnceUnlessLost`, `OnlyLateOrMissedAreStranded`.

**`PosTerminal_proofs`, `BetPayouts`** (`BetInit`, `BetNext` and `BetSpec`, again for the module to extend both). The run clicks twice at
three stakes; the theorems hold for all stakes of the pages and any number of clicks, for which an amount of any size meets the tables.
What they need of it is `Line`: it is a whole number of hundreds and at least one. Then multiplying by hundredths loses nothing
(`TimesOfHundreds`), a larger multiplier pays no less (`Scaled`), so that the table of `keno_rules.py` pays at most its last column, which is
what both tables of agent-web announce (`KenoTables`), the receipt less a franc at most (`FlooredShort`); and the least a winner gets before rounding is 0.81 of 100, more than one coin of 50,
so that `RoundedDown` leaves something. `ZoneLights` takes every kind of zone and compares the numbers its button lights
with those the settlement names. Theorems: `LightsArePaid`, `AnnouncedIsPaid`, `WinnersArePaid`.

**`TicketDesk_proofs`.** The verifier waits for one payout at a time, and as long as it does, or reads the ticket
again afterwards, its button is disabled (`PayButton`). Payouts it no longer waits for were given up, which
counted as one outcome not heard; `Budget` books the debit each of them may still make. What is left is one debit, of the payout
that is waited for or of the one that made the ticket PAID (`Spent`). Theorems: `NeverPaidTwiceByItself`,
`ReceiptFollowsSales`. The counting is by cardinality, which needs no induction: one step changes one payout.

**`Screens_proofs`, `PotAdmin`.** An edit writes columns of a row it loaded earlier. Money survives because an edit never
changes the amount of its copy, and a hit only empties a pot when its copy is as rich as the row
(`CopiesAreTrue`); bounds and threshold are written together or not at all. Pots have different
identities (`Distinct`), so that no cell of the page holds two. Theorems: `MoneyIsKept`, `ThresholdsFit`, `NoPotIsHidden`.

**`Screens_proofs`, `EngineFeed`** (whose `FeedInit`, `FeedNext` and `FeedSpec` are named so that the module can extend `PotAdmin`
as well). A closure of a hook has at most one socket or one timer (`OneFeedEach`), and a guarded hook has neither once its
page is left; that is `NoFeedIsLeaked`. Since owners differ, `MaxSockets >= MaxMounts` leaves a socket free whenever
one is created (`SpareSocket`, by the pigeonhole principle), so that this bound of the model hides nothing. It also follows that only one socket feeds the screen. For that one,
`FramesInOrder` relates screen, frames in flight and engine: there is a frame that left the screen as it is (`Shows`),
each frame in flight may follow the one before it (`Follows`), and the engine is where it may be after the last one it sent
(`EngineAfter`: its state, or one step ahead of it while the announcement is due). `Follows` says what the hooks need: `phase_changed` brings no numbers, so results may only follow
a frame that did (`Settled`). `ShownNext` shows each hook to be right about every frame that may follow; the engine's steps
and the welcome, wherever it falls among the broadcasts, keep the chain. What a screen shows between a reconnection and its welcome is
left open, and is arbitrary in the code (section 5). Theorems: `NoFeedIsLeaked`, `NumbersUnderTheirDraw`, `ScreenShowsEngine`.

Each component with proofs also has its `TypeOK` proved (`TypeCorrect`, `FeedTypeCorrect`, `BetTypeCorrect`). TLC checked every `IInv` as an invariant of
the instances above before it was proved.

**Model-checked only.** All liveness (TLAPS has no rule for fairness and `ENABLED` here). Every safety property that a passing
run checks is a theorem.

## 5. What the code does not do

The run `double_payout` shows one disagreement between the code and what it says of itself: *two
payouts at once are both paid*. `payout_ticket` refuses a PAID ticket, and the client calls the
server idempotent; the row is read without a lock and written after the register answered.

Six more are known. Each has its property in the module, and adding it to the configuration named here gives the
counterexample (the first one as a PROPERTY, the others as INVARIANTs):

1. *A settled ticket is cancelled* (`OnlyPendingIsCancelled`, `DoublePayout.cfg`). The status
   checked before the refund is not checked again when CANCELLED is written. The race has another end:
   a chunk that was SELECTed before the cancellation writes WON over CANCELLED, and the ticket is paid although its stake went
   back, with one counter, one replica and no failure (`RefundedIsNotPaid`, `TicketCounter.cfg`).
2. *A contribution disappears* (`NoMoneyLost`, `JackpotPots.cfg`). The hit is computed on the object the
   session loaded, and overwrites contributions committed since.
3. *A cycle has two winners* (`OneWinnerPerCycle`, `JackpotPots.cfg`). "un pot ne peut gagner qu'une fois par cycle" (`services/jackpot-service/app/main.py:211`), and
   `_try_claim_hit` is to return None when another ticket has claimed the hit: it compares cycle and threshold in the database,
   but then decides and pays on the object the session loaded before that hit. The pot is set back to the cycle after the old
   one, and what it pays is not covered.
4. *A plan gives back more than was paid* (`StakesCover`, `ReplayPlans.cfg`). The refund uses `rounds_remaining`
   as read, while a generation uses one of them or another cancellation refunds them all.
5. *A Keno draw id is drawn twice* (`SettledAsRecorded`, `KenoRounds.cfg`). The history a restart resumes from is
   written after the draw was published; `GET /verify` then answers other numbers than those that settled
   tickets.
6. *Maintenance opens the betting gate* (`GateShutOnceRevealed`, `KenoRounds.cfg`) under the id of the draw that
   is on the displays.

Known from reading, and left open by the properties, as their comments say:

* Tickets. With two replicas both generate the tickets of a plan for the same event, so `TicketsMatchPlan` holds
  for one replica only. A sale let in by the gate whose row is committed after the settlement stays PENDING
  (`SoldInTimeIsSettled` excludes it, and `NoTicketIsStranded` knows it as `late`). A lost answer leaves the slip on the page, and submitting it
  again sells it again: there is no idempotency key. The tickets of a round of roulette that ends with an exception or a restart
  (`services/game-roulette-service/app/main.py:513`), of a Keno round abandoned because Redis failed, and of a round whose
  `ROUND_FINISHED` no listener received are never settled (`missed`). A
  cancelled ticket's contribution stays in the pots, whatever `docs/jackpot-system.md` says. The replay plans of Keno
  wait for a `phase_changed` on `keno-events` that the engine never publishes.
* Sessions. A balance answered late writes the user who asked for it beside the token of the one who signed in since.
  Lines added while a sale is under way are emptied with it (`setBets([])`).
* Receipts. The receipt multiplies in binary fractions, the service in decimals: with 22.4, the highest multiplier of 3 spots, some
  lines are announced a franc short (5500 gives 123 199.99…, so 123 199, where 123 200 is paid). `ReceiptGainIsPaid` allows that
  franc for the lines of `FlooredShort`. Of the other multipliers 2.74 and 5.03 are stored a little too high, and the rest are whole.
* Desk. Answers of the verifier to two searches may come in the wrong order and reopen the first ticket; a
  payout that succeeded shows an error when the read after it fails; two reads of the list may arrive in the wrong order,
  until the next one; the re-render of each second restarts the two-second timer of the receipt's poll, which
  therefore hardly fires; receipts show CANCELLED as lost.
* Screens. `README.md:408` and `docs/BACKEND_PROTOCOL (1).md:40` have clients reconnect by themselves. After an exception of the
  constructor the hooks of the roulette do not: `useRouletteWs` of the backoffice catches it and schedules nothing (`connect`, line 60), and
  `useRoulette` of agent-web does not catch it (line 91). `FeedComesBack` asks it of Keno's hooks only, and of the roulette's
  as long as no attempt threw (`gaveUp`); without that exception it fails. `useRoulette` and `useRouletteWs` have no guard in `onclose`, and connect again after their page was left
  (`FeedsAreOwned` asks it of the guarded hooks only). A Keno screen whose `draw_locked` overtook its
  welcome shows the numbers of one draw under the id of another, until the welcome.
* Jackpots page. Two edits at once may leave crossed bounds, after which every hit of the pot raises in
  `draw_threshold` (`FeedFails`); a form filled from an old list reverts what another console changed since; an answer closes the
  modal of its kind, whichever pot that shows by then; a pot of scope GAME may have a tier, which no line of the page shows.

## 6. What is not modelled

* STREET and SIX_LINE bets, which no page can place (`OddsTable` has no button for their mode), malformed
  targets, and the medals of Keno.
* The derivation of numbers from seeds, the history and hash commitment of the roulette engine, its on-demand
  spins and its loop beyond what tickets and screens see of it.
* Accounts, login on the server and kiosk codes with their caches: the stale answers end by the clock.
* Which share of a ticket feeds a pot, who may win it, and the switch that disables it.
* agent-web's adapter to an external operator, whose promises are not in the repository, and `useRoulette`'s polling
  inside it; the jackpot displays and overlays, which decide nothing.
* The other pages of the backoffice and `useAdminWs`: forms over one record and tables of what the services
  answer. Statistics, admin events, migrations, deployment, simulators.
* Durations: a phase ends when it likes, a timer fires when it likes. No property depends on how long one lasts.
* Widths: amounts are integers of XAF, as the columns are; Python's integers and the numeric columns do not
  overflow at the sums involved. Multipliers are hundredths. What binary fractions do to the gain on the receipt of agent-web
  is modelled for the stakes the pages offer (`FlooredShort`); the slip and the other receipt multiply whole numbers.

## 7. Plan

Done: `CashLedger`, `CashRegister`, `TicketLifecycle`, `JackpotPots`, `ReplayPlans`, `KenoRounds`, `PosTerminal`,
`TicketDesk`, `PotAdmin`, `EngineFeed` and `BetPayouts`, with proofs.

Left, in order:

1. `RouletteEngine`: the other loop, of which `PosTerminal` has the rounds that are abandoned but not what becomes of their
   ids after a restart; composed with the commitment to the seed's hash.
2. `KioskCodes`: codes, their recycling, and the caches that outlive them.
3. An abstract draw, a commitment followed by one reveal, implemented by `KenoRounds` without restarts. (A ticket as its
   customer sees it would not be implemented: see the first known disagreement.)
