----------------------------- MODULE JackpotPots -----------------------------
(***************************************************************************)
(* jackpot-service: POST /internal/contribute feeds every eligible pot for *)
(* a ticket in one database transaction, and pays a pot that reaches its   *)
(* secret threshold.                                                       *)
(*                                                                         *)
(* Each pot is incremented by an atomic UPDATE ... RETURNING, whose row    *)
(* lock is held until the end of the transaction.  The hit is then decided *)
(* and paid on the ORM object, which the session loaded by a plain SELECT  *)
(* at the start: SELECT ... FOR UPDATE finds the object in the identity    *)
(* map and does not refresh what is loaded.  image holds that object; it   *)
(* may be older than the row.                                              *)
(***************************************************************************)
EXTENDS Integers, Sequences, FiniteSets, Functions

CONSTANTS
  Pots,
  Tickets,       \* tickets being sold, one contribute request each
  Contribution,  \* Contribution[t][p], 0 when t does not feed p
  Thresholds,    \* Thresholds[p]: what draw_threshold may return
  Base,          \* what a pot restarts from: seed_amount, or 0
  Cap,           \* max_payout, or 0 for none
  DrawsLots,     \* the pots whose winner is RANDOM_RECENT
  Faults         \* "database": a transaction may fail; "answer": may be lost

ASSUME PotsAssumption ==
  /\ IsFiniteSet(Pots)
  /\ Contribution \in [Tickets -> [Pots -> Nat]]
  /\ Thresholds \in [Pots -> SUBSET Nat]
  /\ Base \in [Pots -> Nat]
  /\ Cap \in [Pots -> Nat]
  /\ DrawsLots \subseteq Pots
  /\ Faults \subseteq {"database", "answer"}

VARIABLES
  pot,     \* JackpotPot rows, as committed: amount, threshold, cycle
  book,    \* JackpotContribution rows, as committed
  wins,    \* JackpotWin rows, as committed
  pc,      \* how far the request of each ticket is
  image,   \* the pots as the request's session loaded them
  queue,   \* the pots the request has still to feed, in the SELECT's order
  draft,   \* the pot rows its transaction has written and holds
  rows,    \* the contributions its transaction has inserted
  claims,  \* the wins its transaction has inserted
  credited \* what ticket-service has added to each ticket

store == <<pot, book, wins>>
session == <<image, queue, draft, rows, claims>>
vars == <<store, pc, session, credited>>

Row == [amount : Nat, threshold : Nat, cycle : Nat]
Contributions == [ticket : Tickets, pot : Pots, cycle : Nat, amount : Nat, after : Nat]
Wins == [pot : Pots, cycle : Nat, trigger : Tickets, winner : Tickets,
         payout : Nat, carryover : Nat]

Payouts == [w \in Wins |-> w.payout]
Amounts == [c \in Contributions |-> c.amount]

\* Rows of some of the pots, for every ticket.
HoldRows(copies) ==
  /\ DOMAIN copies = Tickets
  /\ \A t \in Tickets : \E S \in SUBSET Pots : copies[t] \in [S -> Row]

(***************************************************************************)
(* The types of the variables.  No pot goes below zero, whatever a capped  *)
(* payout leaves in it.                                                    *)
(***************************************************************************)
TypeOK ==
  /\ pot \in [Pots -> Row]
  /\ book \subseteq Contributions
  /\ wins \subseteq Wins
  /\ pc \in [Tickets -> {"new", "running", "committed", "answered", "failed"}]
  /\ HoldRows(image)
  /\ queue \in [Tickets -> Seq(Pots)]
  /\ HoldRows(draft)
  /\ rows \in [Tickets -> SUBSET Contributions]
  /\ claims \in [Tickets -> SUBSET Wins]
  /\ credited \in [Tickets -> Nat]

NoRows == [p \in {} |-> 0]

Init ==
  /\ \E th \in [Pots -> UNION {Thresholds[p] : p \in Pots}] :
       /\ \A p \in Pots : th[p] \in Thresholds[p]
       /\ pot = [p \in Pots |-> [amount |-> Base[p], threshold |-> th[p], cycle |-> 1]]
  /\ book = {}
  /\ wins = {}
  /\ pc = [t \in Tickets |-> "new"]
  /\ image = [t \in Tickets |-> NoRows]
  /\ queue = [t \in Tickets |-> <<>>]
  /\ draft = [t \in Tickets |-> NoRows]
  /\ rows = [t \in Tickets |-> {}]
  /\ claims = [t \in Tickets |-> {}]
  /\ credited = [t \in Tickets |-> 0]

Goto(t, label) == pc' = [pc EXCEPT ![t] = label]

\* Mutant of Unlocked: nobody waits for a row.
UnlockedAlways(p) == TRUE

\* No transaction holds the row of p.
Unlocked(p) == \A u \in Tickets : p \notin DOMAIN draft[u]

Eligible(t) == {p \in Pots : Contribution[t][p] > 0}

\* The SELECT has no ORDER BY: the pots come in any order.
Orders(S) ==
  {f \in [1..Cardinality(S) -> S] : \A i, j \in DOMAIN f : i # j => f[i] # f[j]}

\* SELECT of the enabled pots the ticket feeds, without a lock.
Begin(t) ==
  /\ pc[t] = "new"
  /\ image' = [image EXCEPT ![t] = [p \in Eligible(t) |-> pot[p]]]
  /\ queue' \in {[queue EXCEPT ![t] = order] : order \in Orders(Eligible(t))}
  /\ Goto(t, "running")
  /\ UNCHANGED <<store, draft, rows, claims, credited>>

Fed(row, t, p) == [row EXCEPT !.amount = @ + Contribution[t][p]]

\* Mutant of Grown: pot.current_amount += contrib on the loaded object.
GrownInMemory(t, p) == Fed(image[t][p], t, p)

\* The row after the UPDATE, and the loaded object, on which the ORM evaluates
\* the same SET clause.
Grown(t, p) == Fed(pot[p], t, p)
Loaded(t, p) == Fed(image[t][p], t, p)

Reached(row) == row.amount >= row.threshold

\* RETURNING reports a hit, and the object agrees.
Hits(t, p) == Reached(Grown(t, p)) /\ Reached(Loaded(t, p))

PayoutOf(p, amount) == IF Cap[p] > 0 /\ Cap[p] < amount THEN Cap[p] ELSE amount

\* RANDOM_RECENT draws among the contributors of the cycle.
Winners(t, p, cycle) ==
  IF p \in DrawsLots
  THEN {t} \cup {c.ticket : c \in {b \in book : b.pot = p /\ b.cycle = cycle}}
  ELSE {t}

\* Mutant of Restarted: the amount is not reset.
RestartedFull(p, row, payout, th) == [row EXCEPT !.threshold = th, !.cycle = @ + 1]

\* The pot after a hit: seed and carryover, a new threshold, the next cycle.
Restarted(p, row, payout, th) ==
  [amount |-> Base[p] + row.amount - payout, threshold |-> th, cycle |-> row.cycle + 1]

\* The ORM writes the attributes that changed since they were loaded.
Flushed(new, loaded, stored) ==
  [f \in DOMAIN new |-> IF new[f] = loaded[f] THEN stored[f] ELSE new[f]]

\* One pot: UPDATE ... RETURNING, the audit row, and the hit if there is one.
Feed(t) ==
  LET p == Head(queue[t])
      grown == Grown(t, p)
      loaded == Loaded(t, p)
      payout == PayoutOf(p, loaded.amount)
      write(row) == draft' = [draft EXCEPT ![t] =
                       [q \in DOMAIN @ \cup {p} |-> IF q = p THEN row ELSE @[q]]]
  IN
    /\ pc[t] = "running"
    /\ queue[t] # <<>>
    /\ Unlocked(p)
    /\ queue' = [queue EXCEPT ![t] = Tail(@)]
    /\ rows' = [rows EXCEPT ![t] = @ \cup
                  {[ticket |-> t, pot |-> p, cycle |-> grown.cycle,
                    amount |-> Contribution[t][p], after |-> grown.amount]}]
    /\ \/ /\ ~Hits(t, p)
          /\ write(grown)
          /\ UNCHANGED claims
       \/ /\ Hits(t, p)
          /\ \E th \in Thresholds[p], w \in Winners(t, p, loaded.cycle) :
               /\ write(Flushed(Restarted(p, loaded, payout, th), loaded, grown))
               /\ claims' = [claims EXCEPT ![t] = @ \cup
                    {[pot |-> p, cycle |-> loaded.cycle, trigger |-> t, winner |-> w,
                      payout |-> payout, carryover |-> loaded.amount - payout]}]
    /\ UNCHANGED <<store, pc, image, credited>>

\* Mutant of Rollback: the session of a failed request stays open.
RollbackForgotten(t) == UNCHANGED <<draft, rows, claims>>

\* The end of the transaction drops its writes and its locks.
Rollback(t) ==
  /\ draft' = [draft EXCEPT ![t] = NoRows]
  /\ rows' = [rows EXCEPT ![t] = {}]
  /\ claims' = [claims EXCEPT ![t] = {}]

Commit(t) ==
  /\ pc[t] = "running"
  /\ queue[t] = <<>>
  /\ pot' = [p \in Pots |-> IF p \in DOMAIN draft[t] THEN draft[t][p] ELSE pot[p]]
  /\ book' = book \cup rows[t]
  /\ wins' = wins \cup claims[t]
  /\ draft' = [draft EXCEPT ![t] = NoRows]
  /\ Goto(t, "committed")
  /\ UNCHANGED <<image, queue, rows, claims, credited>>

\* u waits for a row that v holds.
Waits(u, v) ==
  /\ pc[u] = "running"
  /\ queue[u] # <<>>
  /\ Head(queue[u]) \in DOMAIN draft[v]

\* Postgres breaks a cycle of waits by failing a transaction on it.
Deadlocked(t) ==
  \E D \in SUBSET Tickets :
    /\ t \in D
    /\ \A u \in D : (\E v \in D : Waits(u, v)) /\ (\E v \in D : Waits(v, u))

\* An exception anywhere is logged; the answer is empty ("fail-open").
Abort(t) ==
  /\ pc[t] = "running"
  /\ Rollback(t)
  /\ Goto(t, "failed")
  /\ UNCHANGED <<store, image, queue, credited>>

FallVictim(t) == Deadlocked(t) /\ Abort(t)
Fail(t) == "database" \in Faults /\ Abort(t)

\* Mutant of Award: ticket-service adds the hits whoever they are for.
AwardAll(t) ==
  /\ pc[t] = "committed"
  /\ credited' = [credited EXCEPT ![t] = SumFunctionOnSet(Payouts, claims[t])]
  /\ Goto(t, "answered")
  /\ UNCHANGED <<store, session>>

\* ticket-service adds the hits this very ticket won to its total_payout.
Award(t) ==
  /\ pc[t] = "committed"
  /\ credited' = [credited EXCEPT ![t] =
       SumFunctionOnSet(Payouts, {c \in claims[t] : c.winner = t})]
  /\ Goto(t, "answered")
  /\ UNCHANGED <<store, session>>

\* The answer does not arrive within 5 s: the sale proceeds without a hit.
LoseAnswer(t) ==
  /\ "answer" \in Faults
  /\ pc[t] = "committed"
  /\ Goto(t, "failed")
  /\ UNCHANGED <<store, session, credited>>

\* PATCH /admin/pots/{id} with new bounds draws the threshold again, mid-cycle.
\* Its UPDATE writes that column only, and waits for the row.
Redraw(p) ==
  /\ Unlocked(p)
  /\ \E th \in Thresholds[p] : pot' = [pot EXCEPT ![p].threshold = th]
  /\ UNCHANGED <<book, wins, pc, session, credited>>

Step(t) == Begin(t) \/ Feed(t) \/ Commit(t) \/ FallVictim(t) \/ Award(t)

Next ==
  \/ \E t \in Tickets : Step(t) \/ Fail(t) \/ LoseAnswer(t)
  \/ \E p \in Pots : Redraw(p)

Spec == Init /\ [][Next]_vars

\* The event loop, Postgres' lock queues and its deadlock detector go on.
FairSpec == Spec /\ \A t \in Tickets : WF_vars(Step(t))
-----------------------------------------------------------------------------
(***************************************************************************)
(* One winner per cycle ("un pot ne peut gagner qu'une fois par cycle"):   *)
(* displays deduplicate hits by pot and cycle.  Violated: a session that   *)
(* loaded a pot before another ticket's hit decides on that old image,     *)
(* records a second win of the cycle and sets the pot back.                *)
(***************************************************************************)
OneWinnerPerCycle ==
  \A v, w \in wins : v.pot = w.pot /\ v.cycle = w.cycle => v = w

\* The hit was decided in the cycle that its trigger fed, by the audit row.
Fresh(w) ==
  \E c \in book : c.ticket = w.trigger /\ c.pot = w.pot /\ c.cycle = w.cycle

HitsAreFresh(p) == \A w \in wins : w.pot = p => Fresh(w)

(***************************************************************************)
(* Such an image is the only way to get there: a pot none of whose hits    *)
(* was decided in an earlier cycle than it was triggered in has one winner *)
(* per cycle.  The row lock of the UPDATE is enough for that.              *)
(***************************************************************************)
HitOncePerCycle ==
  \A v, w \in wins :
    v.pot = w.pot /\ v.cycle = w.cycle /\ HitsAreFresh(v.pot) => v = w

Paid(p) == SumFunctionOnSet(Payouts, {w \in wins : w.pot = p})
Fund(p) == SumFunctionOnSet(Amounts, {c \in book : c.pot = p})
Seeded(p) == Base[p] * (1 + Cardinality({w \in wins : w.pot = p}))

(***************************************************************************)
(* Such a pot never pays money it was not given: what it paid and still    *)
(* holds is at most what tickets and its seeds put in, even when hits are  *)
(* paid on a stale copy of the amount.                                     *)
(***************************************************************************)
NoMoneyInvented ==
  \A p \in Pots : HitsAreFresh(p) => Paid(p) + pot[p].amount <= Fund(p) + Seeded(p)

(***************************************************************************)
(* ... and no contribution disappears: "every contributed XAF is           *)
(* eventually paid out (carryover guarantees no loss across a cycle)".     *)
(* Violated: a hit is paid on the pot its session loaded before another    *)
(* ticket fed it.                                                          *)
(***************************************************************************)
NoMoneyLost == \A p \in Pots : Paid(p) + pot[p].amount >= Fund(p) + Seeded(p)

InCycle(p, cycle) == {c \in book : c.pot = p /\ c.cycle = cycle}

\* What a cycle of p may start from.
Openings(p, cycle) ==
  IF cycle = 1 THEN {Base[p]}
  ELSE {Base[p] + w.carryover : w \in {v \in wins : v.pot = p /\ v.cycle = cycle - 1}}

(***************************************************************************)
(* The audit trail of a cycle of such a pot is a chain: in the order of    *)
(* pot_amount_after every contribution starts from what the one before it  *)
(* left, the first from the seed and the carryover of the previous hit,    *)
(* and none is lost before the hit.  A cap equal to the seed is left out:  *)
(* the hit may then leave the amount its session loaded, which is not      *)
(* written, so that the next cycle starts from the row's.                  *)
(***************************************************************************)
TrailIsChained ==
  \A c \in book : HitsAreFresh(c.pot) /\ Cap[c.pot] # Base[c.pot] =>
    \E o \in Openings(c.pot, c.cycle) :
      c.after = o + SumFunctionOnSet(Amounts, {b \in InCycle(c.pot, c.cycle) : b.after <= c.after})

(***************************************************************************)
(* What is put on a ticket is a jackpot it won: never one of a transaction *)
(* that was rolled back, never another ticket's.                           *)
(***************************************************************************)
CreditsAreWins ==
  \A t \in Tickets :
    credited[t] <= SumFunctionOnSet(Payouts, {w \in wins : w.winner = t})

(***************************************************************************)
(* Every contribution ends, whatever rows the tickets wait for in whatever *)
(* order: a jackpot never holds up a sale for good.                        *)
(***************************************************************************)
EveryContributionEnds ==
  \A t \in Tickets : (pc[t] = "running") ~> (pc[t] \in {"answered", "failed"})
=============================================================================
