------------------------------ MODULE PotAdmin ------------------------------
(***************************************************************************)
(* The jackpots page of the backoffice (Jackpots.jsx) and the endpoints of *)
(* jackpot-service behind it: pots are listed, created and edited at       *)
(* several consoles while sold tickets feed them, and hits start their     *)
(* next cycle.                                                             *)
(*                                                                         *)
(* An edit is two steps of the service: it loads the row without a lock,   *)
(* and its commit writes the columns that differ from that copy.  Of the   *)
(* rules of a pot only the bounds of the secret threshold are kept: the    *)
(* others decide what a ticket adds and who wins, JackpotPots' subject.    *)
(* One ticket is sold at a time, and hits empty the pot.                   *)
(***************************************************************************)
EXTENDS Naturals, Sequences

CONSTANTS
  Consoles,
  Games,
  Kiosks,
  Tiers,
  None,     \* an empty field
  Identities, \* what is typed into the form of a new pot
  MaxPots,  \* pots that are created: a bound of the model
  Watched,  \* the pots whose rules and money are followed: a bound of the model
  Calls,    \* edits and creations under way at once: a bound of the model
  MaxBound  \* the largest bound of a threshold: a bound of the model

Names ==
  [scope : {"GLOBAL", "GAME", "LOCAL"}, game : Games \cup {None},
   kiosk : Kiosks \cup {None}, tier : Tiers \cup {None}]

ASSUME PotAdminAssumption ==
  /\ Identities \subseteq Names
  /\ None \notin Games \cup Kiosks \cup Tiers \cup Consoles
  /\ {MaxPots, MaxBound} \subseteq Nat \ {0}
  /\ Watched \subseteq 1..MaxPots

VARIABLES
  pots,   \* the table: pots are numbered as they are created, and never deleted
  fed,    \* contributions of the current cycle of each pot
  raced,  \* the pots whose threshold or bounds were last set from an old copy
  sale,   \* the pot a ticket is about to feed, and the copy its session has
  calls,  \* edits and creations under way
  modal   \* the modal of each console

vars == <<pots, fed, raced, sale, calls, modal>>

Ids == 1..MaxPots
Bound == 1..MaxBound

Rules == [lo : Bound, hi : Bound]

Unused == [lo |-> 1, hi |-> 1, threshold |-> 1, amount |-> 0]
NoCall == [by |-> None, kind |-> "none", id |-> 0, copy |-> Unused, open |-> FALSE]
NoSale == [id |-> 0, copy |-> Unused]
NoModal == [kind |-> "closed", id |-> 0]

Stored == DOMAIN pots

Columns == [lo : Bound, hi : Bound, threshold : Bound, amount : 0..MaxBound - 1]

Pots == [who : Names, row : Columns]

TypeOK ==
  /\ pots \in Seq(Pots) /\ Len(pots) <= MaxPots
  /\ fed \in [Ids -> 0..MaxBound - 1]
  /\ raced \subseteq Stored
  /\ sale \in [id : {0} \cup Stored, copy : Columns]
  /\ calls \in [Calls ->
       [by : Consoles \cup {None}, kind : {"none", "edit", "create"}, id : {0} \cup Stored,
        copy : Columns, open : BOOLEAN]]
  /\ modal \in [Consoles -> [kind : {"closed", "edit", "create"}, id : {0} \cup Stored]]

Init ==
  /\ pots = <<>>
  /\ fed = [p \in Ids |-> 0]
  /\ raced = {}
  /\ sale = NoSale
  /\ calls = [n \in Calls |-> NoCall]
  /\ modal = [c \in Consoles |-> NoModal]
-----------------------------------------------------------------------------
(* Identities.                                                             *)

\* What the form of a new pot demands.  The fields it hides for a scope keep what was
\* typed before, and are sent.
Typed(who) ==
  /\ who.scope # "GLOBAL" => who.game # None
  /\ who.scope = "LOCAL" => who.kiosk # None /\ who.tier # None

\* The identities the inputs of CreateModal let through.
NewPots == {who \in Identities : Typed(who)}

\* _validate_pot_identity.
Identified(who) ==
  \/ who.scope = "GLOBAL" /\ who.game = None /\ who.kiosk = None /\ who.tier = None
  \/ who.scope = "GAME" /\ who.game # None /\ who.kiosk = None
  \/ who.scope = "LOCAL" /\ who.game # None /\ who.kiosk # None /\ who.tier # None

\* The partial unique indexes.
Free(who) == \A p \in Stored : pots[p].who # who

\* A new pot, with its first threshold.
Added(who, lo, hi) ==
  LET pot(l, h, th) ==
        [who |-> who, row |-> [lo |-> l, hi |-> h, threshold |-> th, amount |-> 0]]
  IN IF Len(pots) + 1 \in Watched
     THEN \E th \in lo..hi : pots' = Append(pots, pot(lo, hi, th))
     ELSE pots' = Append(pots, pot(1, 1, 1))
-----------------------------------------------------------------------------
(* Tickets.                                                                *)

\* _ensure_local_pots: the first ticket of a kiosk in a game creates its LOCAL pots.
EnsureLocal(g, k, t) ==
  LET who == [scope |-> "LOCAL", game |-> g, kiosk |-> k, tier |-> t] IN
    /\ Len(pots) < MaxPots
    /\ Free(who)
    /\ Added(who, 1, MaxBound)
    /\ UNCHANGED <<fed, raced, sale, calls, modal>>

\* contribute selects the enabled pots of the ticket.
Begin(p) ==
  /\ sale = NoSale
  /\ sale' = [id |-> p, copy |-> pots[p].row]
  /\ UNCHANGED <<pots, fed, raced, calls, modal>>

Grown(row) == [row EXCEPT !.amount = @ + 1]
Reached(row) == row.amount >= row.threshold

\* The hit is decided on the row, and again on the object the session loaded before.
Hits == Reached(Grown(pots[sale.id].row)) /\ Reached(Grown(sale.copy))

Grow ==
  /\ sale # NoSale
  /\ ~Hits
  /\ pots' = [pots EXCEPT ![sale.id].row = Grown(@)]
  /\ fed' = [fed EXCEPT ![sale.id] = @ + 1]
  /\ sale' = NoSale
  /\ UNCHANGED <<raced, calls, modal>>

\* Mutant of Flushed: every column is written.
FlushedWhole(new, loaded, stored) == new

\* The ORM writes the columns that differ from what it loaded.
Flushed(new, loaded, stored) ==
  [f \in DOMAIN new |-> IF new[f] = loaded[f] THEN stored[f] ELSE new[f]]

SameBounds(a, b) == a.lo = b.lo /\ a.hi = b.hi

\* The threshold of p was drawn from copy: was that still its row?
Judge(p, copy) ==
  raced' = IF SameBounds(copy, pots[p].row) /\ copy.threshold = pots[p].row.threshold
           THEN raced \ {p} ELSE raced \cup {p}

\* _process_hit draws within the bounds of the loaded object.
Hit ==
  LET p == sale.id
      grown == Grown(sale.copy)
  IN
    /\ sale # NoSale
    /\ Hits
    /\ \E th \in grown.lo..grown.hi :
         pots' = [pots EXCEPT ![p].row =
           Flushed([grown EXCEPT !.amount = 0, !.threshold = th], grown, Grown(@))]
    /\ fed' = [fed EXCEPT ![p] = 0]
    /\ Judge(p, sale.copy)
    /\ sale' = NoSale
    /\ UNCHANGED <<calls, modal>>

\* draw_threshold raises on crossed bounds, or the database fails: nothing is fed.
FeedFails ==
  /\ sale # NoSale
  /\ sale' = NoSale
  /\ UNCHANGED <<pots, fed, raced, calls, modal>>
-----------------------------------------------------------------------------
(* The page.                                                               *)

\* What a console lists: some of the pots, as answers of loadPots are late and overtake each
\* other, and handleCreated adds a pot to what is there.
Lists == SUBSET Stored

Cards(S) == {p \in S : pots[p].who.scope # "LOCAL"}

\* Mutant of Line: the key of a line is the kiosk alone.
LineOfKiosk(S, p) ==
  {q \in S \ Cards(S) : pots[q].who.kiosk = pots[p].who.kiosk}

\* The pots of one line of LocalTable.
Line(S, p) ==
  {q \in S \ Cards(S) : /\ pots[q].who.kiosk = pots[p].who.kiosk
                        /\ pots[q].who.game = pots[p].who.game}

\* The pot a tier's cell shows: the last of the line that has the tier.
Cell(S, p) ==
  LET same == {q \in Line(S, p) : pots[q].who.tier = pots[p].who.tier}
  IN CHOOSE q \in same : \A r \in same : r <= q

\* The pots with an edit button.
Editable(S) == Cards(S) \cup {Cell(S, p) : p \in S \ Cards(S)}

OpenEdit(c, p) ==
  /\ modal[c].kind = "closed"
  /\ \E S \in Lists : p \in Editable(S)
  /\ modal' = [modal EXCEPT ![c] = [kind |-> "edit", id |-> p]]
  /\ UNCHANGED <<pots, fed, raced, sale, calls>>

OpenCreate(c) ==
  /\ modal[c].kind = "closed"
  /\ modal' = [modal EXCEPT ![c] = [kind |-> "create", id |-> 0]]
  /\ UNCHANGED <<pots, fed, raced, sale, calls>>

\* C after the modal of c was closed: it no longer waits for any call.
Abandoned(c, C) == [n \in Calls |-> [C[n] EXCEPT !.open = @ /\ C[n].by # c]]

\* "Annuler", also while saving: the call goes on.
CloseModal(c) ==
  /\ modal[c].kind # "closed"
  /\ modal' = [modal EXCEPT ![c] = NoModal]
  /\ calls' = Abandoned(c, calls)
  /\ UNCHANGED <<pots, fed, raced, sale>>

Saving(c) == \E n \in Calls : calls[n].open /\ calls[n].by = c

\* validateForm.
Valid(rules) == rules.lo <= rules.hi

\* The rules the inputs of a form let through: each of them can be changed.
Form == {rules \in Rules : Valid(rules)}

Send(c, n, call) ==
  /\ ~Saving(c)
  /\ calls[n] = NoCall
  /\ calls' = [calls EXCEPT ![n] = [call EXCEPT !.by = c, !.open = TRUE]]

\* update_pot reads the row, without a lock.
SubmitEdit(c, n) ==
  LET p == modal[c].id IN
    /\ modal[c].kind = "edit"
    /\ p \in Watched
    /\ Send(c, n, [NoCall EXCEPT !.kind = "edit", !.id = p, !.copy = pots[p].row])
    /\ UNCHANGED <<pots, fed, raced, sale, modal>>

\* create_pot is one transaction.  What it refuses, 400 for the identity or 409 for a pot
\* that exists, changes nothing but the error the modal shows.
SubmitCreate(c, n) ==
  /\ modal[c].kind = "create"
  /\ Len(pots) < MaxPots
  /\ Send(c, n, [NoCall EXCEPT !.kind = "create", !.id = Len(pots) + 1])
  /\ \E who \in NewPots, r \in Form :
       Identified(who) /\ Free(who) /\ Added(who, r.lo, r.hi)
  /\ UNCHANGED <<fed, raced, sale, modal>>
-----------------------------------------------------------------------------
(* The answers.                                                            *)

\* Mutant of BoundsChanged: only the lower bound is compared.
LowerBoundChanged(rules, row) == rules.lo # row.lo

BoundsChanged(rules, row) == ~SameBounds(rules, row)

\* handleSaved and handleCreated close the modal of their kind, whichever pot it is of.
Heard(n) ==
  LET e == calls[n]
      closes == modal[e.by].kind = e.kind
      after == [calls EXCEPT ![n] = NoCall]
  IN
    /\ modal' = [modal EXCEPT ![e.by] = IF closes THEN NoModal ELSE @]
    /\ calls' = IF closes THEN Abandoned(e.by, after) ELSE after

\* An error, or no answer: the modal shows it, and may be submitted again.
Unheard(n) ==
  /\ calls' = [calls EXCEPT ![n] = NoCall]
  /\ UNCHANGED modal

\* update_pot sets the rules of the form and draws the threshold again if the bounds are
\* new; the commit; the answer.  The form was filled from the pot of the list when the
\* modal was opened, and every field may have been changed since.
Edit(n) ==
  LET e == calls[n] IN
    /\ e.kind = "edit"
    /\ \E r \in Form :
       \E th \in IF BoundsChanged(r, e.copy) THEN r.lo..r.hi ELSE {e.copy.threshold} :
         /\ pots' = [pots EXCEPT ![e.id].row =
              Flushed([e.copy EXCEPT !.lo = r.lo, !.hi = r.hi, !.threshold = th], e.copy, @)]
         /\ IF SameBounds(r, e.copy) THEN UNCHANGED raced ELSE Judge(e.id, e.copy)
    /\ Heard(n) \/ Unheard(n)
    /\ UNCHANGED <<fed, sale>>

EditFails(n) ==
  /\ calls[n].kind = "edit"
  /\ Unheard(n)
  /\ UNCHANGED <<pots, fed, raced, sale>>

Created(n) ==
  /\ calls[n].kind = "create"
  /\ Heard(n) \/ Unheard(n)
  /\ UNCHANGED <<pots, fed, raced, sale>>
-----------------------------------------------------------------------------
Console(c) ==
  \/ \E p \in Stored : OpenEdit(c, p)
  \/ OpenCreate(c)
  \/ CloseModal(c)
  \/ \E n \in Calls : SubmitEdit(c, n) \/ SubmitCreate(c, n)

Call(n) == Edit(n) \/ EditFails(n) \/ Created(n)

Ticket ==
  \/ \E g \in Games, k \in Kiosks, t \in Tiers : EnsureLocal(g, k, t)
  \/ \E p \in Stored \cap Watched : Begin(p)
  \/ Grow
  \/ Hit
  \/ FeedFails

Next ==
  \/ \E c \in Consoles : Console(c)
  \/ \E n \in Calls : Call(n)
  \/ Ticket

Spec == Init /\ [][Next]_vars
-----------------------------------------------------------------------------
(***************************************************************************)
(* Edits never touch the money: a pot holds what was contributed in its    *)
(* cycle, however edits that loaded it before overlap with contributions   *)
(* and hits.  The page sends every rule of a pot with each edit, and       *)
(* update_pot has no lock; it is the ORM that leaves current_amount alone. *)
(***************************************************************************)
EditsKeepMoney == \A p \in Stored : pots[p].row.amount = fed[p]

(***************************************************************************)
(* "on re-tire le current_threshold du cycle courant pour qu'il            *)
(* appartienne au nouvel intervalle" (services.py, update_pot): a pot's    *)
(* bounds are not crossed and its threshold lies between them, unless the  *)
(* edit or the hit that set them last worked on a copy another had changed *)
(* meanwhile.                                                              *)
(***************************************************************************)
ThresholdWithinBounds ==
  \A p \in Stored \ raced : pots[p].row.threshold \in pots[p].row.lo..pots[p].row.hi

(***************************************************************************)
(* Every pot a console lists can be edited there: no two pots share a cell *)
(* of the table of LOCAL pots, however pots come to exist, by hand at two  *)
(* consoles or by the first ticket of a kiosk.                             *)
(***************************************************************************)
EveryPotIsEditable == \A S \in Lists : Editable(S) = S
=============================================================================
