--------------------------- MODULE Screens_proofs ---------------------------
(***************************************************************************)
(* Proofs about two kinds of screens: the jackpots page of the back office *)
(* (PotAdmin), for every number of consoles, calls and pots, and the       *)
(* screens that follow an engine (EngineFeed), for every number            *)
(* of draws, mounts, sockets, frames in flight and lost connections.       *)
(*                                                                         *)
(* PotAdmin.  An edit writes a row it loaded earlier.  EditsKeepMoney      *)
(* survives since the amount of that copy is never changed by an edit, and *)
(* by a hit only when the copy is as rich as the row (CopiesAreTrue); so   *)
(* it is left to what contributions wrote, or emptied together with the    *)
(* cycle.  ThresholdWithinBounds needs nothing but the rows themselves: an *)
(* edit writes either a threshold drawn for its bounds, or none of them.   *)
(*                                                                         *)
(* EngineFeed.  Each closure of a hook has at most one socket or timer, so *)
(* that one socket feeds the screen.  The frames in flight on it form a    *)
(* chain: from what the screen shows (Shows), each frame may follow the    *)
(* one before it (Follows), and the engine may be where it is after the    *)
(* last one (EngineAfter).  What a hook does with a frame is right for     *)
(* every frame that may follow the last it handled, which is why no order  *)
(* of the welcome and the broadcasts leaves the screen with numbers of     *)
(* another draw.                                                           *)
(***************************************************************************)
EXTENDS PotAdmin, EngineFeed, Integers, FiniteSets, SequenceTheorems, FiniteSetTheorems, TLAPS

\* No two pots have one identity: the partial unique indexes.
Distinct == \A p, q \in Stored : pots[p].who = pots[q].who => p = q

\* A number that is not given yet has no contributions.
Fresh == \A p \in Ids \ Stored : fed[p] = 0

\* The copy of a ticket's session holds the amount of the row until the ticket feeds it,
\* and edits are of pots.
CopiesAreTrue ==
  /\ sale.id = 0 => sale = NoSale
  /\ sale.id # 0 => sale.copy.amount = pots[sale.id].row.amount
  /\ \A n \in Calls : calls[n].kind = "edit" => calls[n].id # 0

IInv ==
  /\ TypeOK
  /\ Distinct
  /\ Fresh
  /\ CopiesAreTrue
  /\ EditsKeepMoney
  /\ ThresholdWithinBounds
-----------------------------------------------------------------------------
(* The table.                                                              *)

\* The numbers of the pots.
LEMMA StoredNumbers ==
  ASSUME pots \in Seq(Pots), Len(pots) <= MaxPots
  PROVE  /\ Stored = 1..Len(pots)
         /\ Len(pots) \in Nat
         /\ Stored \subseteq Ids /\ 0 \notin Stored
         /\ \A p \in Stored : pots[p] \in Pots
  <1>1. Len(pots) \in Nat /\ Stored = 1..Len(pots) /\ pots \in [1..Len(pots) -> Pots]
    BY LenProperties DEF Stored
  <1>2. QED
    BY <1>1, PotAdminAssumption DEF Ids

\* What the ORM writes: of every column what was set, if it differs from what was loaded.
LEMMA FlushedColumns ==
  ASSUME NEW new \in [lo : Nat, hi : Nat, threshold : Nat, amount : Nat],
         NEW loaded \in [lo : Nat, hi : Nat, threshold : Nat, amount : Nat],
         NEW stored \in [lo : Nat, hi : Nat, threshold : Nat, amount : Nat]
  PROVE  LET row == Flushed(new, loaded, stored) IN
         /\ row = [lo |-> row.lo, hi |-> row.hi, threshold |-> row.threshold,
                   amount |-> row.amount]
         /\ row.lo = IF new.lo = loaded.lo THEN stored.lo ELSE new.lo
         /\ row.hi = IF new.hi = loaded.hi THEN stored.hi ELSE new.hi
         /\ row.threshold = IF new.threshold = loaded.threshold THEN stored.threshold
                            ELSE new.threshold
         /\ row.amount = IF new.amount = loaded.amount THEN stored.amount ELSE new.amount
  <1>1. DOMAIN new = {"lo", "hi", "threshold", "amount"}
    OBVIOUS
  <1>2. QED
    BY <1>1 DEF Flushed

\* Writing the row of one pot.
LEMMA WriteRow ==
  ASSUME IInv, NEW p \in Stored, NEW row \in Columns,
         pots' = [pots EXCEPT ![p].row = row]
  PROVE  /\ pots' \in Seq(Pots) /\ Len(pots') = Len(pots)
         /\ Stored' = Stored
         /\ \A q \in Stored : /\ pots'[q].who = pots[q].who
                              /\ pots'[q].row = IF q = p THEN row ELSE pots[q].row
         /\ Distinct'
         /\ fed' \in [Ids -> 0..MaxBound - 1] /\ (\A q \in Ids \ Stored : fed'[q] = fed[q])
              => Fresh'
  <1> DEFINE pot == [pots[p] EXCEPT !.row = row]
  <1>1. /\ pots \in Seq(Pots) /\ Len(pots) <= MaxPots
        /\ p \in 1..Len(pots) /\ pots[p] \in Pots
    BY StoredNumbers DEF IInv, TypeOK
  <1>2. pot \in Pots /\ pots' = [pots EXCEPT ![p] = pot]
    BY <1>1 DEF Pots
  <1>3. /\ pots' \in Seq(Pots) /\ Len(pots') = Len(pots)
        /\ \A q \in 1..Len(pots) : pots'[q] = IF q = p THEN pot ELSE pots[q]
    BY <1>1, <1>2, ExceptSeq
  <1>4. Stored' = 1..Len(pots) /\ Stored = 1..Len(pots)
    BY <1>1, <1>3, LenProperties DEF Stored
  <1>5. \A q \in Stored : /\ pots'[q].who = pots[q].who
                          /\ pots'[q].row = IF q = p THEN row ELSE pots[q].row
    BY <1>1, <1>3, <1>4 DEF Pots
  <1>6. QED
    BY <1>3, <1>4, <1>5 DEF IInv, Distinct, Fresh

\* A new pot.
LEMMA AddPot ==
  ASSUME IInv, NEW who \in Names, NEW lo \in Bound, NEW hi \in Bound, lo <= hi,
         Len(pots) < MaxPots, Free(who), Added(who, lo, hi), UNCHANGED <<fed, raced, sale>>
  PROVE  /\ pots' \in Seq(Pots) /\ Len(pots') <= MaxPots
         /\ Stored \subseteq Stored' /\ Len(pots) + 1 \in Stored'
         /\ Distinct' /\ Fresh' /\ EditsKeepMoney' /\ ThresholdWithinBounds'
         /\ \A q \in Stored : pots'[q] = pots[q]
  <1> DEFINE n == Len(pots) + 1
  <1>1. /\ pots \in Seq(Pots) /\ Len(pots) \in Nat
        /\ Stored = 1..Len(pots) /\ Stored \subseteq Ids
    BY StoredNumbers DEF IInv, TypeOK
  <1>2. PICK pot \in Pots : /\ pots' = Append(pots, pot)
                            /\ pot.who = who /\ pot.row.amount = 0
                            /\ pot.row.threshold \in pot.row.lo..pot.row.hi
    <2> DEFINE new(l, h, th) ==
          [who |-> who, row |-> [lo |-> l, hi |-> h, threshold |-> th, amount |-> 0]]
    <2>1. CASE n \in Watched
      <3>1. PICK th \in lo..hi : pots' = Append(pots, new(lo, hi, th))
        BY <2>1 DEF Added
      <3>2. new(lo, hi, th) \in Pots
        BY <3>1, PotAdminAssumption DEF Pots, Columns, Bound
      <3>3. QED
        BY <3>1, <3>2
    <2>2. CASE n \notin Watched
      <3>1. pots' = Append(pots, new(1, 1, 1))
        BY <2>2 DEF Added
      <3>2. new(1, 1, 1) \in Pots
        BY PotAdminAssumption DEF Pots, Columns, Bound
      <3>3. QED
        BY <3>1, <3>2
    <2>3. QED
      BY <2>1, <2>2
  <1>3. /\ pots' \in Seq(Pots) /\ Len(pots') = n
        /\ \A q \in 1..Len(pots) : pots'[q] = pots[q]
        /\ pots'[n] = pot
    BY <1>1, <1>2, AppendProperties
  <1>4. Stored' = 1..n
    BY <1>3, LenProperties DEF Stored
  <1>5. Stored \subseteq Stored' /\ n \in Stored' /\ Stored' = Stored \cup {n} /\ n \notin Stored
    BY <1>1, <1>4
  <1>6. Distinct'
    <2>1. \A q \in Stored : pots'[q].who # pots'[n].who
      BY <1>1, <1>2, <1>3 DEF Free
    <2>2. QED
      BY <2>1, <1>1, <1>3, <1>5 DEF IInv, Distinct
  <1>7. n \in Ids /\ fed[n] = 0
    BY <1>1, <1>5, PotAdminAssumption DEF Ids, IInv, Fresh
  <1>8. EditsKeepMoney'
    BY <1>1, <1>2, <1>3, <1>5, <1>7 DEF IInv, EditsKeepMoney
  <1>9. ThresholdWithinBounds'
    BY <1>1, <1>2, <1>3, <1>5 DEF IInv, ThresholdWithinBounds
  <1>10. Fresh'
    BY <1>5 DEF IInv, Fresh
  <1>11. n <= MaxPots
    BY <1>1, PotAdminAssumption
  <1>12. QED
    BY <1>1, <1>3, <1>5, <1>6, <1>8, <1>9, <1>10, <1>11
-----------------------------------------------------------------------------
(* Steps that leave the table alone.                                       *)

\* What is known of a call when the pots are those of S.
CallsOf(S) ==
  [by : Consoles \cup {None}, kind : {"none", "edit", "create"}, id : {0} \cup S,
   copy : Columns, open : BOOLEAN]
ModalsOf(S) == [kind : {"closed", "edit", "create"}, id : {0} \cup S]

\* Nothing but the calls and modals change.
LEMMA ScreenStep ==
  ASSUME IInv, UNCHANGED <<pots, fed, raced, sale>>,
         calls' \in [Calls -> CallsOf(Stored)],
         modal' \in [Consoles -> ModalsOf(Stored)],
         \A n \in Calls : calls'[n].kind = "edit" => calls'[n].id # 0
  PROVE  IInv'
  <1>1. Stored' = Stored
    BY DEF Stored
  <1>2. TypeOK'
    BY <1>1 DEF IInv, TypeOK, CallsOf, ModalsOf
  <1>3. Distinct' /\ Fresh' /\ EditsKeepMoney' /\ ThresholdWithinBounds'
    BY <1>1 DEF IInv, Distinct, Fresh, EditsKeepMoney, ThresholdWithinBounds
  <1>4. CopiesAreTrue'
    BY DEF IInv, CopiesAreTrue
  <1>5. QED
    BY <1>2, <1>3, <1>4 DEF IInv

\* The calls and modals of a state of IInv.
LEMMA Screens ==
  ASSUME IInv
  PROVE  /\ calls \in [Calls -> CallsOf(Stored)]
         /\ modal \in [Consoles -> ModalsOf(Stored)]
         /\ \A n \in Calls : calls[n].kind = "edit" => calls[n].id # 0
  BY DEF IInv, TypeOK, CopiesAreTrue, CallsOf, ModalsOf

\* Closing a modal stops what waits for it.
LEMMA AbandonedCalls ==
  ASSUME NEW c, NEW S, NEW C \in [Calls -> CallsOf(S)]
  PROVE  /\ Abandoned(c, C) \in [Calls -> CallsOf(S)]
         /\ \A n \in Calls : /\ Abandoned(c, C)[n].kind = C[n].kind
                             /\ Abandoned(c, C)[n].id = C[n].id
  BY DEF Abandoned, CallsOf

\* The call that is over.
LEMMA NoCallTyped ==
  /\ \A S : NoCall \in CallsOf(S)
  /\ NoCall.kind = "none"
  /\ Unused \in Columns
  BY PotAdminAssumption DEF NoCall, Unused, Columns, Bound, CallsOf

\* The rows and copies, as the steps below use them.
LEMMA Copies ==
  ASSUME IInv
  PROVE  /\ pots \in Seq(Pots) /\ Len(pots) <= MaxPots
         /\ 0 \notin Stored /\ Stored \subseteq Ids
         /\ \A p \in Stored : pots[p].who \in Names /\ pots[p].row \in Columns
         /\ sale.id \in {0} \cup Stored /\ sale.copy \in Columns
         /\ \A n \in Calls : /\ calls[n].by \in Consoles \cup {None}
                             /\ calls[n].id \in {0} \cup Stored
                             /\ calls[n].copy \in Columns
         /\ MaxBound \in Nat \ {0}
  BY StoredNumbers, PotAdminAssumption DEF IInv, TypeOK, Pots
-----------------------------------------------------------------------------
(* The actions.                                                            *)

LEMMA EnsureLocalStep ==
  ASSUME IInv, NEW g \in Games, NEW k \in Kiosks, NEW t \in Tiers, EnsureLocal(g, k, t)
  PROVE  IInv'
  <1> DEFINE who == [scope |-> "LOCAL", game |-> g, kiosk |-> k, tier |-> t]
  <1>1. who \in Names /\ 1 \in Bound /\ MaxBound \in Bound /\ 1 <= MaxBound
    BY PotAdminAssumption DEF Names, Bound
  <1>2. /\ Len(pots) < MaxPots /\ Free(who) /\ Added(who, 1, MaxBound)
        /\ UNCHANGED <<fed, raced, sale, calls, modal>>
    BY DEF EnsureLocal
  <1>3. /\ pots' \in Seq(Pots) /\ Len(pots') <= MaxPots /\ Stored \subseteq Stored'
        /\ Distinct' /\ Fresh' /\ EditsKeepMoney' /\ ThresholdWithinBounds'
        /\ \A q \in Stored : pots'[q] = pots[q]
    <2> HIDE DEF who
    <2>1. QED
      BY <1>1, <1>2, AddPot
  <1>4. TypeOK'
    BY <1>2, <1>3 DEF IInv, TypeOK
  <1>5. CopiesAreTrue'
    BY <1>2, <1>3, Copies DEF IInv, CopiesAreTrue
  <1>6. QED
    BY <1>3, <1>4, <1>5 DEF IInv

LEMMA BeginStep ==
  ASSUME IInv, NEW p \in Stored \cap Watched, Begin(p)
  PROVE  IInv'
  <1>1. /\ sale' = [id |-> p, copy |-> pots[p].row]
        /\ UNCHANGED <<pots, fed, raced, calls, modal>> /\ Stored' = Stored
    BY DEF Begin, Stored
  <1>2. TypeOK'
    BY <1>1, Copies DEF IInv, TypeOK
  <1>3. CopiesAreTrue'
    BY <1>1, Copies DEF IInv, CopiesAreTrue
  <1>4. QED
    BY <1>1, <1>2, <1>3
    DEF IInv, Distinct, Fresh, EditsKeepMoney, ThresholdWithinBounds

\* Without a hit the amount stays below a threshold, which is at most MaxBound.
LEMMA GrowStep ==
  ASSUME IInv, Grow
  PROVE  IInv'
  <1> DEFINE p == sale.id
             row == Grown(pots[p].row)
  <1>1. /\ p \in Stored /\ pots[p].row \in Columns /\ sale.copy \in Columns
        /\ sale.copy.amount = pots[p].row.amount
    BY Copies DEF IInv, CopiesAreTrue, Grow
  <1>2. /\ fed' = [fed EXCEPT ![p] = @ + 1] /\ sale' = NoSale
        /\ UNCHANGED <<raced, calls, modal>>
    BY DEF Grow
  <1>3. /\ row.amount = pots[p].row.amount + 1
        /\ row.lo = pots[p].row.lo /\ row.hi = pots[p].row.hi
        /\ row.threshold = pots[p].row.threshold
        /\ row \in Columns
    <2>1. ~Reached(Grown(pots[p].row)) \/ ~Reached(Grown(sale.copy))
      BY DEF Grow, Hits
    <2>2. pots[p].row.amount + 1 < MaxBound
      BY <1>1, <2>1, PotAdminAssumption DEF Reached, Grown, Columns, Bound
    <2>3. QED
      BY <1>1, <2>2, PotAdminAssumption DEF Grown, Columns
  <1>4. pots' = [pots EXCEPT ![p].row = row]
    BY <1>1, Copies DEF Grow
  <1> HIDE DEF row
  <1>5. /\ pots' \in Seq(Pots) /\ Len(pots') = Len(pots) /\ Stored' = Stored
        /\ \A q \in Stored : pots'[q].row = IF q = p THEN row ELSE pots[q].row
        /\ Distinct'
    BY <1>1, <1>3, <1>4, WriteRow
  <1>6. fed[p] = pots[p].row.amount /\ fed \in [Ids -> 0..MaxBound - 1] /\ p \in Ids
    BY <1>1, Copies DEF IInv, TypeOK, EditsKeepMoney
  <1>7. /\ \A q \in Stored : fed'[q] = IF q = p THEN row.amount ELSE fed[q]
        /\ \A q \in Ids \ Stored : fed'[q] = fed[q]
        /\ fed' \in [Ids -> 0..MaxBound - 1]
    BY <1>1, <1>2, <1>3, <1>6, Copies DEF Columns
  <1>8. TypeOK' /\ CopiesAreTrue'
    <2>1. sale' \in [id : {0} \cup Stored', copy : Columns]
      BY <1>2, NoCallTyped DEF NoSale
    <2>2. TypeOK'
      BY <1>2, <1>5, <1>7, <2>1 DEF IInv, TypeOK
    <2>3. CopiesAreTrue'
      BY <1>2 DEF IInv, CopiesAreTrue, NoSale
    <2>4. QED
      BY <2>2, <2>3
  <1>9. Fresh' /\ EditsKeepMoney'
    BY <1>5, <1>7 DEF IInv, Fresh, EditsKeepMoney
  <1>10. ThresholdWithinBounds'
    BY <1>2, <1>3, <1>5 DEF IInv, ThresholdWithinBounds
  <1>11. QED
    BY <1>5, <1>8, <1>9, <1>10 DEF IInv

\* What was drawn within bounds is written together with them when the copy is still the row.
LEMMA WriteBounds ==
  ASSUME NEW new \in [lo : Nat, hi : Nat, threshold : Nat, amount : Nat],
         NEW loaded \in [lo : Nat, hi : Nat, threshold : Nat, amount : Nat],
         NEW stored \in [lo : Nat, hi : Nat, threshold : Nat, amount : Nat],
         new.threshold \in new.lo..new.hi,
         SameBounds(loaded, stored), loaded.threshold = stored.threshold
  PROVE  LET row == Flushed(new, loaded, stored) IN row.threshold \in row.lo..row.hi
  <1> DEFINE row == Flushed(new, loaded, stored)
  <1>1. /\ row = [lo |-> row.lo, hi |-> row.hi, threshold |-> row.threshold,
                  amount |-> row.amount]
        /\ row.lo = IF new.lo = loaded.lo THEN stored.lo ELSE new.lo
        /\ row.hi = IF new.hi = loaded.hi THEN stored.hi ELSE new.hi
        /\ row.threshold = IF new.threshold = loaded.threshold THEN stored.threshold
                           ELSE new.threshold
        /\ row.amount = IF new.amount = loaded.amount THEN stored.amount ELSE new.amount
    BY FlushedColumns
  <1> HIDE DEF row
  <1>2. row.lo = new.lo /\ row.hi = new.hi /\ row.threshold = new.threshold
    BY <1>1 DEF SameBounds
  <1>3. row.threshold \in row.lo..row.hi
    BY <1>2
  <1>4. QED
    BY <1>3 DEF row

LEMMA HitStep ==
  ASSUME IInv, Hit
  PROVE  IInv'
  <1> DEFINE p == sale.id
             grown == Grown(sale.copy)
             stored == Grown(pots[p].row)
             new(th) == [grown EXCEPT !.amount = 0, !.threshold = th]
  <1>1. /\ p \in Stored /\ pots[p].row \in Columns /\ sale.copy \in Columns
        /\ sale.copy.amount = pots[p].row.amount
    BY Copies DEF IInv, CopiesAreTrue, Hit
  <1>2. /\ fed' = [fed EXCEPT ![p] = 0] /\ sale' = NoSale
        /\ UNCHANGED <<calls, modal>> /\ Judge(p, sale.copy)
    BY DEF Hit
  <1>3. PICK th \in grown.lo..grown.hi :
          pots' = [pots EXCEPT ![p].row = Flushed(new(th), grown, Grown(@))]
    BY DEF Hit
  <1> DEFINE row == Flushed(new(th), grown, stored)
  <1>4. pots' = [pots EXCEPT ![p].row = row]
    BY <1>1, <1>3, Copies
  <1>5. /\ grown.lo = sale.copy.lo /\ grown.hi = sale.copy.hi
        /\ grown.threshold = sale.copy.threshold /\ grown.amount = sale.copy.amount + 1
        /\ grown \in [lo : Bound, hi : Bound, threshold : Bound, amount : Nat]
        /\ stored.lo = pots[p].row.lo /\ stored.hi = pots[p].row.hi
        /\ stored.threshold = pots[p].row.threshold
        /\ stored \in [lo : Bound, hi : Bound, threshold : Bound, amount : Nat]
    BY <1>1, PotAdminAssumption DEF Grown, Columns
  <1>6. th \in Bound
    BY <1>3, <1>5, PotAdminAssumption DEF Bound
  <1>7. /\ new(th) \in [lo : Bound, hi : Bound, threshold : Bound, amount : Nat]
        /\ new(th).amount = 0 /\ new(th).threshold = th
        /\ new(th).lo = grown.lo /\ new(th).hi = grown.hi
    BY <1>5, <1>6
  <1>8. Bound \subseteq Nat /\ MaxBound \in Nat \ {0} /\ \A x \in Bound : x \in 1..MaxBound
    BY PotAdminAssumption DEF Bound
  <1>9. row \in Columns /\ row.amount = 0
    <2> HIDE DEF new, grown, stored
    <2>1. /\ new(th) \in [lo : Nat, hi : Nat, threshold : Nat, amount : Nat]
          /\ grown \in [lo : Nat, hi : Nat, threshold : Nat, amount : Nat]
          /\ stored \in [lo : Nat, hi : Nat, threshold : Nat, amount : Nat]
      BY <1>5, <1>7, <1>8
    <2>2. /\ row = [lo |-> row.lo, hi |-> row.hi, threshold |-> row.threshold,
                    amount |-> row.amount]
          /\ row.lo \in {new(th).lo, stored.lo} /\ row.hi \in {new(th).hi, stored.hi}
          /\ row.threshold \in {new(th).threshold, stored.threshold}
          /\ row.amount = IF new(th).amount = grown.amount THEN stored.amount
                          ELSE new(th).amount
      BY <2>1, FlushedColumns
    <2>3. row.amount = 0
      BY <2>2, <1>1, <1>5, <1>7, <1>8 DEF Columns
    <2>4. row.lo \in Bound /\ row.hi \in Bound /\ row.threshold \in Bound
      BY <2>2, <1>5, <1>7
    <2> HIDE DEF row
    <2>5. QED
      BY <2>2, <2>3, <2>4, <1>8 DEF Columns
  <1>10. SameBounds(sale.copy, pots[p].row) /\ sale.copy.threshold = pots[p].row.threshold
           => row.threshold \in row.lo..row.hi
    <2> HIDE DEF new, grown, stored, row
    <2>1. /\ new(th) \in [lo : Nat, hi : Nat, threshold : Nat, amount : Nat]
          /\ grown \in [lo : Nat, hi : Nat, threshold : Nat, amount : Nat]
          /\ stored \in [lo : Nat, hi : Nat, threshold : Nat, amount : Nat]
          /\ new(th).threshold \in new(th).lo..new(th).hi
      BY <1>3, <1>5, <1>7, <1>8
    <2>2. SameBounds(sale.copy, pots[p].row) => SameBounds(grown, stored)
      BY <1>5 DEF SameBounds
    <2>3. QED
      BY <2>1, <2>2, <1>5, WriteBounds DEF row
  <1> HIDE DEF row, new, grown, stored
  <1>11. /\ pots' \in Seq(Pots) /\ Len(pots') = Len(pots) /\ Stored' = Stored
         /\ \A q \in Stored : pots'[q].row = IF q = p THEN row ELSE pots[q].row
         /\ Distinct'
    BY <1>1, <1>4, <1>9, WriteRow
  <1>12. /\ \A q \in Stored : fed'[q] = IF q = p THEN 0 ELSE fed[q]
         /\ \A q \in Ids \ Stored : fed'[q] = fed[q]
         /\ fed' \in [Ids -> 0..MaxBound - 1]
    BY <1>1, <1>2, <1>8, Copies DEF IInv, TypeOK
  <1>13. raced' \subseteq Stored /\ raced \subseteq raced' \cup {p}
    BY <1>1, <1>2 DEF IInv, TypeOK, Judge
  <1>14. TypeOK'
    <2>1. sale' \in [id : {0} \cup Stored', copy : Columns]
      BY <1>2, NoCallTyped DEF NoSale
    <2>2. QED
      BY <1>2, <1>11, <1>12, <1>13, <2>1 DEF IInv, TypeOK
  <1>15. CopiesAreTrue' /\ Fresh' /\ EditsKeepMoney'
    BY <1>2, <1>9, <1>11, <1>12
    DEF IInv, CopiesAreTrue, NoSale, Fresh, EditsKeepMoney
  <1>16. ThresholdWithinBounds'
    <2>1. p \notin raced' => row.threshold \in row.lo..row.hi
      BY <1>2, <1>10 DEF Judge
    <2>2. QED
      BY <1>11, <1>13, <2>1 DEF IInv, ThresholdWithinBounds
  <1>17. QED
    BY <1>11, <1>14, <1>15, <1>16 DEF IInv

LEMMA FeedFailsStep ==
  ASSUME IInv, FeedFails
  PROVE  IInv'
  <1>1. sale' = NoSale /\ UNCHANGED <<pots, fed, raced, calls, modal>> /\ Stored' = Stored
    BY DEF FeedFails, Stored
  <1>2. sale' \in [id : {0} \cup Stored', copy : Columns]
    BY <1>1, NoCallTyped DEF NoSale
  <1>3. TypeOK' /\ CopiesAreTrue'
    BY <1>1, <1>2 DEF IInv, TypeOK, CopiesAreTrue, NoSale
  <1>4. QED
    BY <1>1, <1>3 DEF IInv, Distinct, Fresh, EditsKeepMoney, ThresholdWithinBounds

\* OpenEdit, OpenCreate and CloseModal.
LEMMA ModalStep ==
  ASSUME IInv, NEW c \in Consoles,
         \/ \E p \in Stored : OpenEdit(c, p)
         \/ OpenCreate(c)
         \/ CloseModal(c)
  PROVE  IInv'
  <1>1. CASE \E p \in Stored : OpenEdit(c, p)
    <2>1. PICK p \in Stored : modal' = [modal EXCEPT ![c] = [kind |-> "edit", id |-> p]]
      BY <1>1 DEF OpenEdit
    <2>2. modal' \in [Consoles -> ModalsOf(Stored)]
      BY <2>1, Screens DEF ModalsOf
    <2>3. UNCHANGED <<pots, fed, raced, sale, calls>>
      BY <1>1 DEF OpenEdit
    <2>4. QED
      BY <2>2, <2>3, Screens, ScreenStep
  <1>2. CASE OpenCreate(c)
    <2>1. /\ modal' = [modal EXCEPT ![c] = [kind |-> "create", id |-> 0]]
          /\ UNCHANGED <<pots, fed, raced, sale, calls>>
      BY <1>2 DEF OpenCreate
    <2>2. modal' \in [Consoles -> ModalsOf(Stored)]
      BY <2>1, Screens DEF ModalsOf
    <2>3. QED
      BY <2>1, <2>2, Screens, ScreenStep
  <1>3. CASE CloseModal(c)
    <2>1. /\ modal' = [modal EXCEPT ![c] = NoModal] /\ calls' = Abandoned(c, calls)
          /\ UNCHANGED <<pots, fed, raced, sale>>
      BY <1>3 DEF CloseModal
    <2>2. /\ calls' \in [Calls -> CallsOf(Stored)]
          /\ \A n \in Calls : calls'[n].kind = calls[n].kind /\ calls'[n].id = calls[n].id
      BY <2>1, Screens, AbandonedCalls
    <2>3. modal' \in [Consoles -> ModalsOf(Stored)]
      BY <2>1, Screens DEF ModalsOf, NoModal
    <2>4. QED
      BY <2>1, <2>2, <2>3, Screens, ScreenStep
  <1>4. QED
    BY <1>1, <1>2, <1>3

LEMMA SubmitEditStep ==
  ASSUME IInv, NEW c \in Consoles, NEW n \in Calls, SubmitEdit(c, n)
  PROVE  IInv'
  <1> DEFINE p == modal[c].id
             call == [NoCall EXCEPT !.kind = "edit", !.id = p, !.copy = pots[p].row]
             sent == [call EXCEPT !.by = c, !.open = TRUE]
  <1>1. p \in Stored /\ p # 0
    BY PotAdminAssumption DEF SubmitEdit, IInv, TypeOK
  <1>2. /\ calls' = [calls EXCEPT ![n] = sent]
        /\ UNCHANGED <<pots, fed, raced, sale, modal>>
    BY DEF SubmitEdit, Send
  <1>3. call \in CallsOf(Stored) /\ call.id = p
    <2> DEFINE one == [NoCall EXCEPT !.kind = "edit"]
               two == [one EXCEPT !.id = p]
    <2>1. one \in CallsOf(Stored)
      BY NoCallTyped DEF CallsOf
    <2>2. two \in CallsOf(Stored) /\ two.id = p
      <3> HIDE DEF one
      <3>1. QED
        BY <1>1, <2>1 DEF CallsOf
    <2>3. QED
      <3> HIDE DEF two
      <3>1. [two EXCEPT !.copy = pots[p].row] \in CallsOf(Stored)
              /\ [two EXCEPT !.copy = pots[p].row].id = p
        BY <1>1, <2>2, Copies DEF CallsOf
      <3>2. QED
        BY <3>1 DEF two
  <1>4. sent \in CallsOf(Stored) /\ sent.id # 0
    <2> HIDE DEF call
    <2>1. sent \in CallsOf(Stored) /\ sent.id = call.id
      BY <1>3 DEF CallsOf
    <2>2. QED
      BY <1>1, <1>3, <2>1
  <1> HIDE DEF sent
  <1>5. /\ calls' \in [Calls -> CallsOf(Stored)] /\ modal' \in [Consoles -> ModalsOf(Stored)]
        /\ \A m \in Calls : calls'[m].kind = "edit" => calls'[m].id # 0
    BY <1>2, <1>4 DEF IInv, TypeOK, CopiesAreTrue, CallsOf, ModalsOf
  <1>6. QED
    BY <1>2, <1>5, ScreenStep

LEMMA SubmitCreateStep ==
  ASSUME IInv, NEW c \in Consoles, NEW n \in Calls, SubmitCreate(c, n)
  PROVE  IInv'
  <1> DEFINE call == [NoCall EXCEPT !.kind = "create", !.id = Len(pots) + 1]
             sent == [call EXCEPT !.by = c, !.open = TRUE]
  <1>1. /\ calls' = [calls EXCEPT ![n] = sent]
        /\ Len(pots) < MaxPots
        /\ UNCHANGED <<fed, raced, sale, modal>>
    BY DEF SubmitCreate, Send
  <1>2. PICK who \in Identities, r \in Rules :
          Free(who) /\ Valid(r) /\ Added(who, r.lo, r.hi)
    BY DEF SubmitCreate, NewPots, Form
  <1>3. who \in Names /\ r.lo \in Bound /\ r.hi \in Bound /\ r.lo <= r.hi
    BY <1>2, PotAdminAssumption DEF Rules, Valid
  <1>4. /\ pots' \in Seq(Pots) /\ Len(pots') <= MaxPots
        /\ Stored \subseteq Stored' /\ Len(pots) + 1 \in Stored'
        /\ Distinct' /\ Fresh' /\ EditsKeepMoney' /\ ThresholdWithinBounds'
        /\ \A q \in Stored : pots'[q] = pots[q]
    BY <1>1, <1>2, <1>3, AddPot
  <1>5. call \in CallsOf(Stored') /\ call.kind = "create"
    <2> DEFINE one == [NoCall EXCEPT !.kind = "create"]
    <2>1. one \in CallsOf(Stored') /\ one.kind = "create"
      BY NoCallTyped DEF CallsOf
    <2> HIDE DEF one
    <2>2. /\ [one EXCEPT !.id = Len(pots) + 1] \in CallsOf(Stored')
          /\ [one EXCEPT !.id = Len(pots) + 1].kind = "create"
      BY <1>4, <2>1 DEF CallsOf
    <2>3. QED
      BY <2>2 DEF one
  <1>6. sent \in CallsOf(Stored') /\ sent.kind = "create"
    <2> HIDE DEF call
    <2>1. QED
      BY <1>5 DEF CallsOf
  <1> HIDE DEF sent
  <1>7. TypeOK'
    BY <1>1, <1>4, <1>6 DEF IInv, TypeOK, CallsOf
  <1>8. CopiesAreTrue'
    BY <1>1, <1>4, <1>6, Copies DEF IInv, TypeOK, CopiesAreTrue
  <1>9. QED
    BY <1>4, <1>7, <1>8 DEF IInv

\* The end of a call: the modal is closed, or stays.
LEMMA CallEnds ==
  ASSUME IInv, NEW n \in Calls, Heard(n) \/ Unheard(n)
  PROVE  /\ calls' \in [Calls -> CallsOf(Stored)] /\ modal' \in [Consoles -> ModalsOf(Stored)]
         /\ \A m \in Calls : calls'[m].kind = "edit" => calls'[m].id # 0
  <1> DEFINE e == calls[n]
             after == [calls EXCEPT ![n] = NoCall]
  <1>1. /\ after \in [Calls -> CallsOf(Stored)]
        /\ \A m \in Calls : after[m].kind = "edit" => after[m].id # 0
    BY NoCallTyped DEF IInv, TypeOK, CopiesAreTrue, CallsOf
  <1>2. modal \in [Consoles -> ModalsOf(Stored)] /\ NoModal \in ModalsOf(Stored)
    BY DEF IInv, TypeOK, NoModal, ModalsOf
  <1>3. CASE Heard(n)
    <2>1. /\ modal' \in {modal, [modal EXCEPT ![e.by] = NoModal]}
          /\ calls' \in {after, Abandoned(e.by, after)}
      BY <1>2, <1>3 DEF Heard
    <2> HIDE DEF after
    <2>2. /\ calls' \in [Calls -> CallsOf(Stored)]
          /\ \A m \in Calls : calls'[m].kind = "edit" => calls'[m].id # 0
      BY <1>1, <2>1, AbandonedCalls
    <2>3. modal' \in [Consoles -> ModalsOf(Stored)]
      BY <1>2, <2>1
    <2>4. QED
      BY <2>2, <2>3
  <1>4. CASE Unheard(n)
    BY <1>1, <1>2, <1>4 DEF Unheard
  <1>5. QED
    BY <1>3, <1>4

\* EditFails and Created.
LEMMA AnswerStep ==
  ASSUME IInv, NEW n \in Calls, EditFails(n) \/ Created(n)
  PROVE  IInv'
  <1>1. UNCHANGED <<pots, fed, raced, sale>> /\ (Heard(n) \/ Unheard(n))
    BY DEF EditFails, Created
  <1>2. QED
    BY <1>1, CallEnds, ScreenStep

\* What an edit writes: never the amount; of the bounds and the threshold either nothing,
\* or what was drawn within the new bounds.
LEMMA EditedRow ==
  ASSUME NEW r \in Rules, NEW copy \in Columns, NEW stored \in Columns, NEW th,
         th \in IF BoundsChanged(r, copy) THEN r.lo..r.hi ELSE {copy.threshold}
  PROVE  LET new == [copy EXCEPT !.lo = r.lo, !.hi = r.hi, !.threshold = th]
             row == Flushed(new, copy, stored)
         IN /\ row \in Columns /\ row.amount = stored.amount
            /\ SameBounds(r, copy) =>
                 row.lo = stored.lo /\ row.hi = stored.hi /\ row.threshold = stored.threshold
            /\ ~SameBounds(r, copy) /\ SameBounds(copy, stored)
               /\ copy.threshold = stored.threshold => row.threshold \in row.lo..row.hi
  <1> DEFINE new == [copy EXCEPT !.lo = r.lo, !.hi = r.hi, !.threshold = th]
             row == Flushed(new, copy, stored)
  <1>1. /\ MaxBound \in Nat \ {0} /\ Bound = 1..MaxBound
        /\ r.lo \in Bound /\ r.hi \in Bound /\ copy.threshold \in Bound
    BY PotAdminAssumption DEF Bound, Rules, Columns
  <1>2. th \in Bound
    BY <1>1
  <1>3. /\ new \in Columns
        /\ new.lo = r.lo /\ new.hi = r.hi /\ new.threshold = th /\ new.amount = copy.amount
    BY <1>1, <1>2 DEF Columns
  <1> HIDE DEF new
  <1>4. /\ new \in [lo : Nat, hi : Nat, threshold : Nat, amount : Nat]
        /\ copy \in [lo : Nat, hi : Nat, threshold : Nat, amount : Nat]
        /\ stored \in [lo : Nat, hi : Nat, threshold : Nat, amount : Nat]
    BY <1>1, <1>3 DEF Columns
  <1>5. /\ row = [lo |-> row.lo, hi |-> row.hi, threshold |-> row.threshold,
                  amount |-> row.amount]
        /\ row.lo = IF new.lo = copy.lo THEN stored.lo ELSE new.lo
        /\ row.hi = IF new.hi = copy.hi THEN stored.hi ELSE new.hi
        /\ row.threshold = IF new.threshold = copy.threshold THEN stored.threshold
                           ELSE new.threshold
        /\ row.amount = IF new.amount = copy.amount THEN stored.amount ELSE new.amount
    BY <1>4, FlushedColumns
  <1>6. ~SameBounds(r, copy) /\ SameBounds(copy, stored) /\ copy.threshold = stored.threshold
          => row.threshold \in row.lo..row.hi
    <2> SUFFICES ASSUME ~SameBounds(r, copy), SameBounds(copy, stored),
                        copy.threshold = stored.threshold
                 PROVE  row.threshold \in row.lo..row.hi
      OBVIOUS
    <2>1. new.threshold \in new.lo..new.hi
      BY <1>3 DEF BoundsChanged
    <2>2. QED
      BY <2>1, <1>4, WriteBounds
  <1> HIDE DEF row
  <1>7. row.lo \in Bound /\ row.hi \in Bound /\ row.threshold \in Bound
        /\ row.amount = stored.amount
    BY <1>3, <1>5 DEF Columns
  <1>8. row \in Columns
    BY <1>5, <1>7 DEF Columns
  <1>9. SameBounds(r, copy) =>
          row.lo = stored.lo /\ row.hi = stored.hi /\ row.threshold = stored.threshold
    BY <1>3, <1>5 DEF BoundsChanged, SameBounds
  <1>10. QED
    BY <1>6, <1>7, <1>8, <1>9 DEF row, new

\* An edit leaves the amount as it is: it is the one column it never sets.
LEMMA EditStep ==
  ASSUME IInv, NEW n \in Calls, Edit(n)
  PROVE  IInv'
  <1> DEFINE e == calls[n]
             p == e.id
             written(r, th) ==
               Flushed([e.copy EXCEPT !.lo = r.lo, !.hi = r.hi, !.threshold = th],
                       e.copy, pots[p].row)
  <1>1. /\ p \in Stored /\ pots[p].row \in Columns /\ e.copy \in Columns
    BY Copies DEF IInv, CopiesAreTrue, Edit
  <1>2. PICK r \in Rules :
        \E th \in IF BoundsChanged(r, e.copy) THEN r.lo..r.hi ELSE {e.copy.threshold} :
          /\ pots' = [pots EXCEPT ![p].row = written(r, th)]
          /\ IF SameBounds(r, e.copy) THEN UNCHANGED raced ELSE Judge(p, e.copy)
    <2>1. pots \in [Stored -> Pots]
      BY Copies, LenProperties DEF Stored
    <2>2. QED
      BY <1>1, <2>1 DEF Edit, Form
  <1>3. (Heard(n) \/ Unheard(n)) /\ UNCHANGED <<fed, sale>>
    BY DEF Edit
  <1>4. PICK th \in IF BoundsChanged(r, e.copy) THEN r.lo..r.hi ELSE {e.copy.threshold} :
          /\ pots' = [pots EXCEPT ![p].row = written(r, th)]
          /\ IF SameBounds(r, e.copy) THEN UNCHANGED raced ELSE Judge(p, e.copy)
    BY <1>2
  <1> DEFINE row == written(r, th)
  <1>5. /\ row \in Columns /\ row.amount = pots[p].row.amount
        /\ SameBounds(r, e.copy) =>
             /\ row.lo = pots[p].row.lo /\ row.hi = pots[p].row.hi
             /\ row.threshold = pots[p].row.threshold
        /\ ~SameBounds(r, e.copy) /\ SameBounds(e.copy, pots[p].row)
           /\ e.copy.threshold = pots[p].row.threshold => row.threshold \in row.lo..row.hi
    BY <1>1, EditedRow
  <1>6. /\ pots' = [pots EXCEPT ![p].row = row]
        /\ IF SameBounds(r, e.copy) THEN UNCHANGED raced ELSE Judge(p, e.copy)
    BY <1>4
  <1> HIDE DEF row, written
  <1>7. p \in raced' \/ row.threshold \in row.lo..row.hi
    <2>1. CASE SameBounds(r, e.copy)
      <3>1. p \in raced \/ pots[p].row.threshold \in pots[p].row.lo..pots[p].row.hi
        BY <1>1 DEF IInv, ThresholdWithinBounds
      <3>2. QED
        BY <1>5, <1>6, <2>1, <3>1
    <2>2. CASE ~SameBounds(r, e.copy)
      BY <1>5, <1>6, <2>2 DEF Judge
    <2>3. QED
      BY <2>1, <2>2
  <1>8. raced' \subseteq Stored /\ raced \subseteq raced' \cup {p}
    BY <1>1, <1>6 DEF IInv, TypeOK, Judge
  <1>12. /\ pots' \in Seq(Pots) /\ Len(pots') = Len(pots) /\ Stored' = Stored
         /\ \A q \in Stored : pots'[q].row = IF q = p THEN row ELSE pots[q].row
         /\ Distinct' /\ Fresh'
    <2>1. /\ fed' \in [Ids -> 0..MaxBound - 1]
          /\ \A q \in Ids \ Stored : fed'[q] = fed[q]
      BY <1>3 DEF IInv, TypeOK
    <2>2. QED
      BY <1>1, <1>5, <1>6, <2>1, WriteRow
  <1>13. \A q \in Stored : pots'[q].row.amount = pots[q].row.amount
    BY <1>5, <1>12
  <1>14. TypeOK'
    BY <1>3, <1>8, <1>12, CallEnds DEF IInv, TypeOK, CallsOf, ModalsOf
  <1>15. CopiesAreTrue'
    BY <1>3, <1>13, CallEnds, Copies DEF IInv, CopiesAreTrue
  <1>16. EditsKeepMoney'
    BY <1>3, <1>12, <1>13 DEF IInv, EditsKeepMoney
  <1>17. ThresholdWithinBounds'
    BY <1>7, <1>8, <1>12 DEF IInv, ThresholdWithinBounds
  <1>18. QED
    BY <1>12, <1>14, <1>15, <1>16, <1>17 DEF IInv
-----------------------------------------------------------------------------
(* The theorems.                                                           *)

LEMMA InitInv ==
  ASSUME Init
  PROVE  IInv
  <1>1. pots = <<>> /\ Stored = {}
    BY DEF Init, Stored
  <1>2. pots \in Seq(Pots) /\ Len(pots) = 0
    BY <1>1, EmptySeq
  <1>3. NoSale \in [id : {0} \cup Stored, copy : Columns] /\ NoSale.id = 0
    BY NoCallTyped DEF NoSale
  <1>4. TypeOK
    <2>1. calls \in [Calls -> CallsOf(Stored)]
      BY NoCallTyped DEF Init
    <2>2. modal \in [Consoles -> ModalsOf(Stored)]
      BY DEF Init, NoModal, ModalsOf
    <2>3. fed \in [Ids -> 0..MaxBound - 1] /\ Len(pots) <= MaxPots
      BY <1>2, PotAdminAssumption DEF Init
    <2>4. QED
      BY <1>1, <1>2, <1>3, <2>1, <2>2, <2>3 DEF Init, TypeOK, CallsOf, ModalsOf
  <1>5. CopiesAreTrue
    BY <1>3, NoCallTyped DEF Init, CopiesAreTrue
  <1>6. QED
    BY <1>1, <1>4, <1>5
    DEF Init, IInv, Distinct, Fresh, EditsKeepMoney, ThresholdWithinBounds

LEMMA NextInv ==
  ASSUME IInv, [Next]_vars
  PROVE  IInv'
  <1>1. ASSUME NEW c \in Consoles, Console(c)
        PROVE  IInv'
    BY <1>1, ModalStep, SubmitEditStep, SubmitCreateStep DEF Console
  <1>2. ASSUME NEW n \in Calls, Call(n)
        PROVE  IInv'
    BY <1>2, EditStep, AnswerStep DEF Call
  <1>3. CASE Ticket
    BY <1>3, EnsureLocalStep, BeginStep, GrowStep, HitStep, FeedFailsStep DEF Ticket
  <1>4. CASE UNCHANGED vars
    <2>1. /\ UNCHANGED <<pots, fed, raced, sale, calls, modal>>
          /\ calls \in [Calls -> CallsOf(Stored)] /\ modal \in [Consoles -> ModalsOf(Stored)]
      BY <1>4 DEF vars, IInv, TypeOK, CallsOf, ModalsOf
    <2>2. QED
      BY <2>1, ScreenStep DEF IInv, CopiesAreTrue
  <1>5. QED
    BY <1>1, <1>2, <1>3, <1>4 DEF Next

\* The inductive invariant: copies of rows are stale in known ways only.
THEOREM Invariant == Spec => []IInv
  BY InitInv, NextInv, PTL DEF Spec

\* Rows keep their types; no pot ever holds more than any threshold lets it.
THEOREM TypeCorrect == Spec => []TypeOK
  <1>1. IInv => TypeOK
    BY DEF IInv
  <1>2. QED
    BY Invariant, <1>1, PTL

\* EditsKeepMoney: however edits overlap with contributions and hits (update_pot,
\* contribute, _process_hit), a pot holds what was contributed in its cycle.
THEOREM MoneyIsKept == Spec => []EditsKeepMoney
  <1>1. IInv => EditsKeepMoney
    BY DEF IInv
  <1>2. QED
    BY Invariant, <1>1, PTL

\* ThresholdWithinBounds: the threshold lies between the bounds of its pot, unless they
\* were last set from a copy that was old (update_pot, _process_hit).
THEOREM ThresholdsFit == Spec => []ThresholdWithinBounds
  <1>1. IInv => ThresholdWithinBounds
    BY DEF IInv
  <1>2. QED
    BY Invariant, <1>1, PTL

\* EveryPotIsEditable: as no two pots have one identity (the partial unique indexes), no
\* two LOCAL pots share a cell of the page, whichever pots it lists.
THEOREM NoPotIsHidden == Spec => []EveryPotIsEditable
  <1>1. ASSUME IInv
        PROVE  EveryPotIsEditable
    <2> SUFFICES ASSUME NEW S \in Lists
                 PROVE  Editable(S) = S
      BY DEF EveryPotIsEditable
    <2>1. S \subseteq Stored /\ S \subseteq Nat /\ \A p \in S : pots[p].who \in Names
      BY <1>1, Copies DEF Lists, Ids
    <2>2. ASSUME NEW p \in S \ Cards(S)
          PROVE  Cell(S, p) = p
      <3> DEFINE same == {q \in Line(S, p) : pots[q].who.tier = pots[p].who.tier}
      <3>1. p \in same
        BY <2>2 DEF Line
      <3>2. ASSUME NEW q \in same
            PROVE  q = p
        <4>1. /\ q \in S \ Cards(S)
              /\ pots[q].who.kiosk = pots[p].who.kiosk
              /\ pots[q].who.game = pots[p].who.game
              /\ pots[q].who.tier = pots[p].who.tier
          BY <3>2 DEF Line
        <4>2. pots[q].who.scope = pots[p].who.scope
          BY <2>2, <4>1 DEF Cards
        <4>3. pots[q].who = pots[p].who
          BY <2>1, <4>1, <4>2 DEF Names
        <4>4. QED
          BY <1>1, <2>1, <4>1, <4>3 DEF IInv, Distinct
      <3>3. same = {p}
        BY <3>1, <3>2
      <3> HIDE DEF same
      <3>4. (CHOOSE q \in same : \A r \in same : r <= q) = p
        BY <3>3, <2>1
      <3>5. QED
        BY <3>4 DEF Cell, same
    <2>3. QED
      BY <2>2 DEF Editable, Cards
  <1>2. QED
    BY Invariant, <1>1, PTL
-----------------------------------------------------------------------------
(* The feeds.                                                              *)

\* One socket or one timer per closure; the closures whose hook has a guard keep
\* neither once their page is left.
OneFeedEach ==
  /\ \A s \in Sockets : sock[s].state # "none" =>
       /\ sock[s].owner \in 1..mount
       /\ sock[s].owner \notin timer
       /\ \A r \in Sockets :
            sock[r].state # "none" /\ sock[r].owner = sock[s].owner => r = s
  /\ Guarded(kind) => /\ \A s \in Sockets : Live(s) => Running(sock[s].owner)
                      /\ \A m \in timer : Running(m)

\* The server knows of no connection that is not open, and sends nothing to one it does
\* not know of.
QuietUntilOpen ==
  \A s \in Sockets :
    /\ sock[s].state \in {"none", "connecting"} => sock[s].server = "unknown"
    /\ sock[s].server = "unknown" => sock[s].frames = <<>>

\* The numbers of f's draw are not still to come.
Settled(f) == f.type # "phase_changed" \/ f.phase # "draw"

\* A screen that has handled f, and no other frame since, may be sent g.
Follows(f, g) ==
  \/ g.type = "welcome"
  \/ g.type = "phase_changed" /\ g.phase = "idle"
  \/ /\ f.draw = g.draw
     /\ \/ g.type = "draw_locked" /\ f.phase = "draw" /\ g.phase = "draw"
        \/ /\ g.type = "phase_changed"
           /\ \/ g.phase = "preLaunch" /\ f.phase \in {"idle", "preLaunch"}
              \/ g.phase = "draw" /\ f.phase \in {"preLaunch", "draw"}
              \/ g.phase = "results" /\ f.phase \in {"draw", "results"} /\ Settled(f)

Chained(F) ==
  /\ \A i \in 1..Len(F) : F[i].numbers = NumbersOf(F[i])
  /\ \A i \in 1..Len(F) : \A j \in 1..Len(F) : j = i + 1 => Follows(F[i], F[j])

\* f is the last frame the engine sent.
EngineAfter(f) ==
  /\ step \in {"steady", "lock"} => f.draw = engine.draw /\ f.phase = engine.phase
  /\ step = "steady" => Settled(f)
  /\ step = "announce" => Follows(f, FrameOf("phase_changed", engine))

\* The screen as f leaves it.
Shows(f) ==
  /\ view.phase = f.phase
  /\ kind # "adminRoulette" => view.draw = f.draw
  /\ kind \in {"agentKeno", "adminKeno"} =>
       /\ view.numbers \in {NoNumbers, f.draw}
       /\ Settled(f) => view.numbers = NumbersOf(f)
  /\ kind = "adminRoulette" /\ Settled(f) /\ NumbersOf(f) # NoNumbers =>
       view.numbers = NumbersOf(f)

\* The frames F in flight fit what f left.
LeadsTo(f, F) == IF F = <<>> THEN EngineAfter(f) ELSE Follows(f, F[1])

Listens(s) == sock[s].state = "open" /\ Running(sock[s].owner)

InOrder(s) ==
  /\ Chained(sock[s].frames)
  /\ sock[s].frames # <<>> => EngineAfter(sock[s].frames[Len(sock[s].frames)])
  /\ Welcomed(s) => \E f \in Frame : Shows(f) /\ LeadsTo(f, sock[s].frames)

FramesInOrder ==
  /\ step = "lock" => engine.phase = "draw"
  /\ \A s \in Sockets : Listens(s) => InOrder(s)

FeedInv == FeedTypeOK /\ OneFeedEach /\ QuietUntilOpen /\ FramesInOrder
-----------------------------------------------------------------------------
(* Sockets.                                                                *)

\* The bounds, one by one.
LEMMA FeedBounds ==
  /\ MaxDraw \in Nat /\ MaxMounts \in Nat /\ MaxSockets \in Nat /\ MaxFaults \in Nat
  /\ 1 <= MaxDraw /\ MaxMounts <= MaxSockets
  /\ Kinds \subseteq {"agentKeno", "agentRoulette", "adminKeno", "adminRoulette"}
  BY FeedAssumption DEF AllKinds

\* As many as their number.
LEMMA UpTo ==
  ASSUME NEW n \in Nat
  PROVE  IsFiniteSet(1..n) /\ Cardinality(1..n) = n
  BY FS_Interval

\* A socket is free for a closure that has none: there are as many as closures.
LEMMA SpareSocket ==
  ASSUME FeedTypeOK, OneFeedEach,
         NEW m, m \in timer \/ (m = mount + 1 /\ mount < MaxMounts)
  PROVE  \E s \in Sockets : sock[s].state = "none"
  <1> SUFFICES ASSUME \A s \in Sockets : sock[s].state # "none"
               PROVE  FALSE
    OBVIOUS
  <1> DEFINE Owners == IF m \in timer THEN (1..mount) \ {m} ELSE 1..mount
             f == [s \in Sockets |-> sock[s].owner]
  <1>1. mount \in Nat /\ mount <= MaxMounts /\ timer \subseteq 1..mount
        /\ MaxMounts \in Nat /\ MaxSockets \in Nat /\ MaxMounts <= MaxSockets
    BY FeedBounds DEF FeedTypeOK, Mounts
  <1>2. IsFiniteSet(1..MaxSockets) /\ Cardinality(1..MaxSockets) = MaxSockets
    BY <1>1, UpTo
  <1>3. IsFiniteSet(1..mount) /\ Cardinality(1..mount) = mount
    BY <1>1, UpTo
  <1>4. IsFiniteSet(Owners) /\ Cardinality(Owners) < MaxSockets
    <2>1. CASE m \in timer
      <3>1. /\ IsFiniteSet((1..mount) \ {m})
            /\ Cardinality((1..mount) \ {m}) = IF m \in 1..mount THEN Cardinality(1..mount) - 1
                                              ELSE Cardinality(1..mount)
        BY <1>3, FS_RemoveElement
      <3>2. QED
        BY <1>1, <1>3, <2>1, <3>1
    <2>2. CASE m \notin timer
      BY <1>1, <1>3, <2>2
    <2>3. QED
      BY <2>1, <2>2
  <1>5. f \in [Sockets -> Owners]
    BY DEF OneFeedEach
  <1>6. Sockets = 1..MaxSockets
    BY DEF Sockets
  <1> HIDE DEF Owners, f
  <1>7. \E r, s \in Sockets : r # s /\ f[r] = f[s]
    BY <1>2, <1>4, <1>5, <1>6, FS_PigeonHole
  <1>8. QED
    BY <1>7 DEF OneFeedEach, f

\* What the cleanup leaves.
LEMMA ClosedSockets ==
  ASSUME FeedTypeOK
  PROVE  /\ Closing(mount) \in [Sockets -> Socket]
         /\ \A s \in Sockets :
              /\ Closing(mount)[s].owner = sock[s].owner
              /\ Closing(mount)[s].server = sock[s].server
              /\ Closing(mount)[s].state =
                   IF sock[s].owner = mount /\ sock[s].state \in {"connecting", "open"}
                   THEN "closing" ELSE sock[s].state
              /\ Closing(mount)[s].frames \in {sock[s].frames, <<>>}
  <1>1. \A s \in Sockets : sock[s] \in Socket
    BY DEF FeedTypeOK
  <1>2. <<>> \in Seq(Frame)
    BY EmptySeq
  <1>3. QED
    BY <1>1, <1>2 DEF Closing, Socket

\* A socket is created on one that is free, and on no other.
LEMMA CreatedSocket ==
  ASSUME FeedTypeOK, OneFeedEach,
         NEW m, m \in timer \/ (m = mount + 1 /\ mount < MaxMounts),
         NEW socks \in {sock, Closing(mount)}
  PROVE  \E u \in Sockets :
           /\ socks[u].state = "none"
           /\ WithSocket(m, socks) = [socks EXCEPT ![u] = NewSocket("connecting", m)]
           /\ WithSocket(m, socks) \in [Sockets -> Socket]
  <1>1. socks \in [Sockets -> Socket]
    BY ClosedSockets DEF FeedTypeOK
  <1>2. PICK s \in Sockets : sock[s].state = "none"
    BY SpareSocket
  <1>3. socks[s].state = "none"
    BY <1>2, ClosedSockets
  <1>4. FreeSocket(socks) \in Sockets /\ socks[FreeSocket(socks)].state = "none"
    BY <1>3 DEF FreeSocket
  <1>5. NewSocket("connecting", m) \in Socket
    <2>1. m \in Mounts
      <3>1. mount \in Nat /\ mount <= MaxMounts /\ MaxMounts \in Nat
        BY FeedBounds DEF FeedTypeOK, Mounts
      <3>2. m \in timer => m \in 1..mount
        BY DEF FeedTypeOK
      <3>3. QED
        BY <3>1, <3>2 DEF Mounts
    <2>2. <<>> \in Seq(Frame)
      BY EmptySeq
    <2>3. QED
      BY <2>1, <2>2 DEF NewSocket, Socket
  <1>6. QED
    BY <1>1, <1>4, <1>5 DEF WithSocket
-----------------------------------------------------------------------------
(* Types.                                                                  *)

\* A frame tells the state it is made from.
LEMMA FrameTypes ==
  ASSUME NEW type \in {"welcome", "phase_changed", "draw_locked"},
         NEW e \in [draw : Draws, phase : Phases], MaxDraw \in Nat
  PROVE  /\ FrameOf(type, e) \in Frame
         /\ FrameOf(type, e).type = type
         /\ FrameOf(type, e).draw = e.draw
         /\ FrameOf(type, e).phase = e.phase
         /\ FrameOf(type, e).numbers = NumbersOf(FrameOf(type, e))
         /\ NumbersOf(e) \in {NoNumbers, e.draw}
  BY DEF FrameOf, Frame, NumbersOf, Draws, NoNumbers

\* Whom a broadcast tells.
Told(s) ==
  /\ sock[s].server # "unknown"
  /\ Listens(s)

\* A broadcast puts one frame behind those in flight to whom it tells.
LEMMA BroadcastTypes ==
  ASSUME FeedTypeOK,
         NEW type \in {"welcome", "phase_changed", "draw_locked"}, Broadcast(type)
  PROVE  /\ sock' \in [Sockets -> Socket]
         /\ \A s \in Sockets :
              /\ sock'[s].state = sock[s].state
              /\ sock'[s].owner = sock[s].owner
              /\ sock'[s].server = sock[s].server
              /\ sock'[s].frames = IF Told(s)
                                   THEN Append(sock[s].frames, FrameOf(type, engine))
                                   ELSE sock[s].frames
  <1> DEFINE g == FrameOf(type, engine)
  <1>1. g \in Frame
    BY FrameTypes, FeedBounds DEF FeedTypeOK
  <1> HIDE DEF g
  <1>2. \A s \in Sockets : sock[s] \in Socket
    BY DEF FeedTypeOK
  <1>3. \A s \in Sockets : Append(sock[s].frames, g) \in Seq(Frame)
    <2> TAKE s \in Sockets
    <2>1. sock[s].frames \in Seq(Frame)
      BY <1>2 DEF Socket
    <2>2. QED
      BY <1>1, <2>1, AppendProperties
  <1>4. sock' = [s \in Sockets |-> IF Told(s)
                                   THEN [sock[s] EXCEPT !.frames = Append(@, g)]
                                   ELSE sock[s]]
    BY DEF Broadcast, Told, Listens, g
  <1>5. \A s \in Sockets : sock'[s] = IF Told(s)
                                      THEN [sock[s] EXCEPT !.frames = Append(@, g)]
                                      ELSE sock[s]
    BY <1>4
  <1>6. \A s \in Sockets :
          /\ sock'[s] \in Socket
          /\ sock'[s].state = sock[s].state
          /\ sock'[s].owner = sock[s].owner
          /\ sock'[s].server = sock[s].server
          /\ sock'[s].frames = IF Told(s) THEN Append(sock[s].frames, g) ELSE sock[s].frames
    BY <1>2, <1>3, <1>5 DEF Socket
  <1>7. sock' \in [Sockets -> Socket]
    BY <1>4, <1>6
  <1>8. QED
    BY <1>6, <1>7 DEF g

\* What the hook makes of a frame.
LEMMA HandledView ==
  ASSUME FeedTypeOK, NEW f \in Frame
  PROVE  LET v == Handle(f, view) IN
         /\ v \in [draw : Draws, phase : Phases, numbers : Draws,
                   connected : BOOLEAN]
         /\ v.phase = IF f.type = "draw_locked" THEN view.phase ELSE f.phase
         /\ v.draw = IF f.type = "draw_locked" \/ kind = "adminRoulette" THEN view.draw
                     ELSE f.draw
         /\ v.numbers =
              CASE f.type = "welcome" ->
                     IF \/ kind \in {"agentKeno", "adminKeno"}
                        \/ kind = "adminRoulette" /\ f.numbers # NoNumbers
                     THEN f.numbers ELSE view.numbers
                [] f.type = "phase_changed" ->
                     IF Clears(kind, f.phase) THEN NoNumbers ELSE view.numbers
                [] f.type = "draw_locked" ->
                     IF kind = "agentRoulette" THEN view.numbers ELSE f.numbers
  <1>1. view \in [draw : Draws, phase : Phases, numbers : Draws,
                  connected : BOOLEAN]
    BY DEF FeedTypeOK
  <1>2. f.type \in {"welcome", "phase_changed", "draw_locked"} /\ f.draw \in Draws
        /\ f.phase \in Phases /\ f.numbers \in Draws
    BY DEF Frame
  <1>3. NoNumbers \in Draws
    BY FeedBounds DEF NoNumbers, Draws
  <1>4. CASE f.type = "welcome"
    BY <1>1, <1>2, <1>3, <1>4 DEF Handle
  <1>5. CASE f.type = "phase_changed"
    BY <1>1, <1>2, <1>3, <1>5 DEF Handle
  <1>6. CASE f.type = "draw_locked"
    BY <1>1, <1>2, <1>3, <1>6 DEF Handle
  <1>7. QED
    BY <1>2, <1>4, <1>5, <1>6

\* connect() of closure m, in the three places it is called from: it leaves a socket, or
\* nothing but the timer of a hook that retries.
LEMMA ConnectedSockets ==
  ASSUME FeedTypeOK, OneFeedEach,
         NEW m, m \in timer \/ (m = mount + 1 /\ mount < MaxMounts),
         NEW socks \in {sock, Closing(mount)},
         NEW timers \in SUBSET timer, Connect(m, socks, timers)
  PROVE  /\ sock' \in [Sockets -> Socket]
         /\ faults' \in 0..MaxFaults
         /\ gaveUp' \subseteq gaveUp \cup {m}
         /\ \/ /\ \E u \in Sockets :
                    /\ socks[u].state = "none"
                    /\ sock' = [socks EXCEPT ![u] = NewSocket("connecting", m)]
               /\ timer' = timers
            \/ /\ sock' = socks
               /\ timer' = timers \/ (Guarded(kind) /\ timer' = timers \cup {m})
  <1>1. CASE Connects(m, socks, timers)
    <2>1. sock' = WithSocket(m, socks) /\ timer' = timers /\ UNCHANGED <<gaveUp, faults>>
      BY <1>1 DEF Connects
    <2>2. QED
      BY <2>1, CreatedSocket DEF FeedTypeOK
  <1>2. CASE Throws(m, socks, timers)
    <2>1. faults' \in 0..MaxFaults
      BY <1>2, FeedBounds DEF Throws, FeedTypeOK
    <2>2. sock' \in [Sockets -> Socket]
      BY <1>2, ClosedSockets DEF Throws, FeedTypeOK
    <2>3. QED
      BY <1>2, <2>1, <2>2 DEF Throws
  <1>3. QED
    BY <1>1, <1>2 DEF Connect

\* Every step keeps the types.
LEMMA FeedTypesKept ==
  ASSUME FeedTypeOK, OneFeedEach, FeedNext
  PROVE  FeedTypeOK'
  <1> USE DEF FeedTypeOK
  <1>1. CASE NextPhase
    <2>1. engine' \in [draw : Draws, phase : Phases]
      BY <1>1 DEF NextPhase, After, Phases
    <2>2. QED
      BY <1>1, <2>1 DEF NextPhase
  <1>2. CASE NextRound
    <2>1. engine' \in [draw : Draws, phase : Phases]
      BY <1>2, FeedBounds DEF NextRound, Draws, Phases
    <2>2. QED
      BY <1>2, <2>1 DEF NextRound
  <1>3. CASE Announce
    BY <1>3, BroadcastTypes DEF Announce
  <1>4. CASE Lock
    BY <1>4, BroadcastTypes DEF Lock
  <1>5. CASE Mount
    <2>1. mount' \in Mounts /\ mount' = mount + 1 /\ mount < MaxMounts /\ mount \in Nat
      BY <1>5, FeedBounds DEF Mount, Mounts
    <2>2. view' \in [draw : Draws, phase : Phases, numbers : Draws,
                     connected : BOOLEAN]
      BY <1>5, FeedBounds DEF Mount, NewView, Draws, Phases, NoNumbers
    <2>3. /\ sock' \in [Sockets -> Socket] /\ faults' \in 0..MaxFaults
          /\ timer' \subseteq timer \cup {mount + 1} /\ gaveUp' \subseteq gaveUp \cup {mount + 1}
      BY <1>5, <2>1, ConnectedSockets DEF Mount
    <2>4. timer' \subseteq 1..mount' /\ gaveUp' \subseteq 1..mount'
      BY <2>1, <2>3
    <2>5. QED
      BY <1>5, <2>1, <2>2, <2>3, <2>4 DEF Mount
  <1>6. CASE Unmount
    BY <1>6, ClosedSockets DEF Unmount
  <1>7. CASE ChangeKiosk
    <2>1. mount' \in Mounts /\ mount' = mount + 1 /\ mount < MaxMounts /\ mount \in Nat
      BY <1>7, FeedBounds DEF ChangeKiosk, Mounts
    <2>2. /\ sock' \in [Sockets -> Socket] /\ faults' \in 0..MaxFaults
          /\ timer' \subseteq timer \cup {mount + 1} /\ gaveUp' \subseteq gaveUp \cup {mount + 1}
      BY <1>7, <2>1, ConnectedSockets DEF ChangeKiosk
    <2>3. timer' \subseteq 1..mount' /\ gaveUp' \subseteq 1..mount'
      BY <2>1, <2>2
    <2>4. QED
      BY <1>7, <2>1, <2>2, <2>3 DEF ChangeKiosk
  <1>8. ASSUME NEW s \in Sockets, Register(s)
        PROVE  FeedTypeOK'
    <2>1. sock' \in [Sockets -> Socket]
      BY <1>8 DEF Register, Socket
    <2>2. QED
      BY <1>8, <2>1 DEF Register
  <1>9. ASSUME NEW s \in Sockets, Welcome(s)
        PROVE  FeedTypeOK'
    <2>1. FrameOf("welcome", engine) \in Frame
      BY FrameTypes, FeedBounds
    <2>2. sock[s] \in Socket /\ sock[s].frames \in Seq(Frame)
      BY DEF Socket
    <2>3. Append(sock[s].frames, FrameOf("welcome", engine)) \in Seq(Frame)
      BY <2>1, <2>2, AppendProperties
    <2>4. sock' \in [Sockets -> Socket]
      BY <1>9, <2>2, <2>3 DEF Welcome, Socket
    <2>5. QED
      BY <1>9, <2>4 DEF Welcome
  <1>10. ASSUME NEW s \in Sockets, Open(s)
         PROVE  FeedTypeOK'
    <2>1. sock' \in [Sockets -> Socket]
      BY <1>10 DEF Open, Socket
    <2>2. QED
      BY <1>10, <2>1 DEF Open
  <1>11. ASSUME NEW s \in Sockets, Drop(s)
         PROVE  FeedTypeOK'
    <2>1. sock' \in [Sockets -> Socket]
      BY <1>11, EmptySeq DEF Drop, Socket
    <2>2. faults' \in 0..MaxFaults
      BY <1>11, FeedBounds DEF Drop
    <2>3. QED
      BY <1>11, <2>1, <2>2 DEF Drop
  <1>12. ASSUME NEW s \in Sockets, Closed(s)
         PROVE  FeedTypeOK'
    <2>1. sock' \in [Sockets -> Socket]
      <3>1. NewSocket("none", 0) \in Socket
        BY FeedBounds, EmptySeq DEF NewSocket, Socket, Mounts
      <3>2. QED
        BY <1>12, <3>1 DEF Closed
    <2>2. timer' \subseteq 1..mount
      BY <1>12 DEF Closed, OneFeedEach
    <2>3. QED
      BY <1>12, <2>1, <2>2 DEF Closed
  <1>13. ASSUME NEW s \in Sockets, Message(s)
         PROVE  FeedTypeOK'
    <2>1. sock[s] \in Socket /\ sock[s].frames \in Seq(Frame) /\ sock[s].frames # <<>>
      BY <1>13 DEF Socket, Message
    <2>2. Head(sock[s].frames) \in Frame /\ Tail(sock[s].frames) \in Seq(Frame)
      BY <2>1, HeadTailProperties
    <2>3. sock' \in [Sockets -> Socket]
      BY <1>13, <2>1, <2>2 DEF Message, Socket
    <2>4. view' \in [draw : Draws, phase : Phases, numbers : Draws,
                     connected : BOOLEAN]
      BY <1>13, <2>2, HandledView DEF Message
    <2>5. QED
      BY <1>13, <2>3, <2>4 DEF Message
  <1>14. ASSUME NEW m \in timer, Retry(m)
         PROVE  FeedTypeOK'
    <2>1. /\ sock' \in [Sockets -> Socket] /\ faults' \in 0..MaxFaults
          /\ timer' \subseteq timer /\ gaveUp' \subseteq gaveUp \cup {m}
      BY <1>14, ConnectedSockets DEF Retry
    <2>2. QED
      BY <1>14, <2>1 DEF Retry
  <1>15. QED
    BY <1>1, <1>2, <1>3, <1>4, <1>5, <1>6, <1>7, <1>8, <1>9, <1>10, <1>11, <1>12, <1>13,
       <1>14 DEF FeedNext
-----------------------------------------------------------------------------
(* Who owns which socket.                                                  *)

\* Sockets that are only freed, or kept with their owners, stay owned as they were.
LEMMA OwnersKept ==
  ASSUME OneFeedEach, UNCHANGED <<kind, mounted, mount>>, timer' \subseteq timer,
         \A s \in Sockets : sock'[s].state # "none" =>
           /\ sock[s].state # "none"
           /\ sock'[s].owner = sock[s].owner
           /\ sock'[s].state \in {"connecting", "open"} => sock[s].state \in {"connecting", "open"}
  PROVE  OneFeedEach'
  BY DEF OneFeedEach, Live, Running, Sockets

\* A new socket is the only one of its closure.
LEMMA OwnersWithNew ==
  ASSUME OneFeedEach, NEW m \in Nat, NEW u \in Sockets,
         mount \in Nat, mount' \in Nat, mount <= mount', m \in 1..mount',
         \A s \in Sockets : sock[s].state # "none" => sock[s].owner # m,
         timer' \subseteq timer \ {m}, kind' = kind,
         sock'[u].owner = m,
         \A s \in Sockets \ {u} : sock'[s].state # "none" =>
           sock[s].state # "none" /\ sock'[s].owner = sock[s].owner,
         Guarded(kind) =>
           /\ mounted' /\ m = mount'
           /\ \A s \in Sockets \ {u} : sock'[s].state \notin {"connecting", "open"}
           /\ timer' = {}
  PROVE  OneFeedEach'
  BY DEF OneFeedEach, Live, Running, Sockets, Guarded

\* The guarded hooks hold one connection or one timer.
LEMMA NoneElse ==
  ASSUME OneFeedEach, Guarded(kind), NEW m \in timer
  PROVE  /\ mounted /\ m = mount /\ timer = {m}
         /\ \A s \in Sockets : sock[s].state \notin {"connecting", "open"}
  BY DEF OneFeedEach, Live, Running

\* No step gives a closure a second socket or timer, or leaves one behind a guarded hook.
LEMMA OneFeedKept ==
  ASSUME FeedTypeOK, OneFeedEach, FeedNext
  PROVE  OneFeedEach'
  <1>0. mount \in Nat /\ timer \subseteq 1..mount /\ sock \in [Sockets -> Socket]
    BY FeedBounds DEF FeedTypeOK, Mounts
  <1>1. CASE NextPhase \/ NextRound
    BY <1>1, OwnersKept DEF NextPhase, NextRound
  <1>2. CASE Announce \/ Lock
    BY <1>2, BroadcastTypes, OwnersKept DEF Announce, Lock
  <1>3. CASE Mount
    <2>1. /\ ~mounted /\ mounted' /\ mount' = mount + 1 /\ kind' = kind /\ mount < MaxMounts
          /\ Connect(mount + 1, sock, timer)
      BY <1>3 DEF Mount
    <2>2. \A s \in Sockets : sock[s].state # "none" => sock[s].owner \in 1..mount
      BY DEF OneFeedEach
    <2>3. Guarded(kind) =>
            /\ \A s \in Sockets : sock[s].state \notin {"connecting", "open"}
            /\ timer = {}
      BY <2>1 DEF OneFeedEach, Live, Running
    <2>4. CASE /\ timer' = timer
               /\ \E u \in Sockets :
                    sock' = [sock EXCEPT ![u] = NewSocket("connecting", mount + 1)]
      <3>1. PICK u \in Sockets :
              sock' = [sock EXCEPT ![u] = NewSocket("connecting", mount + 1)]
        BY <2>4
      <3>2. /\ sock'[u].owner = mount + 1
            /\ \A s \in Sockets \ {u} : sock'[s] = sock[s]
        BY <1>0, <3>1 DEF NewSocket
      <3>3. mount + 1 \in 1..mount' /\ mount' \in Nat /\ mount <= mount' /\ mount + 1 \in Nat
            /\ timer' \subseteq timer \ {mount + 1}
        BY <1>0, <2>1, <2>4
      <3>4. \A s \in Sockets : sock[s].state # "none" => sock[s].owner # mount + 1
        BY <1>0, <2>2
      <3>5. QED
        BY <1>0, <2>1, <2>3, <2>4, <3>2, <3>3, <3>4, OwnersWithNew
    <2>5. CASE /\ sock' = sock
               /\ timer' = timer \/ (Guarded(kind) /\ timer' = timer \cup {mount + 1})
      <3>1. \A m \in 1..mount : m \in 1..mount' /\ m # mount + 1
        BY <1>0, <2>1
      <3>2. QED
        BY <2>1, <2>2, <2>3, <2>5, <3>1
        DEF OneFeedEach, Live, Running, Sockets, Guarded
    <2>6. QED
      BY <2>1, <2>4, <2>5, ConnectedSockets
  <1>4. CASE Unmount
    <2>1. \A m \in timer' : m \in timer /\ m # mount
      BY <1>4 DEF Unmount
    <2>2. Guarded(kind) => timer' = {}
      BY <2>1 DEF OneFeedEach, Running
    <2>3. Guarded(kind) =>
            \A s \in Sockets : sock'[s].state \notin {"connecting", "open"}
      BY <1>4, ClosedSockets DEF Unmount, OneFeedEach, Live, Running
    <2>4. \A s \in Sockets : sock'[s].owner = sock[s].owner
                             /\ (sock'[s].state # "none" => sock[s].state # "none")
      BY <1>4, ClosedSockets DEF Unmount
    <2>5. mount' = mount /\ kind' = kind
      BY <1>4 DEF Unmount
    <2>6. QED
      BY <2>1, <2>2, <2>3, <2>4, <2>5
      DEF OneFeedEach, Live, Sockets, Guarded
  <1>5. CASE ChangeKiosk
    <2>1. /\ mounted /\ mounted' /\ mount' = mount + 1 /\ kind' = kind /\ mount < MaxMounts
          /\ kind = "agentKeno"
          /\ Connect(mount + 1, Closing(mount), timer \ {mount})
      BY <1>5 DEF ChangeKiosk
    <2>2. Guarded(kind) /\ timer \ {mount} = {}
      BY <2>1 DEF Guarded, OneFeedEach, Running
    <2>3. \A s \in Sockets : /\ Closing(mount)[s].owner = sock[s].owner
                             /\ Closing(mount)[s].state # "none" => sock[s].state # "none"
                             /\ Closing(mount)[s].state \notin {"connecting", "open"}
      BY <2>2, ClosedSockets DEF OneFeedEach, Live, Running
    <2>4. \A s \in Sockets : sock[s].state # "none" => sock[s].owner # mount + 1
      BY <1>0 DEF OneFeedEach
    <2>5. CASE /\ timer' = timer \ {mount}
               /\ \E u \in Sockets :
                    sock' = [Closing(mount) EXCEPT ![u] = NewSocket("connecting", mount + 1)]
      <3>1. PICK u \in Sockets :
              sock' = [Closing(mount) EXCEPT ![u] = NewSocket("connecting", mount + 1)]
        BY <2>5
      <3>2. /\ sock'[u].owner = mount + 1
            /\ \A s \in Sockets \ {u} : sock'[s] = Closing(mount)[s]
        BY <3>1, ClosedSockets DEF NewSocket
      <3>3. mount + 1 \in 1..mount' /\ mount' \in Nat /\ mount <= mount' /\ mount + 1 \in Nat
        BY <1>0, <2>1
      <3>4. QED
        BY <1>0, <2>1, <2>2, <2>3, <2>4, <2>5, <3>2, <3>3, OwnersWithNew
    <2>6. CASE sock' = Closing(mount) /\ timer' \subseteq {mount + 1}
      <3>1. \A m \in 1..mount : m \in 1..mount' /\ m # mount + 1
        BY <1>0, <2>1
      <3>2. QED
        BY <2>1, <2>2, <2>3, <2>4, <2>6, <3>1 DEF OneFeedEach, Live, Running, Sockets
    <2>7. QED
      <3>1. \/ /\ timer' = timer \ {mount}
               /\ \E u \in Sockets :
                    sock' = [Closing(mount) EXCEPT ![u] = NewSocket("connecting", mount + 1)]
            \/ /\ sock' = Closing(mount)
               /\ \/ timer' = timer \ {mount}
                  \/ timer' = (timer \ {mount}) \cup {mount + 1}
        BY <2>1, ConnectedSockets
      <3>2. QED
        BY <2>2, <2>5, <2>6, <3>1
  <1>6. ASSUME NEW s \in Sockets,
               \/ Register(s) \/ Welcome(s) \/ Open(s) \/ Drop(s)
               \/ Message(s)
        PROVE  OneFeedEach'
    <2>1. UNCHANGED <<kind, mounted, mount, timer>>
      BY <1>6 DEF Register, Welcome, Open, Drop, Message
    <2>2. \A r \in Sockets \ {s} : sock'[r] = sock[r]
      BY <1>0, <1>6 DEF Register, Welcome, Open, Drop, Message
    <2>3. sock'[s].owner = sock[s].owner /\ sock[s].state \in {"connecting", "open"}
      BY <1>0, <1>6
      DEF Register, Welcome, Open, Drop, Message, Socket
    <2>4. QED
      BY <2>1, <2>2, <2>3, OwnersKept
  <1>7. ASSUME NEW s \in Sockets, Closed(s)
        PROVE  OneFeedEach'
    <2>1. /\ sock[s].state = "closing" /\ sock' = [sock EXCEPT ![s] = NewSocket("none", 0)]
          /\ timer' = IF Reconnects(sock[s].owner) THEN timer \cup {sock[s].owner} ELSE timer
          /\ UNCHANGED <<kind, mounted, mount>>
      BY <1>7 DEF Closed
    <2>2. sock'[s].state = "none" /\ \A r \in Sockets \ {s} : sock'[r] = sock[r]
      BY <1>0, <2>1 DEF NewSocket
    <2>3. \A r \in Sockets \ {s} : sock[r].state # "none" => sock[r].owner # sock[s].owner
      BY <2>1 DEF OneFeedEach
    <2>4. Guarded(kind) => \A m \in timer' : Running(m)
      BY <2>1 DEF Reconnects, OneFeedEach
    <2>5. QED
      BY <2>1, <2>2, <2>3, <2>4
      DEF OneFeedEach, Live, Running, Sockets, Guarded
  <1>8. ASSUME NEW m \in timer, Retry(m)
        PROVE  OneFeedEach'
    <2>1. Connect(m, sock, timer \ {m}) /\ UNCHANGED <<kind, mounted, mount>>
      BY <1>8 DEF Retry
    <2>2. CASE sock' = sock /\ (timer' = timer \ {m} \/ timer' = (timer \ {m}) \cup {m})
      <3>1. timer' \subseteq timer
        BY <2>2
      <3>2. QED
        BY <2>1, <2>2, <3>1, OwnersKept
    <2>3. CASE /\ timer' = timer \ {m}
               /\ \E u \in Sockets :
                    sock' = [sock EXCEPT ![u] = NewSocket("connecting", m)]
      <3>1. PICK u \in Sockets : sock' = [sock EXCEPT ![u] = NewSocket("connecting", m)]
        BY <2>3
      <3>2. /\ sock'[u].owner = m
            /\ \A s \in Sockets \ {u} : sock'[s] = sock[s]
        BY <1>0, <3>1 DEF NewSocket
      <3>3. m \in 1..mount' /\ mount' \in Nat /\ mount <= mount' /\ m \in Nat
        BY <1>0, <2>1
      <3>4. \A s \in Sockets : sock[s].state # "none" => sock[s].owner # m
        BY DEF OneFeedEach
      <3>5. Guarded(kind) =>
              /\ mounted' /\ m = mount' /\ timer' = {}
              /\ \A s \in Sockets \ {u} : sock'[s].state \notin {"connecting", "open"}
        BY <2>1, <2>3, <3>2, NoneElse
      <3>6. QED
        BY <1>0, <2>1, <2>3, <3>2, <3>3, <3>4, <3>5, OwnersWithNew
    <2>4. QED
      BY <2>1, <2>2, <2>3, ConnectedSockets
  <1>9. QED
    BY <1>1, <1>2, <1>3, <1>4, <1>5, <1>6, <1>7, <1>8 DEF FeedNext
-----------------------------------------------------------------------------
(* What is in flight.                                                      *)

\* The server only sends to connections that were opened and registered.
LEMMA QuietKept ==
  ASSUME FeedTypeOK, OneFeedEach, QuietUntilOpen, FeedNext
  PROVE  QuietUntilOpen'
  <1>0. sock \in [Sockets -> Socket] /\ mount \in Nat
    BY FeedBounds DEF FeedTypeOK, Mounts
  <1>1. CASE UNCHANGED sock
    BY <1>1 DEF QuietUntilOpen, Sockets
  <1>2. CASE Announce \/ Lock
    BY <1>2, BroadcastTypes DEF Announce, Lock, QuietUntilOpen, Told, Sockets
  <1>3. CASE Unmount
    BY <1>3, ClosedSockets DEF Unmount, QuietUntilOpen, Sockets
  <1>4. ASSUME NEW s \in Sockets,
               \/ Register(s) \/ Welcome(s) \/ Open(s) \/ Drop(s)
               \/ Closed(s) \/ Message(s)
        PROVE  QuietUntilOpen'
    <2>1. \A r \in Sockets \ {s} : sock'[r] = sock[r]
      BY <1>0, <1>4 DEF Register, Welcome, Open, Drop, Closed, Message
    <2>2. /\ sock'[s].state \in {"none", "connecting"} => sock'[s].server = "unknown"
          /\ sock'[s].server = "unknown" => sock'[s].frames = <<>>
      BY <1>0, <1>4
      DEF Register, Welcome, Open, Drop, Closed, Message,
          NewSocket, Socket, QuietUntilOpen
    <2>3. QED
      BY <2>1, <2>2 DEF QuietUntilOpen, Sockets
  <1>5. ASSUME NEW m, m \in timer \/ (m = mount + 1 /\ mount < MaxMounts),
               NEW socks \in {sock, Closing(mount)},
               NEW timers \in SUBSET timer, Connect(m, socks, timers)
        PROVE  QuietUntilOpen'
    <2>1. /\ socks \in [Sockets -> Socket]
          /\ \A s \in Sockets :
               /\ socks[s].state \in {"none", "connecting"} => socks[s].server = "unknown"
               /\ socks[s].server = "unknown" => socks[s].frames = <<>>
      BY <1>0, ClosedSockets DEF QuietUntilOpen
    <2>2. CASE \E u \in Sockets : sock' = [socks EXCEPT ![u] = NewSocket("connecting", m)]
      BY <2>1, <2>2 DEF QuietUntilOpen, NewSocket, Sockets
    <2>3. CASE sock' = socks
      BY <2>1, <2>3 DEF QuietUntilOpen, Sockets
    <2>4. QED
      BY <1>5, <2>2, <2>3, ConnectedSockets
  <1>6. CASE ChangeKiosk
    BY <1>5, <1>6 DEF ChangeKiosk
  <1>7. CASE Mount
    BY <1>5, <1>7 DEF Mount
  <1>8. ASSUME NEW m \in timer, Retry(m)
        PROVE  QuietUntilOpen'
    BY <1>5, <1>8 DEF Retry
  <1>9. QED
    BY <1>1, <1>2, <1>3, <1>4, <1>6, <1>7, <1>8 DEF FeedNext, NextPhase, NextRound

\* The last frame in flight.
LEMMA LastInFrame ==
  ASSUME NEW F \in Seq(Frame), F # <<>>
  PROVE  F[Len(F)] \in Frame
  <1>1. Len(F) \in Nat /\ Len(F) # 0 /\ F \in [1..Len(F) -> Frame]
    BY LenProperties, EmptySeq
  <1>2. QED
    BY <1>1

\* A frame that may follow the last one is put behind it.
LEMMA ChainedAppend ==
  ASSUME NEW F \in Seq(Frame), Chained(F),
         NEW g \in Frame, g.numbers = NumbersOf(g),
         F # <<>> => Follows(F[Len(F)], g)
  PROVE  LET G == Append(F, g) IN
         /\ G # <<>> /\ G[Len(G)] = g
         /\ G[1] = IF F = <<>> THEN g ELSE F[1]
         /\ Chained(G)
         /\ (\A i \in DOMAIN G : G[i].type # "welcome") => \A i \in DOMAIN F : F[i].type # "welcome"
  <1> DEFINE G == Append(F, g)
  <1>1. /\ Len(F) \in Nat /\ Len(G) = Len(F) + 1 /\ DOMAIN G = 1..Len(G) /\ DOMAIN F = 1..Len(F)
        /\ \A i \in 1..Len(F) : G[i] = F[i]
        /\ G[Len(F) + 1] = g
    BY AppendProperties, LenProperties
  <1>2. F = <<>> <=> Len(F) = 0
    BY EmptySeq
  <1>3. G # <<>>
    BY <1>1, EmptySeq
  <1> HIDE DEF G
  <1>4. \A i \in 1..Len(G) : G[i].numbers = NumbersOf(G[i])
    <2> TAKE i \in 1..Len(G)
    <2>1. i \in 1..Len(F) \/ i = Len(F) + 1
      BY <1>1
    <2>2. QED
      BY <1>1, <2>1 DEF Chained
  <1>5. \A i \in 1..Len(G) : \A j \in 1..Len(G) : j = i + 1 => Follows(G[i], G[j])
    <2> TAKE i \in 1..Len(G)
    <2> TAKE j \in 1..Len(G)
    <2> HAVE j = i + 1
    <2>1. i \in 1..Len(F) /\ (j \in 1..Len(F) \/ (i = Len(F) /\ j = Len(F) + 1))
      <3>1. Len(F) \in Nat /\ i \in 1..(Len(F) + 1) /\ j \in 1..(Len(F) + 1) /\ j = i + 1
        BY <1>1
      <3>2. QED
        BY <3>1
    <2>2. CASE j \in 1..Len(F)
      BY <1>1, <2>1, <2>2 DEF Chained
    <2>3. CASE i = Len(F) /\ j = Len(F) + 1
      <3>1. F # <<>>
        BY <1>2, <2>1, <2>3
      <3>2. QED
        BY <1>1, <2>1, <2>3, <3>1
    <2>4. QED
      BY <2>1, <2>2, <2>3
  <1>6. G[1] = IF F = <<>> THEN g ELSE F[1]
    BY <1>1, <1>2
  <1>7. (\A i \in DOMAIN G : G[i].type # "welcome") => \A i \in DOMAIN F : F[i].type # "welcome"
    BY <1>1
  <1>8. QED
    BY <1>1, <1>3, <1>4, <1>5, <1>6, <1>7 DEF Chained, G

\* The first frame is taken off.
LEMMA ChainedTail ==
  ASSUME NEW F \in Seq(Frame), F # <<>>, Chained(F)
  PROVE  LET T == Tail(F) IN
         /\ Head(F) = F[1] /\ F[1] \in Frame /\ F[1].numbers = NumbersOf(F[1])
         /\ Chained(T)
         /\ T = <<>> => F[Len(F)] = F[1]
         /\ T # <<>> => T[Len(T)] = F[Len(F)] /\ Follows(F[1], T[1])
         /\ (\A i \in DOMAIN T : T[i].type # "welcome") /\ F[1].type # "welcome" =>
              \A i \in DOMAIN F : F[i].type # "welcome"
  <1> DEFINE T == Tail(F)
  <1>1. /\ Len(F) \in Nat /\ Len(F) # 0 /\ Len(T) = Len(F) - 1 /\ T \in Seq(Frame)
        /\ DOMAIN T = 1..Len(T) /\ DOMAIN F = 1..Len(F)
        /\ \A i \in 1..Len(T) : T[i] = F[i + 1]
        /\ Head(F) = F[1] /\ F[1] \in Frame
    BY HeadTailProperties, LenProperties, EmptySeq
  <1>2. T = <<>> <=> Len(T) = 0
    BY <1>1, EmptySeq
  <1> HIDE DEF T
  <1>3. \A i \in 1..Len(T) : i + 1 \in 1..Len(F)
    BY <1>1
  <1>4. F[1].numbers = NumbersOf(F[1])
    BY <1>1 DEF Chained
  <1>5. Chained(T)
    <2>1. \A i \in 1..Len(T) : T[i].numbers = NumbersOf(T[i])
      BY <1>1, <1>3 DEF Chained
    <2>2. \A i \in 1..Len(T) : \A j \in 1..Len(T) : j = i + 1 => Follows(T[i], T[j])
      <3> TAKE i \in 1..Len(T)
      <3> TAKE j \in 1..Len(T)
      <3> HAVE j = i + 1
      <3>1. i + 1 \in 1..Len(F) /\ j + 1 \in 1..Len(F) /\ j + 1 = (i + 1) + 1
        BY <1>3
      <3>2. Follows(F[i + 1], F[j + 1])
        BY <3>1 DEF Chained
      <3>3. QED
        BY <1>1, <3>2
    <2>3. QED
      BY <2>1, <2>2 DEF Chained
  <1>6. T = <<>> => F[Len(F)] = F[1]
    BY <1>1, <1>2
  <1>7. ASSUME T # <<>>
        PROVE  T[Len(T)] = F[Len(F)] /\ Follows(F[1], T[1])
    <2>1. Len(T) \in 1..Len(T) /\ 1 \in 1..Len(T) /\ Len(T) + 1 = Len(F) /\ 1 \in 1..Len(F)
          /\ 1 + 1 \in 1..Len(F)
      BY <1>1, <1>2, <1>7
    <2>2. T[Len(T)] = F[Len(F)] /\ T[1] = F[1 + 1]
      BY <1>1, <2>1
    <2>3. QED
      BY <2>1, <2>2 DEF Chained
  <1>8. ASSUME \A i \in DOMAIN T : T[i].type # "welcome", F[1].type # "welcome"
        PROVE  \A i \in DOMAIN F : F[i].type # "welcome"
    <2> TAKE i \in DOMAIN F
    <2>1. i = 1 \/ (i - 1 \in 1..Len(T) /\ (i - 1) + 1 = i)
      BY <1>1
    <2>2. QED
      BY <1>1, <1>8, <2>1
  <1>9. QED
    BY <1>1, <1>4, <1>5, <1>6, <1>7, <1>8 DEF T
-----------------------------------------------------------------------------
(* The frames in flight, and what the screen makes of them.                *)

\* What the engine says next follows what it said last.
LEMMA NextFrame ==
  ASSUME FeedTypeOK, step = "lock" => engine.phase = "draw",
         NEW f \in Frame, EngineAfter(f),
         NEW type, \/ type = "phase_changed" /\ step = "announce"
                   \/ type = "draw_locked" /\ step = "lock"
                   \/ type = "welcome"
  PROVE  Follows(f, FrameOf(type, engine))
  <1>1. /\ FrameOf(type, engine).type = type
        /\ FrameOf(type, engine).draw = engine.draw
        /\ FrameOf(type, engine).phase = engine.phase
    BY DEF FrameOf
  <1>2. QED
    BY <1>1 DEF EngineAfter, Follows

\* The engine after a step of its own, when no frame is sent.
LEMMA EngineMoves ==
  ASSUME FeedTypeOK, NEW f \in Frame, EngineAfter(f),
         step = "lock" => engine.phase = "draw",
         NextPhase \/ NextRound
  PROVE  EngineAfter(f)'
  <1>1. engine \in [draw : Draws, phase : Phases]
    BY DEF FeedTypeOK
  <1>2. /\ FrameOf("phase_changed", engine').type = "phase_changed"
        /\ FrameOf("phase_changed", engine').draw = engine'.draw
        /\ FrameOf("phase_changed", engine').phase = engine'.phase
    BY DEF FrameOf
  <1>3. CASE NextPhase
    <2>1. /\ step = "steady" /\ step' = "announce" /\ engine'.draw = engine.draw
          /\ \/ engine.phase = "idle" /\ engine'.phase = "preLaunch"
             \/ engine.phase = "preLaunch" /\ engine'.phase = "draw"
             \/ engine.phase = "draw" /\ engine'.phase = "results"
      BY <1>1, <1>3 DEF NextPhase, After
    <2>2. f.draw = engine.draw /\ f.phase = engine.phase /\ Settled(f)
      BY <2>1 DEF EngineAfter
    <2>3. Follows(f, FrameOf("phase_changed", engine'))
      BY <1>2, <2>1, <2>2 DEF Follows
    <2>4. QED
      BY <2>1, <2>3 DEF EngineAfter
  <1>4. CASE NextRound
    <2>1. step' = "announce" /\ engine'.phase = "idle"
      BY <1>4 DEF NextRound
    <2>2. Follows(f, FrameOf("phase_changed", engine'))
      BY <1>2, <2>1 DEF Follows
    <2>3. QED
      BY <2>1, <2>2 DEF EngineAfter
  <1>5. QED
    BY <1>3, <1>4

\* The frame that was sent is the last one.
LEMMA JustSent ==
  ASSUME FeedTypeOK, step = "lock" => engine.phase = "draw",
         NEW type, engine' = engine,
         \/ /\ type = "phase_changed" /\ step = "announce"
            /\ step' = IF engine.phase = "draw" THEN "lock" ELSE "steady"
         \/ type = "draw_locked" /\ step = "lock" /\ step' = "steady"
         \/ type = "welcome" /\ step' = step,
         NEW g, g = FrameOf(type, engine)
  PROVE  EngineAfter(g)'
  <1>1. engine \in [draw : Draws, phase : Phases]
        /\ step \in {"steady", "announce", "lock"}
    BY DEF FeedTypeOK
  <1>2. \A t : /\ FrameOf(t, engine).type = t
               /\ FrameOf(t, engine).draw = engine.draw
               /\ FrameOf(t, engine).phase = engine.phase
    BY DEF FrameOf
  <1>3. FrameOf("phase_changed", engine)' = FrameOf("phase_changed", engine)
    BY DEF FrameOf, NumbersOf
  <1>4. QED
    BY <1>1, <1>2, <1>3 DEF EngineAfter, Settled, Follows, Phases

\* A frame that follows what the screen shows is shown.
LEMMA ShownNext ==
  ASSUME FeedTypeOK, NEW f \in Frame, NEW g \in Frame,
         g.numbers = NumbersOf(g),
         g.type = "welcome" \/ (Shows(f) /\ Follows(f, g)),
         view' = Handle(g, view), kind' = kind
  PROVE  Shows(g)'
  <1>1. kind \in {"agentKeno", "agentRoulette", "adminKeno", "adminRoulette"}
    BY FeedBounds DEF FeedTypeOK
  <1>2. g.type \in {"welcome", "phase_changed", "draw_locked"} /\ f.phase \in Phases
        /\ g.phase \in {"idle", "preLaunch", "draw", "results"}
    BY DEF Frame, Phases
  <1>3. CASE g.type = "welcome"
    BY <1>1, <1>2, <1>3, HandledView DEF Shows, Settled, NumbersOf, NoNumbers
  <1>4. CASE g.type = "draw_locked"
    BY <1>1, <1>2, <1>4, HandledView
    DEF Shows, Settled, Follows, NumbersOf, NoNumbers
  <1>5. CASE g.type = "phase_changed" /\ g.phase = "idle"
    BY <1>1, <1>2, <1>5, HandledView
    DEF Shows, Settled, Follows, NumbersOf, NoNumbers, Clears
  <1>6. CASE g.type = "phase_changed" /\ g.phase = "preLaunch"
    BY <1>1, <1>2, <1>6, HandledView
    DEF Shows, Settled, Follows, NumbersOf, NoNumbers, Clears
  <1>7. CASE g.type = "phase_changed" /\ g.phase = "draw"
    BY <1>1, <1>2, <1>7, HandledView
    DEF Shows, Settled, Follows, NumbersOf, NoNumbers, Clears
  <1>8. CASE g.type = "phase_changed" /\ g.phase = "results"
    BY <1>1, <1>2, <1>8, HandledView
    DEF Shows, Settled, Follows, NumbersOf, NoNumbers, Clears
  <1>9. QED
    BY <1>2, <1>3, <1>4, <1>5, <1>6, <1>7, <1>8

\* Only one socket feeds the screen.
LEMMA OneListener ==
  ASSUME FeedTypeOK, OneFeedEach, NEW r \in Sockets, NEW s \in Sockets,
         Listens(r), Listens(s)
  PROVE  r = s
  BY DEF OneFeedEach, Listens, Running

\* Nothing that matters to the socket has changed.
LEMMA StaysInOrder ==
  ASSUME NEW s \in Sockets, InOrder(s), sock'[s] = sock[s],
         UNCHANGED <<engine, step, mounted, mount, kind>>,
         view'.phase = view.phase, view'.draw = view.draw, view'.numbers = view.numbers
  PROVE  InOrder(s)'
  <1>1. \A f : EngineAfter(f)' <=> EngineAfter(f)
    BY DEF EngineAfter, FrameOf, NumbersOf
  <1>2. \A f : Shows(f)' <=> Shows(f)
    BY DEF Shows
  <1>3. Welcomed(s)' <=> Welcomed(s)
    BY DEF Welcomed, Running
  <1>4. ASSUME NEW f, LeadsTo(f, sock[s].frames)
        PROVE  LeadsTo(f, sock[s].frames)'
    BY <1>1, <1>4 DEF LeadsTo
  <1>5. (sock[s].frames # <<>> => EngineAfter(sock[s].frames[Len(sock[s].frames)]))'
    BY <1>1 DEF InOrder
  <1>6. Chained(sock[s].frames)'
    BY DEF InOrder, Chained
  <1>7. Welcomed(s)' => \E f \in Frame : Shows(f)' /\ LeadsTo(f, sock[s].frames)'
    BY <1>2, <1>3, <1>4 DEF InOrder
  <1>8. QED
    BY <1>5, <1>6, <1>7 DEF InOrder

\* The engine tells the socket one frame more.
LEMMA SentInOrder ==
  ASSUME FeedTypeOK, step = "lock" => engine.phase = "draw",
         NEW s \in Sockets, InOrder(s),
         NEW type,
         \/ /\ type = "phase_changed" /\ step = "announce"
            /\ step' = IF engine.phase = "draw" THEN "lock" ELSE "steady"
         \/ type = "draw_locked" /\ step = "lock" /\ step' = "steady"
         \/ type = "welcome" /\ step' = step,
         NEW g, g = FrameOf(type, engine),
         UNCHANGED <<kind, engine, mounted, mount, view>>,
         sock'[s].frames = Append(sock[s].frames, g),
         sock'[s].state = sock[s].state, sock'[s].owner = sock[s].owner,
         sock'[s].server = sock[s].server \/ type = "welcome"
  PROVE  InOrder(s)'
  <1> DEFINE F == sock[s].frames
             G == Append(F, g)
  <1>1. g \in Frame /\ g.numbers = NumbersOf(g) /\ g.type = type
    BY FrameTypes, FeedBounds DEF FeedTypeOK
  <1>2. F \in Seq(Frame)
    BY DEF FeedTypeOK, Socket
  <1>3. \A f \in Frame : EngineAfter(f) => Follows(f, g)
    BY NextFrame
  <1>4. EngineAfter(g)'
    BY JustSent
  <1>5. F # <<>> => F[Len(F)] \in Frame /\ EngineAfter(F[Len(F)])
    BY <1>2, LastInFrame DEF InOrder
  <1>6. /\ G # <<>> /\ G[Len(G)] = g
        /\ G[1] = IF F = <<>> THEN g ELSE F[1]
        /\ Chained(G)
        /\ (\A i \in DOMAIN G : G[i].type # "welcome") => \A i \in DOMAIN F : F[i].type # "welcome"
    <2>1. Chained(F) /\ (F # <<>> => Follows(F[Len(F)], g))
      BY <1>3, <1>5 DEF InOrder
    <2>2. QED
      BY <1>1, <1>2, <2>1, ChainedAppend
  <1>7. sock'[s].frames = G
    OBVIOUS
  <1>8. EngineAfter(sock[s].frames[Len(sock[s].frames)])'
    BY <1>4, <1>6, <1>7 DEF EngineAfter
  <1>9. ASSUME Welcomed(s)'
        PROVE  \E f \in Frame : Shows(f)' /\ LeadsTo(f, sock[s].frames)'
    <2>1. \A i \in DOMAIN G : G[i].type # "welcome"
      BY <1>7, <1>9 DEF Welcomed
    <2>2. type # "welcome"
      BY <1>1, <1>2, <1>6, <2>1, AppendProperties
    <2>3. Welcomed(s)
      BY <1>6, <1>9, <2>1, <2>2 DEF Welcomed, Running
    <2>4. PICK f \in Frame : Shows(f) /\ LeadsTo(f, F)
      BY <2>3 DEF InOrder
    <2>5. Follows(f, G[1])
      BY <1>3, <1>6, <2>4 DEF LeadsTo
    <2>6. Shows(f)' /\ LeadsTo(f, sock[s].frames)'
      BY <1>6, <1>7, <2>4, <2>5 DEF Shows, LeadsTo
    <2>7. QED
      BY <2>6
  <1>10. Chained(sock[s].frames)'
    BY <1>6, <1>7 DEF Chained
  <1>11. QED
    BY <1>8, <1>9, <1>10 DEF InOrder

\* The engine moves, and says so later.
LEMMA MovedInOrder ==
  ASSUME FeedTypeOK, step = "lock" => engine.phase = "draw",
         NEW s \in Sockets, InOrder(s), NextPhase \/ NextRound
  PROVE  InOrder(s)'
  <1>1. UNCHANGED <<kind, mounted, mount, sock, view>>
    BY DEF NextPhase, NextRound
  <1>2. sock[s].frames \in Seq(Frame)
    BY DEF FeedTypeOK, Socket
  <1>3. ASSUME sock[s].frames # <<>>
        PROVE  EngineAfter(sock[s].frames[Len(sock[s].frames)])'
    <2>1. PICK l \in Frame : l = sock[s].frames[Len(sock[s].frames)]
      BY <1>2, <1>3, LastInFrame
    <2>2. EngineAfter(l)'
      BY <1>3, <2>1, EngineMoves DEF InOrder
    <2>3. QED
      BY <1>1, <2>1, <2>2 DEF EngineAfter
  <1>4. ASSUME Welcomed(s)'
        PROVE  \E f \in Frame : Shows(f)' /\ LeadsTo(f, sock[s].frames)'
    <2>1. Welcomed(s)
      BY <1>1, <1>4 DEF Welcomed, Running
    <2>2. PICK f \in Frame : Shows(f) /\ LeadsTo(f, sock[s].frames)
      BY <2>1 DEF InOrder
    <2>3. LeadsTo(f, sock[s].frames)'
      BY <1>1, <2>2, EngineMoves DEF LeadsTo
    <2>4. QED
      BY <1>1, <2>2, <2>3 DEF Shows
  <1>5. QED
    BY <1>1, <1>3, <1>4 DEF InOrder, Chained, EngineAfter

\* A connection that was sent nothing and not welcomed.
LEMMA EmptyInOrder ==
  ASSUME NEW s, sock'[s].frames = <<>>, sock'[s].server # "welcomed"
  PROVE  InOrder(s)'
  <1>1. Chained(<<>>)
    BY EmptySeq DEF Chained
  <1>2. QED
    BY <1>1 DEF InOrder, Welcomed, Chained

\* The screen handles the oldest frame.
LEMMA HandledInOrder ==
  ASSUME FeedTypeOK, NEW s \in Sockets, InOrder(s), Listens(s),
         sock[s].frames # <<>>,
         view' = Handle(Head(sock[s].frames), view),
         UNCHANGED <<kind, engine, step, mounted, mount>>,
         sock'[s].frames = Tail(sock[s].frames),
         sock'[s].state = sock[s].state, sock'[s].owner = sock[s].owner,
         sock'[s].server = sock[s].server
  PROVE  InOrder(s)'
  <1> DEFINE F == sock[s].frames
             T == Tail(F)
  <1>1. F \in Seq(Frame) /\ Chained(F)
    BY DEF FeedTypeOK, Socket, InOrder
  <1>2. /\ Head(F) = F[1] /\ F[1] \in Frame /\ F[1].numbers = NumbersOf(F[1])
        /\ Chained(T)
        /\ T = <<>> => F[Len(F)] = F[1]
        /\ T # <<>> => T[Len(T)] = F[Len(F)] /\ Follows(F[1], T[1])
        /\ (\A i \in DOMAIN T : T[i].type # "welcome") /\ F[1].type # "welcome" =>
             \A i \in DOMAIN F : F[i].type # "welcome"
    BY <1>1, ChainedTail
  <1>3. PICK g \in Frame : g = F[1]
    BY <1>2
  <1>4. EngineAfter(F[Len(F)])
    BY DEF InOrder
  <1>5. \A f : EngineAfter(f)' <=> EngineAfter(f)
    BY DEF EngineAfter, FrameOf, NumbersOf
  <1>6. ASSUME T # <<>>
        PROVE  EngineAfter(sock[s].frames[Len(sock[s].frames)])'
    <2>1. PICK l : l = F[Len(F)]
      OBVIOUS
    <2>2. EngineAfter(l)'
      BY <1>4, <1>5, <2>1
    <2>3. l = T[Len(T)] /\ sock'[s].frames = T
      BY <1>2, <1>6, <2>1
    <2>4. QED
      BY <2>2, <2>3 DEF EngineAfter
  <1>7. ASSUME Welcomed(s)'
        PROVE  \E f \in Frame : Shows(f)' /\ LeadsTo(f, sock[s].frames)'
    <2>1. \A i \in DOMAIN T : T[i].type # "welcome"
      BY <1>7 DEF Welcomed
    <2>2. g.type = "welcome" \/ \E f \in Frame : Shows(f) /\ Follows(f, g)
      <3>1. CASE g.type # "welcome"
        <4>1. Welcomed(s)
          BY <1>2, <1>3, <1>7, <2>1, <3>1 DEF Welcomed, Listens
        <4>2. PICK f \in Frame : Shows(f) /\ LeadsTo(f, F)
          BY <4>1 DEF InOrder
        <4>3. QED
          BY <1>3, <4>2 DEF LeadsTo
      <3>2. QED
        BY <3>1
    <2>3. Shows(g)'
      <3>1. view' = Handle(g, view) /\ g.numbers = NumbersOf(g)
        BY <1>2, <1>3
      <3>2. QED
        BY <1>3, <2>2, <3>1, ShownNext
    <2>4. LeadsTo(g, sock[s].frames)'
      <3>1. sock'[s].frames = T
        OBVIOUS
      <3>2. CASE T = <<>>
        <4>1. EngineAfter(g)'
          BY <1>2, <1>3, <1>4, <1>5, <3>2
        <4>2. QED
          BY <3>1, <3>2, <4>1 DEF LeadsTo
      <3>3. CASE T # <<>>
        BY <1>2, <1>3, <3>1, <3>3 DEF LeadsTo
      <3>4. QED
        BY <3>2, <3>3
    <2>5. QED
      BY <2>3, <2>4
  <1>8. Chained(sock[s].frames)'
    BY <1>2 DEF Chained
  <1>9. QED
    BY <1>6, <1>7, <1>8 DEF InOrder

\* Every step keeps the frames in order, from what the screen shows to the engine.
LEMMA FramesKept ==
  ASSUME FeedTypeOK, OneFeedEach, QuietUntilOpen, FramesInOrder,
         FeedNext
  PROVE  FramesInOrder'
  <1>0. /\ sock \in [Sockets -> Socket] /\ mount \in Nat
        /\ step \in {"steady", "announce", "lock"}
    BY FeedBounds DEF FeedTypeOK, Mounts
  <1>1. step = "lock" => engine.phase = "draw"
    BY DEF FramesInOrder
  <1>2. (step = "lock" => engine.phase = "draw")'
    BY <1>1
    DEF FeedNext, NextPhase, NextRound, Announce, Lock, Mount,
        Unmount, ChangeKiosk, Register, Welcome, Open, Drop,
        Closed, Message, Retry
  <1> SUFFICES ASSUME NEW r \in Sockets, Listens(r)'
               PROVE  InOrder(r)'
    BY <1>2 DEF FramesInOrder, Sockets
  <1>3. Listens(r) => InOrder(r)
    BY DEF FramesInOrder
  <1>4. CASE NextPhase \/ NextRound
    <2>1. Listens(r)
      BY <1>4 DEF NextPhase, NextRound, Listens, Running
    <2>2. QED
      BY <1>1, <1>3, <1>4, <2>1, MovedInOrder
  <1>5. ASSUME NEW type, Broadcast(type), UNCHANGED <<kind, engine, mounted, mount, view>>,
               \/ /\ type = "phase_changed" /\ step = "announce"
                  /\ step' = IF engine.phase = "draw" THEN "lock" ELSE "steady"
               \/ type = "draw_locked" /\ step = "lock" /\ step' = "steady"
        PROVE  InOrder(r)'
    <2>1. type \in {"welcome", "phase_changed", "draw_locked"}
      BY <1>5
    <2>2. /\ sock'[r].state = sock[r].state /\ sock'[r].owner = sock[r].owner
          /\ sock'[r].server = sock[r].server
          /\ sock'[r].frames = IF Told(r)
                               THEN Append(sock[r].frames, FrameOf(type, engine))
                               ELSE sock[r].frames
      BY <1>5, <2>1, BroadcastTypes
    <2>3. Listens(r)
      BY <1>5, <2>2 DEF Listens, Running
    <2>4. CASE Told(r)
      <3>1. PICK g : g = FrameOf(type, engine)
        OBVIOUS
      <3>2. sock'[r].frames = Append(sock[r].frames, g)
        BY <2>2, <2>4, <3>1
      <3>3. QED
        BY <1>1, <1>3, <1>5, <2>2, <2>3, <3>1, <3>2, SentInOrder
    <2>5. CASE ~Told(r)
      <3>1. sock'[r].frames = <<>> /\ sock'[r].server = "unknown"
        BY <2>2, <2>3, <2>5 DEF Told, QuietUntilOpen
      <3>2. QED
        BY <3>1, EmptyInOrder
    <2>6. QED
      BY <2>4, <2>5
  <1>6. CASE Announce
    BY <1>5, <1>6 DEF Announce
  <1>7. CASE Lock
    BY <1>5, <1>7 DEF Lock
  <1>8. CASE Mount
    <2>1. ~mounted /\ mount' = mount + 1 /\ mount < MaxMounts /\ Connect(mount + 1, sock, timer)
      BY <1>8 DEF Mount
    <2>2. \A s \in Sockets : sock[s].state # "none" => sock[s].owner # mount + 1
      BY <1>0 DEF OneFeedEach
    <2>3. sock' = sock \/ \E u \in Sockets :
                            sock' = [sock EXCEPT ![u] = NewSocket("connecting", mount + 1)]
      BY <2>1, ConnectedSockets
    <2>4. FALSE
      BY <1>0, <2>1, <2>2, <2>3 DEF Listens, Running, NewSocket
    <2>5. QED
      BY <2>4
  <1>9. CASE Unmount
    BY <1>9 DEF Unmount, Listens, Running
  <1>10. CASE ChangeKiosk
    <2>1. mount' = mount + 1 /\ mount < MaxMounts
      BY <1>10 DEF ChangeKiosk
    <2>2. \A s \in Sockets : sock[s].state # "none" => sock[s].owner # mount + 1
      BY <1>0 DEF OneFeedEach
    <2>3. \/ sock' = Closing(mount)
          \/ \E u \in Sockets :
               sock' = [Closing(mount) EXCEPT ![u] = NewSocket("connecting", mount + 1)]
      <3>1. /\ Connect(mount + 1, Closing(mount), timer \ {mount})
            /\ timer \ {mount} \in SUBSET timer
        BY <1>10 DEF ChangeKiosk
      <3>2. QED
        BY <2>1, <3>1, ConnectedSockets
    <2>4. sock'[r].state = "open" => sock'[r] = Closing(mount)[r]
      BY <2>3, ClosedSockets DEF NewSocket
    <2>5. sock'[r].state = "open" => sock'[r].owner = sock[r].owner /\ sock[r].state # "none"
      BY <2>4, ClosedSockets
    <2>6. QED
      BY <2>1, <2>2, <2>5 DEF Listens, Running
  <1>11. ASSUME NEW s \in Sockets, Welcome(s)
         PROVE  InOrder(r)'
    <2>1. /\ UNCHANGED <<kind, engine, step, mounted, mount, view>>
          /\ sock[s].state = "open"
          /\ sock' = [sock EXCEPT ![s].server = "welcomed",
                        ![s].frames = IF Running(sock[s].owner)
                                      THEN Append(@, FrameOf("welcome", engine)) ELSE @]
      BY <1>11 DEF Welcome
    <2>2. sock'[r].state = sock[r].state /\ sock'[r].owner = sock[r].owner
      BY <1>0, <2>1 DEF Socket
    <2>3. Listens(r)
      BY <2>1, <2>2 DEF Listens, Running
    <2>4. CASE r = s
      <3>1. PICK g : g = FrameOf("welcome", engine)
        OBVIOUS
      <3>2. sock'[r].frames = Append(sock[r].frames, g)
        BY <1>0, <2>1, <2>3, <2>4, <3>1 DEF Listens, Socket
      <3>3. QED
        BY <1>1, <1>3, <2>1, <2>2, <2>3, <3>1, <3>2, SentInOrder
    <2>5. CASE r # s
      BY <1>0, <1>3, <2>1, <2>3, <2>5, StaysInOrder
    <2>6. QED
      BY <2>4, <2>5
  <1>12. ASSUME NEW s \in Sockets,
                Register(s) \/ Open(s) \/ Drop(s) \/ Closed(s)
         PROVE  InOrder(r)'
    <2>1. UNCHANGED <<kind, engine, step, mounted, mount>>
      BY <1>12 DEF Register, Open, Drop, Closed
    <2>2. view'.phase = view.phase /\ view'.draw = view.draw /\ view'.numbers = view.numbers
      BY <1>12 DEF Register, Open, Drop, Closed, FeedTypeOK
    <2>3. \A q \in Sockets \ {s} : sock'[q] = sock[q]
      BY <1>0, <1>12 DEF Register, Open, Drop, Closed
    <2>4. CASE r = s
      <3>1. Register(s) \/ Open(s)
        BY <1>0, <1>12, <2>4 DEF Drop, Closed, NewSocket, Listens, Socket
      <3>2. sock'[r].frames = <<>> /\ sock'[r].server # "welcomed"
        BY <1>0, <2>4, <3>1 DEF Register, Open, QuietUntilOpen, Socket
      <3>3. QED
        BY <3>2, EmptyInOrder
    <2>5. CASE r # s
      <3>1. sock'[r] = sock[r]
        BY <2>3, <2>5
      <3>2. Listens(r)
        BY <2>1, <3>1 DEF Listens, Running
      <3>3. QED
        BY <1>3, <2>1, <2>2, <3>1, <3>2, StaysInOrder
    <2>6. QED
      BY <2>4, <2>5
  <1>13. ASSUME NEW s \in Sockets, Message(s)
         PROVE  InOrder(r)'
    <2>1. /\ Listens(s) /\ sock[s].frames # <<>>
          /\ sock' = [sock EXCEPT ![s].frames = Tail(@)]
          /\ view' = Handle(Head(sock[s].frames), view)
          /\ UNCHANGED <<kind, engine, step, mounted, mount>>
      BY <1>13 DEF Message, Listens
    <2>2. Listens(r) /\ sock'[s].frames = Tail(sock[s].frames)
          /\ sock'[s].state = sock[s].state /\ sock'[s].owner = sock[s].owner
          /\ sock'[s].server = sock[s].server
      BY <1>0, <2>1 DEF Listens, Running, Socket
    <2>3. r = s
      BY <2>1, <2>2, OneListener
    <2>4. InOrder(s)'
      BY <1>3, <2>1, <2>2, <2>3, HandledInOrder
    <2>5. QED
      BY <2>3, <2>4
  <1>14. ASSUME NEW m \in timer, Retry(m)
         PROVE  InOrder(r)'
    <2>1. Connect(m, sock, timer \ {m}) /\ UNCHANGED <<kind, engine, step, mounted, mount, view>>
      BY <1>14 DEF Retry
    <2>2. sock' = sock \/ \E u \in Sockets :
                            sock' = [sock EXCEPT ![u] = NewSocket("connecting", m)]
      BY <2>1, ConnectedSockets
    <2>3. sock'[r] = sock[r]
      BY <1>0, <2>2 DEF Listens, NewSocket
    <2>4. Listens(r)
      BY <2>1, <2>3 DEF Listens, Running
    <2>5. QED
      BY <1>3, <2>1, <2>3, <2>4, StaysInOrder
  <1>15. QED
    BY <1>4, <1>6, <1>7, <1>8, <1>9, <1>10, <1>11, <1>12, <1>13, <1>14 DEF FeedNext
-----------------------------------------------------------------------------
(* The theorems about the feeds.                                           *)

\* At the start no socket exists.
LEMMA FeedStarts ==
  ASSUME FeedInit
  PROVE  FeedInv
  <1>1. \A s \in Sockets : /\ sock[s].state = "none" /\ sock[s].server = "unknown"
                           /\ sock[s].frames = <<>>
    BY DEF FeedInit, NewSocket
  <1>2. FeedTypeOK
    <2>1. NewSocket("none", 0) \in Socket
      BY FeedBounds, EmptySeq DEF NewSocket, Socket, Mounts
    <2>2. sock \in [Sockets -> Socket]
      BY <2>1 DEF FeedInit
    <2>3. /\ engine \in [draw : Draws, phase : Phases]
          /\ view \in [draw : Draws, phase : Phases, numbers : Draws,
                       connected : BOOLEAN]
          /\ mount \in Mounts /\ faults \in 0..MaxFaults
      BY FeedBounds
      DEF FeedInit, NewView, Draws, Phases, NoNumbers, Mounts
    <2>4. QED
      BY <2>2, <2>3 DEF FeedInit, FeedTypeOK
  <1>3. OneFeedEach
    BY <1>1 DEF FeedInit, OneFeedEach, Live
  <1>4. QuietUntilOpen /\ FramesInOrder
    BY <1>1 DEF FeedInit, QuietUntilOpen, FramesInOrder, Listens
  <1>5. QED
    BY <1>2, <1>3, <1>4 DEF FeedInv

\* The invariant is inductive.
LEMMA FeedStep ==
  ASSUME FeedInv, [FeedNext]_feedVars
  PROVE  FeedInv'
  <1>1. CASE FeedNext
    BY <1>1, FeedTypesKept, OneFeedKept, QuietKept, FramesKept DEF FeedInv
  <1>2. CASE UNCHANGED feedVars
    <2>1. UNCHANGED <<kind, engine, step, mounted, mount, sock, timer, view, gaveUp, faults>>
      BY <1>2 DEF feedVars
    <2>2. FeedTypeOK' /\ OneFeedEach' /\ QuietUntilOpen'
      BY <2>1
      DEF FeedInv, FeedTypeOK, OneFeedEach, QuietUntilOpen, Live, Running,
          Sockets, Socket, Mounts
    <2>3. FramesInOrder'
      BY <2>1, StaysInOrder DEF FeedInv, FramesInOrder, Listens, Running, Sockets
    <2>4. QED
      BY <2>2, <2>3 DEF FeedInv
  <1>3. QED
    BY <1>1, <1>2

\* The inductive invariant of the feeds: one socket or timer per closure, and frames in
\* flight that lead from what the screen shows to what the engine last said.
THEOREM FeedInvariant == FeedSpec => []FeedInv
  <1>1. FeedInit => FeedInv
    BY FeedStarts
  <1>2. FeedInv /\ [FeedNext]_feedVars => FeedInv'
    BY FeedStep
  <1>3. QED
    BY <1>1, <1>2, PTL DEF FeedSpec

\* Variables keep their types: the timers are of closures that exist, and a screen names
\* draws and phases of the engine only.
THEOREM FeedTypeCorrect == FeedSpec => []FeedTypeOK
  <1>1. FeedInv => FeedTypeOK
    BY DEF FeedInv
  <1>2. QED
    BY <1>1, FeedInvariant, PTL

\* No page holds two connections, and Keno's hooks, which ignore the callbacks of a closure
\* that was cleaned up, hold none once their page is left.
THEOREM NoFeedIsLeaked == FeedSpec => []FeedsAreOwned
  <1>1. FeedInv => FeedsAreOwned
    BY DEF FeedInv, OneFeedEach, FeedsAreOwned, Live
  <1>2. QED
    BY <1>1, FeedInvariant, PTL

\* From the welcome on, a Keno screen names the draw its numbers belong to: no frame that
\* overtakes the welcome or comes late puts numbers under another draw.
THEOREM NumbersUnderTheirDraw == FeedSpec => []NumbersBelongToDraw
  <1>1. FeedInv => NumbersBelongToDraw
    <2> SUFFICES ASSUME FeedInv, kind \in {"agentKeno", "adminKeno"},
                        NEW s \in Sockets, Welcomed(s)
                 PROVE  view.numbers \in {NoNumbers, view.draw}
      BY DEF NumbersBelongToDraw
    <2>1. PICK f \in Frame : Shows(f)
      BY DEF FeedInv, FramesInOrder, Listens, InOrder, Welcomed
    <2>2. QED
      BY <2>1 DEF Shows
  <1>2. QED
    BY <1>1, FeedInvariant, PTL

\* When everything the engine sent has arrived, the screen shows the engine's state,
\* whatever order the welcome and the broadcasts came in and whatever was lost before.
THEOREM ScreenShowsEngine == FeedSpec => []DisplayFollowsEngine
  <1>1. FeedInv => DisplayFollowsEngine
    <2> SUFFICES ASSUME FeedInv, NEW s \in Sockets,
                        sock[s].state = "open", Running(sock[s].owner),
                        sock[s].server = "welcomed", sock[s].frames = <<>>, step = "steady"
                 PROVE  /\ view.phase = engine.phase
                        /\ kind # "adminRoulette" => view.draw = engine.draw
                        /\ kind \in {"agentKeno", "adminKeno"} =>
                             view.numbers = NumbersOf(engine)
                        /\ kind = "adminRoulette" /\ NumbersOf(engine) # NoNumbers =>
                             view.numbers = NumbersOf(engine)
      BY DEF DisplayFollowsEngine
    <2>1. Welcomed(s)
      BY EmptySeq DEF Welcomed
    <2>2. PICK f \in Frame : Shows(f) /\ LeadsTo(f, sock[s].frames)
      BY <2>1 DEF FeedInv, FramesInOrder, Listens, InOrder
    <2>3. f.draw = engine.draw /\ f.phase = engine.phase /\ Settled(f)
      BY <2>2 DEF LeadsTo, EngineAfter
    <2>4. NumbersOf(f) = NumbersOf(engine)
      BY <2>3 DEF NumbersOf
    <2>5. QED
      BY <2>2, <2>3, <2>4 DEF Shows
  <1>2. QED
    BY <1>1, FeedInvariant, PTL
=============================================================================
