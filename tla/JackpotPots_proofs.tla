-------------------------- MODULE JackpotPots_proofs --------------------------
(***************************************************************************)
(* The proofs about JackpotPots, for every set of pots and tickets, every  *)
(* contribution, threshold, seed and cap.                                  *)
(*                                                                         *)
(* A hit is decided and paid on the copy of the pot that the session       *)
(* loaded, which may be older than the row.  What keeps the money and the  *)
(* cycles in order nonetheless is that within a cycle the amount only      *)
(* grows, so that a copy of the same cycle is never richer than the row    *)
(* (ImageIsOld); that the row is held from its UPDATE to the commit, so    *)
(* that a draft is one contribution, and at most one hit, ahead of it      *)
(* (Drafted); and that a hit of the same cycle starts the next.  A copy of *)
(* an earlier cycle breaks this, and a pot that was hit on one is out of   *)
(* the invariant (FreshPots), but not its credits and its types.           *)
(*                                                                         *)
(* The sums over rows are recursive functions on finite sets.  The module  *)
(* first proves what it needs of them, by the smallest counterexample.     *)
(***************************************************************************)
EXTENDS JackpotPots, FiniteSetTheorems, TLAPS

-----------------------------------------------------------------------------
(* Sums over finite sets.                                                  *)

Choice(s) == CHOOSE x \in s : TRUE

\* sum is the recursive function in SumFunctionOnSet, on the subsets of S.
Sums(f, S, sum) ==
  sum = [s \in SUBSET S |-> IF s = {} THEN 0 ELSE f[Choice(s)] + sum[s \ {Choice(s)}]]

\* The same on the subsets of at most n elements.
SmallSums(f, S, n, sum) ==
  sum = [s \in {r \in SUBSET S : Cardinality(r) <= n} |->
           IF s = {} THEN 0 ELSE f[Choice(s)] + sum[s \ {Choice(s)}]]

LEMMA ChoiceIn == ASSUME NEW s, s # {} PROVE Choice(s) \in s
  BY DEF Choice

LEMMA LeastNatural ==
  ASSUME NEW T, T \subseteq Nat, T # {}
  PROVE  \E m \in T : \A k \in T : ~(k < m)
  <1>1. PICK m \in T : \A k \in T : <<k, m>> \notin OpToRel(<, Nat)
    BY NatLessThanWellFounded, WFMin
  <1>2. \A k \in Nat : k < m => <<k, m>> \in OpToRel(<, Nat)
    BY <1>1, Zenon DEF OpToRel
  <1> QED BY <1>1, <1>2

LEMMA SmallSumsExist ==
  ASSUME NEW f, NEW S, IsFiniteSet(S), NEW n \in Nat
  PROVE  \E sum : SmallSums(f, S, n, sum)
  <1> DEFINE T == {m \in Nat : ~ \E sum : SmallSums(f, S, m, sum)}
  <1> SUFFICES ASSUME T # {} PROVE FALSE
    OBVIOUS
  <1>1. PICK m \in T : \A k \in T : ~(k < m)
    BY LeastNatural, T \subseteq Nat
  <1>2. \A k \in Nat : k < m => \E sum : SmallSums(f, S, k, sum)
    BY <1>1
  <1> DEFINE Few(k) == {r \in SUBSET S : Cardinality(r) <= k}
  <1>3. \A r \in SUBSET S : IsFiniteSet(r) /\ Cardinality(r) \in Nat /\ (Cardinality(r) = 0 <=> r = {})
    BY FS_Subset, FS_CardinalityType, FS_EmptySet
  <1>4. CASE m = 0
    <2>1. \A r \in Few(0) : r = {}
      BY <1>3
    <2>2. SmallSums(f, S, 0, [s \in Few(0) |-> 0])
      BY <2>1 DEF SmallSums
    <2> QED BY <2>2, <1>4, <1>1
  <1>5. CASE m # 0
    <2>1. m - 1 \in Nat /\ m - 1 < m
      BY <1>1, <1>5
    <2>2. PICK sum : SmallSums(f, S, m - 1, sum)
      BY <1>2, <2>1
    <2> DEFINE next == [s \in Few(m) |->
                 IF s = {} THEN 0 ELSE f[Choice(s)] + sum[s \ {Choice(s)}]]
    <2>3. \A s \in Few(m) : s # {} => s \ {Choice(s)} \in Few(m - 1)
      <3> SUFFICES ASSUME NEW s \in Few(m), s # {} PROVE s \ {Choice(s)} \in Few(m - 1)
        OBVIOUS
      <3>1. Choice(s) \in s
        BY ChoiceIn
      <3>2. Cardinality(s \ {Choice(s)}) = Cardinality(s) - 1
        BY <3>1, <1>3, FS_RemoveElement
      <3> QED BY <3>2, <1>1, <1>3
    <2>4. \A s \in Few(m - 1) : s \in Few(m) /\ next[s] = sum[s]
      <3> SUFFICES ASSUME NEW s \in Few(m - 1) PROVE s \in Few(m) /\ next[s] = sum[s]
        OBVIOUS
      <3>1. s \in Few(m)
        BY <1>1, <1>3
      <3>2. sum[s] = IF s = {} THEN 0 ELSE f[Choice(s)] + sum[s \ {Choice(s)}]
        BY <2>2 DEF SmallSums
      <3> QED BY <3>1, <3>2
    <2>5. SmallSums(f, S, m, next)
      BY <2>3, <2>4 DEF SmallSums
    <2> QED BY <2>5, <1>1
  <1> QED BY <1>4, <1>5

LEMMA SumsExist ==
  ASSUME NEW f, NEW S, IsFiniteSet(S)
  PROVE  \E sum : Sums(f, S, sum)
  <1>1. Cardinality(S) \in Nat /\ \A r \in SUBSET S : Cardinality(r) <= Cardinality(S)
    BY FS_CardinalityType, FS_Subset
  <1>2. {r \in SUBSET S : Cardinality(r) <= Cardinality(S)} = SUBSET S
    BY <1>1
  <1>3. PICK sum : SmallSums(f, S, Cardinality(S), sum)
    BY <1>1, SmallSumsExist
  <1>4. Sums(f, S, sum)
    BY <1>2, <1>3 DEF Sums, SmallSums
  <1> QED BY <1>4

LEMMA SumsAgree ==
  ASSUME NEW f, NEW S, IsFiniteSet(S), NEW R \in SUBSET S,
         NEW g, Sums(f, S, g), NEW h, Sums(f, R, h)
  PROVE  h[R] = g[R]
  <1> DEFINE T == {s \in SUBSET R : h[s] # g[s]}
  <1> SUFFICES ASSUME T # {} PROVE FALSE
    OBVIOUS
  <1>1. IsWellFoundedOn(StrictSubsetOrdering(S), SUBSET S)
    BY FS_StrictSubsetOrderingWellFounded, FS_FiniteSubsetsOfFinite
  <1>2. T \subseteq SUBSET S
    OBVIOUS
  <1>3. PICK s \in T : \A r \in T : ~ (<<r, s>> \in StrictSubsetOrdering(S))
    BY <1>1, <1>2, WFMin
  <1>4. s # {}
    BY <1>3 DEF Sums
  <1>5. Choice(s) \in s
    BY <1>4, ChoiceIn
  <1>6. s \ {Choice(s)} \notin T
    BY <1>3, <1>5 DEF StrictSubsetOrdering
  <1>7. h[s] = f[Choice(s)] + h[s \ {Choice(s)}] /\ g[s] = f[Choice(s)] + g[s \ {Choice(s)}]
    BY <1>3, <1>4 DEF Sums
  <1> QED BY <1>3, <1>6, <1>7

LEMMA SumIsLast ==
  ASSUME NEW f, NEW S, IsFiniteSet(S)
  PROVE  \E sum : Sums(f, S, sum) /\ SumFunctionOnSet(f, S) = sum[S]
  <1> DEFINE S0 == CHOOSE sum : Sums(f, S, sum)
  <1>1. Sums(f, S, S0)
    BY SumsExist
  <1>2. SumFunctionOnSet(f, S) = S0[S]
    BY DEF Sums, Choice, SumFunctionOnSet, FoldFunctionOnSet, MapThenFoldSet
  <1> QED BY <1>1, <1>2

\* The sum unfolds, on every subset of a finite set.
LEMMA SumUnfolds ==
  ASSUME NEW f, NEW S, IsFiniteSet(S)
  PROVE  SumFunctionOnSet(f, S) =
           IF S = {} THEN 0 ELSE f[Choice(S)] + SumFunctionOnSet(f, S \ {Choice(S)})
  <1>1. PICK sum : Sums(f, S, sum) /\ SumFunctionOnSet(f, S) = sum[S]
    BY SumIsLast
  <1>2. CASE S = {}
    BY <1>1, <1>2 DEF Sums
  <1>3. CASE S # {}
    <2> DEFINE R == S \ {Choice(S)}
    <2>1. IsFiniteSet(R) /\ R \in SUBSET S
      BY FS_Subset
    <2>2. PICK rest : Sums(f, R, rest) /\ SumFunctionOnSet(f, R) = rest[R]
      BY <2>1, SumIsLast
    <2>3. rest[R] = sum[R]
      BY <1>1, <2>1, <2>2, SumsAgree
    <2>4. sum[S] = f[Choice(S)] + sum[R]
      BY <1>1, <1>3 DEF Sums
    <2> QED BY <1>1, <1>3, <2>2, <2>3, <2>4
  <1> QED BY <1>2, <1>3

\* Smallest counterexample: a property of the subsets of a finite set.
LEMMA SmallestSubset ==
  ASSUME NEW S, IsFiniteSet(S), NEW T, T \subseteq SUBSET S, T # {}
  PROVE  \E s \in T : IsFiniteSet(s) /\ \A x \in s : s \ {x} \notin T
  <1>1. IsWellFoundedOn(StrictSubsetOrdering(S), SUBSET S)
    BY FS_StrictSubsetOrderingWellFounded, FS_FiniteSubsetsOfFinite
  <1>2. PICK s \in T : \A r \in T : ~ (<<r, s>> \in StrictSubsetOrdering(S))
    BY <1>1, WFMin
  <1>3. \A x \in s : <<s \ {x}, s>> \in StrictSubsetOrdering(S)
    BY <1>2 DEF StrictSubsetOrdering
  <1> QED BY <1>2, <1>3, FS_Subset

LEMMA SumOfNaturals ==
  ASSUME NEW D, NEW f \in [D -> Nat], NEW S \in SUBSET D, IsFiniteSet(S)
  PROVE  SumFunctionOnSet(f, S) \in Nat
  <1> DEFINE T == {s \in SUBSET S : SumFunctionOnSet(f, s) \notin Nat}
  <1> SUFFICES ASSUME T # {} PROVE FALSE
    OBVIOUS
  <1>1. PICK s \in T : IsFiniteSet(s) /\ \A x \in s : s \ {x} \notin T
    BY SmallestSubset, T \subseteq SUBSET S
  <1>2. s # {} /\ SumFunctionOnSet(f, s) = f[Choice(s)] + SumFunctionOnSet(f, s \ {Choice(s)})
    BY <1>1, SumUnfolds
  <1>3. Choice(s) \in s
    BY <1>2, ChoiceIn
  <1>4. SumFunctionOnSet(f, s \ {Choice(s)}) \in Nat
    BY <1>1, <1>3
  <1>5. f[Choice(s)] \in Nat
    BY <1>1, <1>3
  <1>6. SumFunctionOnSet(f, s) \in Nat
    BY <1>2, <1>4, <1>5
  <1> QED BY <1>6, <1>1

\* ... from any element, not just the chosen one.
LEMMA SumRemove ==
  ASSUME NEW D, NEW f \in [D -> Nat], NEW S \in SUBSET D, IsFiniteSet(S), NEW x \in S
  PROVE  SumFunctionOnSet(f, S) = f[x] + SumFunctionOnSet(f, S \ {x})
  <1> DEFINE Sum(s) == SumFunctionOnSet(f, s)
             T == {s \in SUBSET S : \E y \in s : Sum(s) # f[y] + Sum(s \ {y})}
  <1> SUFFICES ASSUME T # {} PROVE FALSE
    OBVIOUS
  <1>1. PICK s \in T : IsFiniteSet(s) /\ \A y \in s : s \ {y} \notin T
    BY SmallestSubset, T \subseteq SUBSET S, Zenon
  <1>2. PICK y \in s : Sum(s) # f[y] + Sum(s \ {y})
    BY <1>1
  <1> DEFINE c == Choice(s)
  <1>3. c \in s
    BY <1>2, ChoiceIn
  <1>4. Sum(s) = f[c] + Sum(s \ {c})
    BY <1>1, <1>2, SumUnfolds
  <1>5. c # y
    BY <1>2, <1>4
  <1>6. Sum(s \ {c}) = f[y] + Sum((s \ {c}) \ {y})
    BY <1>1, <1>2, <1>3, <1>5
  <1>7. Sum(s \ {y}) = f[c] + Sum((s \ {y}) \ {c})
    BY <1>1, <1>2, <1>3, <1>5
  <1>8. (s \ {c}) \ {y} = (s \ {y}) \ {c}
    OBVIOUS
  <1>9. Sum((s \ {y}) \ {c}) \in Nat
    BY <1>1, FS_Subset, SumOfNaturals, (s \ {y}) \ {c} \in SUBSET D, (s \ {y}) \ {c} \subseteq s
  <1>10. f[y] \in Nat /\ f[c] \in Nat
    BY <1>1, <1>2, <1>3
  <1> QED BY <1>2, <1>4, <1>6, <1>7, <1>8, <1>9, <1>10

LEMMA SumAdd ==
  ASSUME NEW D, NEW f \in [D -> Nat], NEW S \in SUBSET D, IsFiniteSet(S), NEW x \in D, x \notin S
  PROVE  SumFunctionOnSet(f, S \cup {x}) = SumFunctionOnSet(f, S) + f[x]
  <1>1. (S \cup {x}) \ {x} = S
    OBVIOUS
  <1>2. IsFiniteSet(S \cup {x})
    BY FS_AddElement
  <1>3. SumFunctionOnSet(f, S \cup {x}) = f[x] + SumFunctionOnSet(f, S)
    BY <1>1, <1>2, SumRemove, S \cup {x} \in SUBSET D
  <1>4. f[x] \in Nat /\ SumFunctionOnSet(f, S) \in Nat
    BY SumOfNaturals
  <1> QED BY <1>3, <1>4

LEMMA SumGrows ==
  ASSUME NEW D, NEW f \in [D -> Nat], NEW S \in SUBSET D, IsFiniteSet(S), NEW R \in SUBSET S
  PROVE  SumFunctionOnSet(f, R) <= SumFunctionOnSet(f, S)
  <1> DEFINE Sum(s) == SumFunctionOnSet(f, s)
             T == {s \in SUBSET S : R \subseteq s /\ ~(Sum(R) <= Sum(s))}
  <1> SUFFICES ASSUME T # {} PROVE FALSE
    OBVIOUS
  <1>0. T \subseteq SUBSET S
    OBVIOUS
  <1>1. PICK s \in T : IsFiniteSet(s) /\ \A y \in s : s \ {y} \notin T
    <2> HIDE DEF T
    <2> QED BY <1>0, SmallestSubset
  <1>2. Sum(R) \in Nat
    BY SumOfNaturals, FS_Subset
  <1>3. PICK y \in s : y \notin R
    BY <1>1, <1>2
  <1>4. Sum(s) = f[y] + Sum(s \ {y})
    BY <1>1, SumRemove
  <1>5. Sum(R) <= Sum(s \ {y})
    BY <1>1, <1>3
  <1>6. f[y] \in Nat /\ Sum(s \ {y}) \in Nat
    BY <1>1, FS_Subset, SumOfNaturals, s \ {y} \in SUBSET D
  <1> QED BY <1>1, <1>2, <1>4, <1>5, <1>6
-----------------------------------------------------------------------------
(* The inductive invariant.                                                *)

Ended(t) == pc[t] \in {"committed", "answered", "failed"}
Queued(t) == {queue[t][i] : i \in DOMAIN queue[t]}
OfPot(S, p) == {c \in S : c.pot = p}

AllFinite ==
  /\ IsFiniteSet(book) /\ IsFiniteSet(wins)
  /\ \A t \in Tickets : IsFiniteSet(rows[t]) /\ IsFiniteSet(claims[t])

\* A row is held by one transaction.
RowsLocked ==
  \A t, u \in Tickets : \A p \in DOMAIN draft[t] : p \in DOMAIN draft[u] => t = u

\* Rows and wins tell whose transaction inserted them, and what is committed is of
\* transactions that have ended.
RowsOwned ==
  /\ \A c \in book : Ended(c.ticket)
  /\ \A w \in wins : Ended(w.trigger)
  /\ \A t \in Tickets :
       /\ \A c \in rows[t] : c.ticket = t
       /\ \A w \in claims[t] : w.trigger = t
       /\ pc[t] = "committed" => claims[t] \subseteq wins
       /\ pc[t] # "running" => DOMAIN draft[t] = {}
       /\ pc[t] = "new" => rows[t] = {} /\ claims[t] = {}

\* Whatever a hit takes out, the seed stays.
Seedy(copy) == \A p \in DOMAIN copy : copy[p].amount >= Base[p]
SeedsStay == Seedy(pot) /\ \A t \in Tickets : Seedy(image[t]) /\ Seedy(draft[t])

\* The audit row of a ticket that feeds the row as committed.
Entry(t, p) ==
  [ticket |-> t, pot |-> p, cycle |-> pot[p].cycle,
   amount |-> Contribution[t][p], after |-> pot[p].amount + Contribution[t][p]]

\* The draft is the fed row.
JustFed(t, p) == draft[t][p].amount = Entry(t, p).after /\ draft[t][p].cycle = pot[p].cycle

\* The draft is what the hit w left.
Claimed(t, p, w) ==
  /\ w.cycle = image[t][p].cycle
  /\ w.cycle = pot[p].cycle =>
       /\ draft[t][p].cycle = w.cycle + 1
       /\ Cap[p] # Base[p] => draft[t][p].amount = Base[p] + w.carryover
       /\ HitsAreFresh(p) => w.payout + draft[t][p].amount <= Entry(t, p).after + Base[p]

Drafted(t, p) ==
  /\ OfPot(rows[t], p) = {Entry(t, p)}
  /\ \/ OfPot(claims[t], p) = {} /\ JustFed(t, p)
     \/ \E w \in claims[t] : OfPot(claims[t], p) = {w} /\ Claimed(t, p, w)

\* A transaction that runs has fed some of the ticket's pots and has the others ahead.
SessionIsTrue(t) ==
  /\ \A i, j \in DOMAIN queue[t] : queue[t][i] = queue[t][j] => i = j
  /\ Queued(t) \subseteq Eligible(t) \ DOMAIN draft[t]
  /\ DOMAIN image[t] = Eligible(t)
  /\ DOMAIN draft[t] \subseteq Eligible(t)
  /\ \A c \in rows[t] : c.pot \in DOMAIN draft[t]
  /\ \A w \in claims[t] : w.pot \in DOMAIN draft[t]
  /\ \A p \in DOMAIN draft[t] : Drafted(t, p)

SessionsAreTrue == \A t \in Tickets : pc[t] = "running" => SessionIsTrue(t)

\* A copy of an earlier cycle, or of the same one when the pot was no richer.
ImageIsOld(t, p) ==
  /\ image[t][p].cycle <= pot[p].cycle
  /\ image[t][p].cycle = pot[p].cycle => image[t][p].amount <= pot[p].amount

ImagesAreOld(p) ==
  \A t \in Tickets : pc[t] = "running" /\ p \in Queued(t) => ImageIsOld(t, p)

\* The cycles that were hit are over, and the trail of the current one ends at the row.
CyclesEnd(p) ==
  /\ \A v, w \in wins : v.pot = p /\ w.pot = p /\ v.cycle = w.cycle => v = w
  /\ \A w \in wins : w.pot = p => w.cycle < pot[p].cycle
  /\ \A c \in book : c.pot = p =>
       /\ c.cycle <= pot[p].cycle
       /\ c.cycle = pot[p].cycle => c.after <= pot[p].amount

Funded(p) == Paid(p) + pot[p].amount <= Fund(p) + Seeded(p)

Upto(c) == {b \in InCycle(c.pot, c.cycle) : b.after <= c.after}

\* The row continues the chain of its cycle.
TrailGoesOn(p) ==
  /\ \E o \in Openings(p, pot[p].cycle) :
       pot[p].amount = o + SumFunctionOnSet(Amounts, InCycle(p, pot[p].cycle))
  /\ \A c \in book : c.pot = p =>
       \E o \in Openings(p, c.cycle) : c.after = o + SumFunctionOnSet(Amounts, Upto(c))

FreshPots ==
  \A p \in Pots : HitsAreFresh(p) =>
    /\ ImagesAreOld(p)
    /\ CyclesEnd(p)
    /\ Funded(p)
    /\ Cap[p] # Base[p] => TrailGoesOn(p)

IInv ==
  /\ TypeOK
  /\ AllFinite
  /\ RowsLocked
  /\ RowsOwned
  /\ SeedsStay
  /\ SessionsAreTrue
  /\ FreshPots
  /\ CreditsAreWins
-----------------------------------------------------------------------------
(* The initial states, and the steps that write no money.                  *)

\* Who holds rows of pots.
LEMMA Held ==
  ASSUME NEW copies, HoldRows(copies)
  PROVE  /\ DOMAIN copies = Tickets
         /\ \A t \in Tickets : /\ DOMAIN copies[t] \subseteq Pots
                               /\ \A p \in DOMAIN copies[t] : copies[t][p] \in Row
  BY DEF HoldRows

LEMMA Holding ==
  ASSUME NEW copies, HoldRows(copies), NEW t \in Tickets, NEW copy,
         NEW S \in SUBSET Pots, copy \in [S -> Row]
  PROVE  HoldRows([copies EXCEPT ![t] = copy])
  BY DEF HoldRows

LEMMA InitIInv ==
  ASSUME Init
  PROVE  IInv
  <1> USE DEF Init
  <1>1. TypeOK
    <2>1. pot \in [Pots -> Row]
      BY PotsAssumption DEF Row
    <2>2. HoldRows(image) /\ HoldRows(draft)
      <3>1. {} \in SUBSET Pots /\ NoRows \in [{} -> Row]
        BY DEF NoRows
      <3>2. QED
        BY <3>1 DEF HoldRows
    <2>3. QED
      BY <2>1, <2>2 DEF TypeOK
  <1>2. AllFinite
    BY FS_EmptySet DEF AllFinite
  <1>3. RowsLocked
    BY DEF RowsLocked, NoRows
  <1>4. RowsOwned
    BY DEF RowsOwned, NoRows
  <1>5. SeedsStay
    BY PotsAssumption DEF SeedsStay, Seedy, NoRows
  <1>6. SessionsAreTrue
    BY DEF SessionsAreTrue
  <1>7. FreshPots
    <2> SUFFICES ASSUME NEW p \in Pots
                 PROVE  ImagesAreOld(p) /\ CyclesEnd(p) /\ Funded(p) /\ TrailGoesOn(p)
      BY DEF FreshPots
    <2>1. SumFunctionOnSet(Amounts, {}) = 0 /\ SumFunctionOnSet(Payouts, {}) = 0
      BY SumUnfolds, FS_EmptySet
    <2>2. {w \in wins : w.pot = p} = {} /\ {c \in book : c.pot = p} = {} /\ InCycle(p, 1) = {}
      BY DEF InCycle
    <2>3. ImagesAreOld(p) /\ CyclesEnd(p)
      BY DEF ImagesAreOld, CyclesEnd
    <2>4. Funded(p)
      BY <2>1, <2>2, PotsAssumption, FS_EmptySet DEF Funded, Paid, Fund, Seeded
    <2>5. TrailGoesOn(p)
      <3>1. pot[p].cycle = 1 /\ pot[p].amount = Base[p] /\ Base[p] \in Nat /\ book = {}
        BY PotsAssumption
      <3>2. Base[p] \in Openings(p, 1)
        BY DEF Openings
      <3>3. InCycle(p, pot[p].cycle) = {}
        BY <3>1 DEF InCycle
      <3>4. SumFunctionOnSet(Amounts, InCycle(p, pot[p].cycle)) = 0
        BY <2>1, <3>3
      <3>5. QED
        BY <3>1, <3>2, <3>4 DEF TrailGoesOn
    <2>6. QED
      BY <2>3, <2>4, <2>5
  <1>8. CreditsAreWins
    <2>1. {w \in wins : FALSE} = {} /\ SumFunctionOnSet(Payouts, {}) = 0
      BY SumUnfolds, FS_EmptySet
    <2>2. \A t \in Tickets : {w \in wins : w.winner = t} = {}
      OBVIOUS
    <2>3. QED
      BY <2>1, <2>2 DEF CreditsAreWins
  <1>9. QED
    BY <1>1, <1>2, <1>3, <1>4, <1>5, <1>6, <1>7, <1>8 DEF IInv

\* A step that leaves the store alone, and the copies of those who still wait for a pot.
LEMMA StoreKept ==
  ASSUME FreshPots, UNCHANGED store,
         \A t \in Tickets : pc'[t] = "running" => \A p \in Queued(t)' :
           \/ ImageIsOld(t, p)'
           \/ pc[t] = "running" /\ p \in Queued(t) /\ image'[t][p] = image[t][p]
  PROVE  FreshPots'
  <1> SUFFICES ASSUME NEW p \in Pots, HitsAreFresh(p)'
               PROVE  /\ ImagesAreOld(p)'
                      /\ CyclesEnd(p)'
                      /\ Funded(p)'
                      /\ Cap[p] # Base[p] => TrailGoesOn(p)'
    BY DEF FreshPots
  <1>1. HitsAreFresh(p)
    BY DEF HitsAreFresh, Fresh, store
  <1>2. ImagesAreOld(p)'
    BY <1>1 DEF FreshPots, ImagesAreOld, ImageIsOld, store
  <1>3. CyclesEnd(p)'
    BY <1>1 DEF FreshPots, CyclesEnd, store
  <1>4. Funded(p)'
    BY <1>1 DEF FreshPots, Funded, Paid, Fund, Seeded, store
  <1>5. Cap[p] # Base[p] => TrailGoesOn(p)'
    BY <1>1 DEF FreshPots, TrailGoesOn, Openings, InCycle, Upto, store
  <1>6. QED
    BY <1>2, <1>3, <1>4, <1>5

LEMMA CreditsKept ==
  ASSUME CreditsAreWins, UNCHANGED <<wins, credited>>
  PROVE  CreditsAreWins'
  BY DEF CreditsAreWins

\* The session of a ticket that the step does not touch.
LEMMA SessionKept ==
  ASSUME NEW t \in Tickets, SessionIsTrue(t), UNCHANGED <<pot, book, wins>>,
         UNCHANGED <<image[t], queue[t], draft[t], rows[t], claims[t]>>
  PROVE  SessionIsTrue(t)'
  BY DEF SessionIsTrue, Queued, Drafted, OfPot, Entry, JustFed, Claimed, HitsAreFresh, Fresh

LEMMA KeptByBegin ==
  ASSUME IInv, NEW t \in Tickets, Begin(t)
  PROVE  IInv'
  <1>1. PICK order \in Orders(Eligible(t)) : queue' = [queue EXCEPT ![t] = order]
    BY DEF Begin
  <1>2. /\ pc[t] = "new" /\ pc' = [pc EXCEPT ![t] = "running"]
        /\ image' = [image EXCEPT ![t] = [p \in Eligible(t) |-> pot[p]]]
        /\ UNCHANGED <<pot, book, wins, draft, rows, claims, credited>>
    BY DEF Begin, Goto, store
  <1>3. TypeOK /\ Eligible(t) \in SUBSET Pots
    BY DEF IInv, Eligible
  <1>4. order \in Seq(Pots) /\ \A i, j \in DOMAIN order : order[i] = order[j] => i = j
    <2>1. Cardinality(Eligible(t)) \in Nat
      BY <1>3, PotsAssumption, FS_Subset, FS_CardinalityType
    <2>2. QED
      BY <1>1, <1>3, <2>1 DEF Orders
  <1>5. {order[i] : i \in DOMAIN order} \subseteq Eligible(t)
    BY <1>1 DEF Orders
  <1>6. TypeOK'
    <2>1. [p \in Eligible(t) |-> pot[p]] \in [Eligible(t) -> Row]
      BY <1>3 DEF TypeOK
    <2>2. HoldRows(image')
      BY <1>2, <1>3, <2>1, Holding DEF TypeOK
    <2>3. HoldRows(image)'
      BY <2>2 DEF HoldRows
    <2>4. queue' \in [Tickets -> Seq(Pots)]
      BY <1>1, <1>3, <1>4 DEF TypeOK
    <2>5. QED
      BY <1>2, <1>3, <2>3, <2>4 DEF TypeOK, HoldRows
  <1>7. AllFinite' /\ RowsLocked' /\ RowsOwned'
    BY <1>2, <1>3 DEF IInv, AllFinite, RowsLocked, RowsOwned, Ended, TypeOK
  <1>8. SeedsStay'
    BY <1>2, <1>3, Held DEF IInv, SeedsStay, Seedy, TypeOK
  <1>9. SessionsAreTrue'
    <2> SUFFICES ASSUME NEW u \in Tickets, pc'[u] = "running"
                 PROVE  SessionIsTrue(u)'
      BY DEF SessionsAreTrue
    <2>1. CASE u = t
      <3>1. queue'[t] = order /\ image'[t] = [p \in Eligible(t) |-> pot[p]]
        BY <1>1, <1>2, <1>3, Held DEF TypeOK
      <3>2. DOMAIN draft'[t] = {} /\ rows'[t] = {} /\ claims'[t] = {}
        BY <1>2 DEF IInv, RowsOwned
      <3>3. QED
        BY <2>1, <1>4, <1>5, <3>1, <3>2 DEF SessionIsTrue, Queued, Eligible
    <2>2. CASE u # t
      <3>1. /\ pc[u] = "running"
            /\ UNCHANGED <<image[u], queue[u], draft[u], rows[u], claims[u]>>
        BY <2>2, <1>1, <1>2, <1>3, Held DEF TypeOK
      <3>2. QED
        BY <3>1, <1>2, SessionKept DEF IInv, SessionsAreTrue
    <2>3. QED
      BY <2>1, <2>2
  <1>10. FreshPots'
    <2>1. ASSUME NEW u \in Tickets, pc'[u] = "running", NEW p \in Queued(u)'
          PROVE  \/ ImageIsOld(u, p)'
                 \/ pc[u] = "running" /\ p \in Queued(u) /\ image'[u][p] = image[u][p]
      <3>1. CASE u = t
        <4>1. p \in Eligible(t) /\ image'[t][p] = pot[p]
          BY <2>1, <3>1, <1>1, <1>2, <1>3, <1>5, Held DEF TypeOK, Queued
        <4>2. pot[p] \in Row
          BY <4>1, <1>3 DEF TypeOK
        <4>3. ImageIsOld(u, p)'
          BY <3>1, <4>1, <4>2, <1>2 DEF ImageIsOld, Row
        <4>4. QED
          BY <4>3
      <3>2. CASE u # t
        BY <2>1, <3>2, <1>1, <1>2, <1>3, Held DEF TypeOK, Queued
      <3>3. QED
        BY <3>1, <3>2
    <2>2. QED
      BY <2>1, <1>2, StoreKept DEF IInv, store
  <1>11. QED
    BY <1>2, <1>6, <1>7, <1>8, <1>9, <1>10, CreditsKept DEF IInv

LEMMA KeptByAbort ==
  ASSUME IInv, NEW t \in Tickets, Abort(t)
  PROVE  IInv'
  <1>1. /\ pc[t] = "running" /\ pc' = [pc EXCEPT ![t] = "failed"]
        /\ draft' = [draft EXCEPT ![t] = NoRows]
        /\ rows' = [rows EXCEPT ![t] = {}]
        /\ claims' = [claims EXCEPT ![t] = {}]
        /\ UNCHANGED <<pot, book, wins, image, queue, credited>>
    BY DEF Abort, Rollback, Goto, store
  <1>2. TypeOK
    BY DEF IInv
  <1>3. TypeOK'
    <2>1. {} \in SUBSET Pots /\ NoRows \in [{} -> Row]
      BY DEF NoRows
    <2>2. HoldRows(draft')
      BY <1>1, <1>2, <2>1, Holding DEF TypeOK
    <2>3. HoldRows(draft)'
      BY <2>2 DEF HoldRows
    <2>4. QED
      BY <1>1, <1>2, <2>3 DEF TypeOK, HoldRows
  <1>4. \A u \in Tickets :
          /\ u # t => UNCHANGED <<pc[u], image[u], queue[u], draft[u], rows[u], claims[u]>>
          /\ u = t => /\ pc'[u] = "failed" /\ DOMAIN draft'[u] = {}
                      /\ rows'[u] = {} /\ claims'[u] = {}
    BY <1>1, <1>2, Held DEF TypeOK, NoRows
  <1>5. AllFinite' /\ RowsLocked' /\ RowsOwned'
    BY <1>1, <1>4, FS_EmptySet DEF IInv, AllFinite, RowsLocked, RowsOwned, Ended
  <1>6. SeedsStay'
    BY <1>1, <1>4 DEF IInv, SeedsStay, Seedy
  <1>7. SessionsAreTrue'
    BY <1>1, <1>4, SessionKept DEF IInv, SessionsAreTrue
  <1>8. FreshPots'
    BY <1>1, <1>4, StoreKept DEF IInv, store, Queued
  <1>9. QED
    BY <1>1, <1>3, <1>5, <1>6, <1>7, <1>8, CreditsKept DEF IInv

\* A step of a ticket whose transaction has ended.
LEMMA KeptAfterEnd ==
  ASSUME IInv, NEW t \in Tickets, pc[t] = "committed", UNCHANGED <<store, session>>,
         pc' = [pc EXCEPT ![t] = "answered"] \/ pc' = [pc EXCEPT ![t] = "failed"],
         credited' \in [Tickets -> Nat], CreditsAreWins'
  PROVE  IInv'
  <1>1. TypeOK /\ UNCHANGED <<pot, book, wins, image, queue, draft, rows, claims>>
    BY DEF IInv, store, session
  <1>2. TypeOK'
    BY <1>1 DEF TypeOK, HoldRows
  <1>3. \A u \in Tickets : IF u = t THEN pc'[u] \in {"answered", "failed"} ELSE pc'[u] = pc[u]
    BY <1>1 DEF TypeOK
  <1>4. AllFinite' /\ RowsLocked' /\ SeedsStay'
    BY <1>1 DEF IInv, AllFinite, RowsLocked, SeedsStay, Seedy
  <1>5. RowsOwned'
    <2>1. /\ \A c \in book : c.ticket \in Tickets
          /\ \A w \in wins : w.trigger \in Tickets
      BY <1>1 DEF TypeOK, Contributions, Wins
    <2>2. QED
      BY <1>1, <1>3, <2>1 DEF IInv, RowsOwned, Ended
  <1>6. SessionsAreTrue'
    BY <1>1, <1>3, SessionKept DEF IInv, SessionsAreTrue
  <1>7. FreshPots'
    BY <1>1, <1>3, StoreKept DEF IInv, Queued
  <1>8. QED
    BY <1>2, <1>4, <1>5, <1>6, <1>7 DEF IInv

LEMMA KeptByLoseAnswer ==
  ASSUME IInv, NEW t \in Tickets, LoseAnswer(t)
  PROVE  IInv'
  <1>1. credited' \in [Tickets -> Nat] /\ CreditsAreWins'
    BY CreditsKept DEF LoseAnswer, IInv, TypeOK, store
  <1>2. QED
    BY <1>1, KeptAfterEnd DEF LoseAnswer, Goto

\* What a set of wins pays.
LEMMA PayoutSums ==
  ASSUME NEW S, S \subseteq Wins, IsFiniteSet(S)
  PROVE  /\ SumFunctionOnSet(Payouts, S) \in Nat
         /\ \A R \in SUBSET S : SumFunctionOnSet(Payouts, R) <= SumFunctionOnSet(Payouts, S)
  <1>1. Payouts \in [Wins -> Nat]
    BY DEF Payouts, Wins
  <1>2. QED
    BY <1>1, SumOfNaturals, SumGrows

LEMMA KeptByAward ==
  ASSUME IInv, NEW t \in Tickets, Award(t)
  PROVE  IInv'
  <1> DEFINE mine == {c \in claims[t] : c.winner = t}
             all == {w \in wins : w.winner = t}
  <1>1. /\ pc[t] = "committed"
        /\ credited' = [credited EXCEPT ![t] = SumFunctionOnSet(Payouts, mine)]
        /\ UNCHANGED wins
    BY DEF Award, store
  <1>2. mine \subseteq all /\ all \subseteq Wins /\ IsFiniteSet(all)
    <2>1. IsFiniteSet(wins)
      BY DEF IInv, AllFinite
    <2>2. QED
      BY <1>1, <2>1, FS_Subset DEF IInv, RowsOwned, TypeOK
  <1>3. /\ SumFunctionOnSet(Payouts, mine) <= SumFunctionOnSet(Payouts, all)
        /\ SumFunctionOnSet(Payouts, mine) \in Nat
    <2>1. mine \subseteq Wins /\ IsFiniteSet(mine)
      BY <1>2, FS_Subset
    <2>2. QED
      BY <1>2, <2>1, PayoutSums
  <1>4. credited' \in [Tickets -> Nat]
    BY <1>1, <1>3 DEF IInv, TypeOK
  <1>5. CreditsAreWins'
    <2> SUFFICES ASSUME NEW u \in Tickets
                 PROVE  credited'[u] <= SumFunctionOnSet(Payouts, {w \in wins : w.winner = u})
      BY <1>1 DEF CreditsAreWins
    <2>1. CASE u = t
      BY <2>1, <1>1, <1>3 DEF IInv, TypeOK
    <2>2. CASE u # t
      BY <2>2, <1>1 DEF IInv, TypeOK, CreditsAreWins
    <2>3. QED
      BY <2>1, <2>2
  <1>6. QED
    BY <1>4, <1>5, KeptAfterEnd DEF Award, Goto

\* A threshold is drawn again: no row of the pot is held, and nothing depends on it.
LEMMA KeptByRedraw ==
  ASSUME IInv, NEW p \in Pots, Redraw(p)
  PROVE  IInv'
  <1>1. PICK th \in Thresholds[p] : pot' = [pot EXCEPT ![p].threshold = th]
    BY DEF Redraw
  <1>2. /\ \A t \in Tickets : p \notin DOMAIN draft[t]
        /\ UNCHANGED <<book, wins, pc, image, queue, draft, rows, claims, credited>>
    BY DEF Redraw, Unlocked, session
  <1>3. TypeOK
    BY DEF IInv
  <1>4. pot' \in [Pots -> Row]
    BY <1>1, <1>3, PotsAssumption DEF TypeOK, Row
  <1>5. TypeOK'
    BY <1>2, <1>3, <1>4 DEF TypeOK, HoldRows
  <1>6. \A q \in Pots : pot'[q].amount = pot[q].amount /\ pot'[q].cycle = pot[q].cycle
    BY <1>1, <1>3 DEF TypeOK, Row
  <1>7. AllFinite' /\ RowsLocked' /\ RowsOwned'
    BY <1>2 DEF IInv, AllFinite, RowsLocked, RowsOwned, Ended
  <1>8. SeedsStay'
    BY <1>2, <1>3, <1>4, <1>6 DEF IInv, SeedsStay, Seedy, TypeOK
  <1>9. SessionsAreTrue'
    <2> SUFFICES ASSUME NEW t \in Tickets, pc[t] = "running"
                 PROVE  SessionIsTrue(t)'
      BY <1>2 DEF SessionsAreTrue
    <2>1. \A q \in DOMAIN draft[t] : Entry(t, q)' = Entry(t, q) /\ pot'[q].cycle = pot[q].cycle
      BY <1>3, <1>6, Held DEF Entry, TypeOK
    <2>2. \A q \in DOMAIN draft[t] : Drafted(t, q)'
      BY <1>2, <2>1
      DEF IInv, SessionsAreTrue, SessionIsTrue, Drafted, OfPot, JustFed, Claimed, HitsAreFresh, Fresh
    <2>3. QED
      BY <1>2, <2>2 DEF IInv, SessionsAreTrue, SessionIsTrue, Queued
  <1>10. FreshPots'
    <2> SUFFICES ASSUME NEW q \in Pots, HitsAreFresh(q)'
                 PROVE  /\ ImagesAreOld(q)'
                        /\ CyclesEnd(q)'
                        /\ Funded(q)'
                        /\ Cap[q] # Base[q] => TrailGoesOn(q)'
      BY DEF FreshPots
    <2>1. HitsAreFresh(q)
      BY <1>2 DEF HitsAreFresh, Fresh
    <2>2. pot'[q].amount = pot[q].amount /\ pot'[q].cycle = pot[q].cycle
      BY <1>6
    <2>3. ImagesAreOld(q)' /\ CyclesEnd(q)'
      BY <1>2, <2>1, <2>2 DEF IInv, FreshPots, ImagesAreOld, ImageIsOld, CyclesEnd, Queued
    <2>4. Funded(q)'
      BY <1>2, <2>1, <2>2 DEF IInv, FreshPots, Funded, Paid, Fund, Seeded
    <2>5. Cap[q] # Base[q] => TrailGoesOn(q)'
      BY <1>2, <2>1, <2>2 DEF IInv, FreshPots, TrailGoesOn, Openings, InCycle, Upto
    <2>6. QED
      BY <2>3, <2>4, <2>5
  <1>11. QED
    BY <1>2, <1>5, <1>7, <1>8, <1>9, <1>10, CreditsKept DEF IInv
-----------------------------------------------------------------------------
(* A ticket feeds a pot.                                                   *)

\* What the ORM writes back of a row.
LEMMA FlushedRow ==
  ASSUME NEW new \in Row, NEW loaded \in Row, NEW stored \in Row
  PROVE  LET r == Flushed(new, loaded, stored) IN
         /\ r \in Row
         /\ r.amount = IF new.amount = loaded.amount THEN stored.amount ELSE new.amount
         /\ r.cycle = IF new.cycle = loaded.cycle THEN stored.cycle ELSE new.cycle
  <1>1. DOMAIN new = {"amount", "threshold", "cycle"}
    BY DEF Row
  <1>2. \A f \in DOMAIN new : new[f] \in Nat /\ loaded[f] \in Nat /\ stored[f] \in Nat
    BY <1>1 DEF Row
  <1>3. Flushed(new, loaded, stored) \in [{"amount", "threshold", "cycle"} -> Nat]
    BY <1>1, <1>2 DEF Flushed
  <1>4. Row = [{"amount", "threshold", "cycle"} -> Nat]
    BY DEF Row
  <1>5. QED
    BY <1>1, <1>3, <1>4 DEF Flushed

LEMMA FedRow ==
  ASSUME NEW row \in Row, NEW t \in Tickets, NEW p \in Pots
  PROVE  /\ Fed(row, t, p) \in Row
         /\ Fed(row, t, p).amount = row.amount + Contribution[t][p]
         /\ Fed(row, t, p).cycle = row.cycle
  BY PotsAssumption DEF Fed, Row

\* What a hit leaves, as the session writes it.
LEMMA HitRow ==
  ASSUME NEW p \in Pots, NEW loaded \in Row, NEW grown \in Row, NEW th \in Nat,
         loaded.amount > Base[p], grown.amount >= Base[p]
  PROVE  LET payout == PayoutOf(p, loaded.amount)
             row == Flushed(Restarted(p, loaded, payout, th), loaded, grown)
         IN  /\ payout \in Nat /\ loaded.amount - payout \in Nat
             /\ row \in Row
             /\ row.amount >= Base[p]
             /\ row.cycle = loaded.cycle + 1
             /\ Cap[p] # Base[p] => row.amount = Base[p] + (loaded.amount - payout)
             /\ loaded.amount <= grown.amount => payout + row.amount <= grown.amount + Base[p]
  <1> DEFINE payout == PayoutOf(p, loaded.amount)
             new == Restarted(p, loaded, payout, th)
             row == Flushed(new, loaded, grown)
  <1>1. /\ loaded.amount \in Nat /\ loaded.cycle \in Nat /\ grown.amount \in Nat
        /\ Base[p] \in Nat /\ Cap[p] \in Nat
    BY PotsAssumption DEF Row
  <1>2. /\ payout \in Nat /\ loaded.amount - payout \in Nat
        /\ payout = Cap[p] \/ payout = loaded.amount
    BY <1>1 DEF PayoutOf
  <1> HIDE DEF payout
  <1>3. /\ new \in Row
        /\ new.amount = Base[p] + loaded.amount - payout
        /\ new.cycle = loaded.cycle + 1
    BY <1>1, <1>2 DEF Restarted, Row
  <1> HIDE DEF new
  <1>4. /\ row \in Row
        /\ row.amount = IF new.amount = loaded.amount THEN grown.amount ELSE new.amount
        /\ row.cycle = IF new.cycle = loaded.cycle THEN grown.cycle ELSE new.cycle
    BY <1>3, FlushedRow
  <1> HIDE DEF row
  <1>5. row.cycle = loaded.cycle + 1
    BY <1>1, <1>3, <1>4
  <1>6. row.amount >= Base[p]
    BY <1>1, <1>2, <1>3, <1>4
  <1>7. Cap[p] # Base[p] => row.amount = Base[p] + (loaded.amount - payout)
    BY <1>1, <1>2, <1>3, <1>4
  <1>8. loaded.amount <= grown.amount => payout + row.amount <= grown.amount + Base[p]
    BY <1>1, <1>2, <1>3, <1>4
  <1>9. QED
    BY <1>2, <1>4, <1>5, <1>6, <1>7, <1>8 DEF payout, new, row

\* The pot that is fed is next in the queue and held by nobody.
LEMMA NextPot ==
  ASSUME IInv, NEW t \in Tickets, Feed(t)
  PROVE  LET p == Head(queue[t]) IN
         /\ pc[t] = "running" /\ queue[t] \in Seq(Pots) /\ queue[t] # <<>>
         /\ p \in Pots /\ p = queue[t][1] /\ p \in Queued(t) /\ p \in Eligible(t)
         /\ p \in DOMAIN image[t] /\ image[t][p] \in Row /\ pot[p] \in Row
         /\ image[t][p].amount >= Base[p] /\ pot[p].amount >= Base[p]
         /\ \A u \in Tickets : p \notin DOMAIN draft[u]
  <1> DEFINE p == Head(queue[t])
  <1>1. /\ pc[t] = "running" /\ queue[t] # <<>> /\ Unlocked(p)
    BY DEF Feed
  <1>2. queue[t] \in Seq(Pots) /\ pot \in [Pots -> Row] /\ HoldRows(image)
    BY DEF IInv, TypeOK
  <1>3. p \in Pots /\ p = queue[t][1] /\ 1 \in DOMAIN queue[t]
    BY <1>1, <1>2
  <1>4. p \in Queued(t)
    BY <1>3 DEF Queued
  <1>5. p \in Eligible(t) /\ p \in DOMAIN image[t]
    BY <1>1, <1>4 DEF IInv, SessionsAreTrue, SessionIsTrue
  <1>6. image[t][p] \in Row /\ pot[p] \in Row
    BY <1>2, <1>3, <1>5, Held
  <1>7. image[t][p].amount >= Base[p] /\ pot[p].amount >= Base[p]
    BY <1>2, <1>3, <1>5 DEF IInv, SeedsStay, Seedy
  <1>8. QED
    BY <1>1, <1>2, <1>3, <1>4, <1>5, <1>6, <1>7 DEF Unlocked

\* What feeding p writes into it: the row after the UPDATE, or what the hit w leaves.
Won(t, p, row, w) ==
  /\ claims' = [claims EXCEPT ![t] = @ \cup {w}]
  /\ w.pot = p /\ w.trigger = t /\ w.cycle = image[t][p].cycle
  /\ row.cycle = w.cycle + 1
  /\ Cap[p] # Base[p] => row.amount = Base[p] + w.carryover
  /\ w.cycle = pot[p].cycle /\ HitsAreFresh(p) =>
       w.payout + row.amount <= Entry(t, p).after + Base[p]

Written(t, p, row) ==
  /\ draft' = [draft EXCEPT ![t] =
                 [q \in DOMAIN @ \cup {p} |-> IF q = p THEN row ELSE @[q]]]
  /\ row.amount >= Base[p]
  /\ \/ claims' = claims /\ row.amount = Entry(t, p).after /\ row.cycle = pot[p].cycle
     \/ \E w \in Wins : Won(t, p, row, w)

LEMMA Writes ==
  ASSUME IInv, NEW t \in Tickets, Feed(t)
  PROVE  \E row \in Row : Written(t, Head(queue[t]), row)
  <1> DEFINE p == Head(queue[t])
             grown == Grown(t, p)
             loaded == Loaded(t, p)
             payout == PayoutOf(p, loaded.amount)
             left(th) == Flushed(Restarted(p, loaded, payout, th), loaded, grown)
             win(w) == [pot |-> p, cycle |-> loaded.cycle, trigger |-> t, winner |-> w,
                        payout |-> payout, carryover |-> loaded.amount - payout]
             write(row) == draft' = [draft EXCEPT ![t] =
                             [q \in DOMAIN @ \cup {p} |-> IF q = p THEN row ELSE @[q]]]
  <1>1. /\ pc[t] = "running" /\ p \in Pots /\ p \in Queued(t) /\ Contribution[t][p] > 0
        /\ image[t][p] \in Row /\ pot[p] \in Row
        /\ image[t][p].amount >= Base[p] /\ pot[p].amount >= Base[p]
    BY NextPot DEF Eligible
  <1>2. Contribution[t][p] \in Nat /\ Base[p] \in Nat
    BY <1>1, PotsAssumption
  <1>3. /\ grown \in Row /\ grown.amount = pot[p].amount + Contribution[t][p]
        /\ grown.cycle = pot[p].cycle
        /\ loaded \in Row /\ loaded.amount = image[t][p].amount + Contribution[t][p]
        /\ loaded.cycle = image[t][p].cycle
    BY <1>1, FedRow DEF Grown, Loaded
  <1>4. Entry(t, p).after = grown.amount
    BY <1>3 DEF Entry
  <1>5. grown.amount >= Base[p] /\ loaded.amount > Base[p]
    BY <1>1, <1>2, <1>3 DEF Row
  <1>6. CASE ~Hits(t, p)
    <2>1. write(grown) /\ claims' = claims
      BY <1>6 DEF Feed
    <2>2. Written(t, p, grown)
      BY <2>1, <1>3, <1>4, <1>5 DEF Written
    <2>3. QED
      BY <2>2, <1>3
  <1>7. CASE Hits(t, p)
    <2>1. PICK th \in Thresholds[p], w \in Winners(t, p, loaded.cycle) :
            /\ write(left(th))
            /\ claims' = [claims EXCEPT ![t] = @ \cup {win(w)}]
      BY <1>7 DEF Feed
    <2>2. th \in Nat /\ w \in Tickets
      BY <1>1, PotsAssumption DEF Winners, IInv, TypeOK, Contributions
    <2>3. /\ payout \in Nat /\ loaded.amount - payout \in Nat
          /\ left(th) \in Row
          /\ left(th).amount >= Base[p]
          /\ left(th).cycle = loaded.cycle + 1
          /\ Cap[p] # Base[p] => left(th).amount = Base[p] + (loaded.amount - payout)
          /\ loaded.amount <= grown.amount => payout + left(th).amount <= grown.amount + Base[p]
      BY <1>1, <1>3, <1>5, <2>2, HitRow
    <2>4. win(w) \in Wins
      BY <1>1, <1>3, <2>2, <2>3 DEF Wins, Row
    <2>5. image[t][p].cycle = pot[p].cycle /\ HitsAreFresh(p) => loaded.amount <= grown.amount
      <3>1. HitsAreFresh(p) => ImageIsOld(t, p)
        BY <1>1 DEF IInv, FreshPots, ImagesAreOld
      <3>2. QED
        BY <3>1, <1>1, <1>2, <1>3 DEF ImageIsOld, Row
    <2> HIDE DEF left, payout, loaded, grown
    <2>6. Won(t, p, left(th), win(w))
      BY <2>1, <2>3, <2>5, <1>3, <1>4 DEF Won
    <2>7. Written(t, p, left(th))
      BY <2>1, <2>3, <2>4, <2>6 DEF Written
    <2>8. QED
      BY <2>3, <2>7
  <1>8. QED
    BY <1>6, <1>7

\* The queue that is left: each pot once, and not the one just fed.
LEMMA QueueLeft ==
  ASSUME NEW q \in Seq(Pots), q # <<>>, \A i, j \in DOMAIN q : q[i] = q[j] => i = j
  PROVE  /\ Tail(q) \in Seq(Pots)
         /\ \A i, j \in DOMAIN Tail(q) : Tail(q)[i] = Tail(q)[j] => i = j
         /\ {Tail(q)[i] : i \in DOMAIN Tail(q)} = {q[i] : i \in DOMAIN q} \ {Head(q)}
  <1>1. /\ Tail(q) \in Seq(Pots) /\ Len(Tail(q)) = Len(q) - 1 /\ Head(q) = q[1]
        /\ Len(q) \in Nat \ {0} /\ DOMAIN q = 1..Len(q) /\ DOMAIN Tail(q) = 1..(Len(q) - 1)
        /\ \A i \in 1..(Len(q) - 1) : Tail(q)[i] = q[i + 1]
    OBVIOUS
  <1>2. \A i \in DOMAIN Tail(q) : i \in Nat /\ i + 1 \in DOMAIN q /\ i + 1 # 1 /\ 1 \in DOMAIN q
    BY <1>1
  <1>3. \A i, j \in DOMAIN Tail(q) : Tail(q)[i] = Tail(q)[j] => i = j
    <2> SUFFICES ASSUME NEW i \in DOMAIN Tail(q), NEW j \in DOMAIN Tail(q),
                        Tail(q)[i] = Tail(q)[j]
                 PROVE  i = j
      OBVIOUS
    <2>1. q[i + 1] = q[j + 1]
      BY <1>1
    <2>2. i + 1 = j + 1
      BY <1>2, <2>1
    <2>3. QED
      BY <1>2, <2>2
  <1>4. ASSUME NEW i \in DOMAIN Tail(q)
        PROVE  Tail(q)[i] \in {q[k] : k \in DOMAIN q} \ {Head(q)}
    <2>1. Tail(q)[i] = q[i + 1] /\ q[i + 1] # q[1]
      BY <1>1, <1>2
    <2>2. QED
      BY <1>1, <1>2, <2>1
  <1>5. ASSUME NEW k \in DOMAIN q, q[k] # Head(q)
        PROVE  \E i \in DOMAIN Tail(q) : Tail(q)[i] = q[k]
    <2>1. k # 1 /\ k - 1 \in 1..(Len(q) - 1) /\ (k - 1) + 1 = k
      BY <1>1, <1>5
    <2>2. QED
      BY <1>1, <2>1
  <1>6. QED
    BY <1>1, <1>3, <1>4, <1>5

LEMMA KeptByFeed ==
  ASSUME IInv, NEW t \in Tickets, Feed(t)
  PROVE  IInv'
  <1>1. PICK p \in Pots :
          /\ p = Head(queue[t])
          /\ pc[t] = "running" /\ queue[t] \in Seq(Pots) /\ queue[t] # <<>>
          /\ p \in Queued(t) /\ p \in Eligible(t) /\ pot[p] \in Row
          /\ \A u \in Tickets : p \notin DOMAIN draft[u]
    BY NextPot
  <1>2. PICK fed : fed = Entry(t, p)
    OBVIOUS
  <1>3. PICK row \in Row : Written(t, p, row)
    BY <1>1, Writes
  <1>4. /\ queue' = [queue EXCEPT ![t] = Tail(@)]
        /\ UNCHANGED <<pot, book, wins, pc, image, credited>>
    BY DEF Feed, store
  <1>5. rows' = [rows EXCEPT ![t] = @ \cup {fed}] /\ fed \in Contributions
    <2>1. /\ Grown(t, p).cycle = pot[p].cycle
          /\ Grown(t, p).amount = pot[p].amount + Contribution[t][p]
      BY <1>1, FedRow DEF Grown
    <2>2. Contribution[t][p] \in Nat
      BY <1>1, PotsAssumption
    <2>3. fed \in Contributions
      BY <1>1, <1>2, <2>2 DEF Entry, Contributions, Row
    <2>4. QED
      BY <1>1, <1>2, <2>1, <2>3 DEF Feed, Entry
  <1>6. TypeOK /\ SessionIsTrue(t)
    BY <1>1 DEF IInv, SessionsAreTrue
  <1>7. /\ draft'[t] = [q \in DOMAIN draft[t] \cup {p} |-> IF q = p THEN row ELSE draft[t][q]]
        /\ DOMAIN draft'[t] = DOMAIN draft[t] \cup {p}
        /\ rows'[t] = rows[t] \cup {fed}
        /\ queue'[t] = Tail(queue[t])
        /\ \/ claims'[t] = claims[t] /\ row.amount = fed.after /\ row.cycle = pot[p].cycle
           \/ \E w \in Wins : claims'[t] = claims[t] \cup {w} /\ w.pot = p /\ w.trigger = t
    BY <1>2, <1>3, <1>4, <1>5, <1>6, Held DEF TypeOK, Written, Won
  <1>8. \A u \in Tickets : u # t =>
          UNCHANGED <<pc[u], image[u], queue[u], draft[u], rows[u], claims[u]>>
    BY <1>2, <1>3, <1>4, <1>5, <1>6, Held DEF TypeOK, Written, Won
  <1>9. /\ \A i, j \in DOMAIN queue'[t] : queue'[t][i] = queue'[t][j] => i = j
        /\ queue'[t] \in Seq(Pots)
        /\ Queued(t)' = Queued(t) \ {p}
    <2>1. \A i, j \in DOMAIN queue[t] : queue[t][i] = queue[t][j] => i = j
      BY <1>6 DEF SessionIsTrue
    <2>2. /\ Tail(queue[t]) \in Seq(Pots)
          /\ \A i, j \in DOMAIN Tail(queue[t]) : Tail(queue[t])[i] = Tail(queue[t])[j] => i = j
          /\ {Tail(queue[t])[i] : i \in DOMAIN Tail(queue[t])} = Queued(t) \ {Head(queue[t])}
      BY <1>1, <2>1, QueueLeft DEF Queued
    <2>3. Queued(t)' = {Tail(queue[t])[i] : i \in DOMAIN Tail(queue[t])}
      BY <1>7 DEF Queued
    <2>4. QED
      BY <1>1, <1>7, <2>2, <2>3
  <1>10. TypeOK'
    <2>1. DOMAIN draft[t] \cup {p} \in SUBSET Pots /\ draft'[t] \in [DOMAIN draft[t] \cup {p} -> Row]
      BY <1>1, <1>6, <1>7, Held DEF TypeOK
    <2>2. HoldRows([draft EXCEPT ![t] = draft'[t]])
      BY <1>6, <2>1, Holding DEF TypeOK
    <2>3. HoldRows(draft')
      BY <1>3, <1>6, <1>7, <2>2, Held DEF TypeOK, Written
    <2>4. HoldRows(draft)'
      BY <2>3 DEF HoldRows
    <2>5. queue' \in [Tickets -> Seq(Pots)]
      BY <1>4, <1>6, <1>7, <1>9 DEF TypeOK
    <2>6. rows' \in [Tickets -> SUBSET Contributions]
      BY <1>5, <1>6 DEF TypeOK
    <2>7. claims' \in [Tickets -> SUBSET Wins]
      <3>1. \/ claims' = claims
            \/ \E w \in Wins : claims' = [claims EXCEPT ![t] = @ \cup {w}]
        BY <1>3 DEF Written, Won
      <3>2. QED
        BY <3>1, <1>6 DEF TypeOK
    <2>8. QED
      BY <1>4, <1>6, <2>4, <2>5, <2>6, <2>7 DEF TypeOK, HoldRows
  <1>11. AllFinite'
    <2>1. AllFinite
      BY DEF IInv
    <2>2. IsFiniteSet(rows'[t])
      <3>1. IsFiniteSet(rows[t])
        BY <2>1 DEF AllFinite
      <3>2. QED
        BY <1>7, <3>1, FS_AddElement
    <2>3. claims'[t] = claims[t] \/ \E w \in Wins : claims'[t] = claims[t] \cup {w}
      BY <1>7
    <2>4. IsFiniteSet(claims'[t])
      BY <2>1, <2>3, FS_AddElement DEF AllFinite
    <2>5. QED
      BY <1>4, <1>8, <2>1, <2>2, <2>4 DEF AllFinite
  <1>12. RowsLocked'
    BY <1>1, <1>7, <1>8 DEF IInv, RowsLocked
  <1>13. RowsOwned'
    <2>1. fed.ticket = t
      BY <1>2 DEF Entry
    <2>2. \A c \in rows'[t] : c.ticket = t
      BY <1>7, <2>1 DEF IInv, RowsOwned
    <2>3. \A w \in claims'[t] : w.trigger = t
      BY <1>7 DEF IInv, RowsOwned
    <2>4. QED
      BY <1>1, <1>4, <1>8, <2>2, <2>3 DEF IInv, RowsOwned, Ended
  <1>14. SeedsStay'
    <2>1. Seedy(draft[t])'
      BY <1>3, <1>7 DEF IInv, SeedsStay, Seedy, Written
    <2>2. QED
      BY <1>4, <1>8, <2>1 DEF IInv, SeedsStay, Seedy
  <1>15. Drafted(t, p)'
    <2>1. Entry(t, p)' = fed
      BY <1>2, <1>4 DEF Entry
    <2>2. OfPot(rows[t], p) = {} /\ OfPot(claims[t], p) = {}
      BY <1>1, <1>6 DEF SessionIsTrue, OfPot
    <2>3. OfPot(rows[t], p)' = {fed}
      BY <1>2, <1>7, <2>2 DEF OfPot, Entry
    <2>4. draft'[t][p] = row
      BY <1>7
    <2>5. CASE claims' = claims /\ row.amount = fed.after /\ row.cycle = pot[p].cycle
      BY <1>4, <2>1, <2>2, <2>3, <2>4, <2>5 DEF Drafted, JustFed, OfPot
    <2>6. CASE \E w \in Wins : Won(t, p, row, w)
      <3>1. PICK w \in Wins : Won(t, p, row, w)
        BY <2>6
      <3>2. claims'[t] = claims[t] \cup {w}
        BY <3>1, <1>6 DEF TypeOK, Won
      <3>3. OfPot(claims[t], p)' = {w} /\ w \in claims'[t]
        BY <2>2, <3>1, <3>2 DEF OfPot, Won
      <3>4. HitsAreFresh(p)' <=> HitsAreFresh(p)
        BY <1>4 DEF HitsAreFresh, Fresh
      <3>5. Claimed(t, p, w)'
        BY <1>2, <1>4, <2>1, <2>4, <3>1, <3>4 DEF Claimed, Won
      <3>6. QED
        BY <2>1, <2>3, <3>3, <3>5 DEF Drafted
    <2>7. QED
      BY <1>2, <1>3, <2>5, <2>6 DEF Written
  <1>16. ASSUME NEW q \in DOMAIN draft[t]
         PROVE  Drafted(t, q)'
    <2>1. q # p /\ draft'[t][q] = draft[t][q]
      BY <1>1, <1>7, <1>16
    <2>2. OfPot(rows[t], q)' = OfPot(rows[t], q)
      BY <1>2, <2>1, <1>7 DEF OfPot, Entry
    <2>3. OfPot(claims[t], q)' = OfPot(claims[t], q) /\ claims[t] \subseteq claims'[t]
      BY <2>1, <1>7 DEF OfPot
    <2>4. Drafted(t, q)
      BY <1>6, <1>16 DEF SessionIsTrue
    <2>5. Entry(t, q)' = Entry(t, q) /\ (HitsAreFresh(q)' <=> HitsAreFresh(q))
      BY <1>4 DEF Entry, HitsAreFresh, Fresh
    <2>6. \A w : Claimed(t, q, w) => Claimed(t, q, w)'
      BY <1>4, <2>1, <2>5 DEF Claimed
    <2>7. JustFed(t, q) => JustFed(t, q)'
      BY <1>4, <2>1, <2>5 DEF JustFed
    <2>8. QED
      BY <2>2, <2>3, <2>4, <2>5, <2>6, <2>7 DEF Drafted
  <1>17. SessionIsTrue(t)'
    <2>1. \A c \in rows'[t] : c.pot \in DOMAIN draft'[t]
      BY <1>2, <1>6, <1>7 DEF SessionIsTrue, Entry
    <2>2. \A w \in claims'[t] : w.pot \in DOMAIN draft'[t]
      BY <1>6, <1>7 DEF SessionIsTrue
    <2>3. \A q \in DOMAIN draft'[t] : Drafted(t, q)'
      BY <1>7, <1>15, <1>16
    <2>4. /\ Queued(t)' \subseteq Eligible(t)' \ DOMAIN draft'[t]
          /\ DOMAIN image'[t] = Eligible(t)'
          /\ DOMAIN draft'[t] \subseteq Eligible(t)'
      BY <1>1, <1>4, <1>6, <1>7, <1>9 DEF SessionIsTrue, Eligible
    <2>5. QED
      BY <1>9, <2>1, <2>2, <2>3, <2>4 DEF SessionIsTrue
  <1>18. SessionsAreTrue'
    BY <1>4, <1>8, <1>17, SessionKept DEF IInv, SessionsAreTrue
  <1>19. FreshPots'
    <2>1. \A u \in Tickets : Queued(u)' \subseteq Queued(u)
      <3>1. \A u \in Tickets : u # t => Queued(u)' = Queued(u)
        BY <1>8 DEF Queued
      <3>2. QED
        BY <1>9, <3>1
    <2>2. QED
      BY <1>4, <2>1, StoreKept DEF IInv, store
  <1>20. QED
    BY <1>4, <1>10, <1>11, <1>12, <1>13, <1>14, <1>18, <1>19, CreditsKept DEF IInv
-----------------------------------------------------------------------------
(* A transaction commits.                                                  *)

\* What a set of contributions, or of wins, sums up to with one more.
LEMMA AmountAdded ==
  ASSUME NEW S, S \subseteq Contributions, IsFiniteSet(S), NEW c \in Contributions, c \notin S
  PROVE  /\ SumFunctionOnSet(Amounts, S) \in Nat
         /\ SumFunctionOnSet(Amounts, S \cup {c}) = SumFunctionOnSet(Amounts, S) + c.amount
  <1>1. Amounts \in [Contributions -> Nat] /\ Amounts[c] = c.amount
    BY DEF Amounts, Contributions
  <1>2. QED
    BY <1>1, SumOfNaturals, SumAdd

LEMMA PayoutAdded ==
  ASSUME NEW S, S \subseteq Wins, IsFiniteSet(S), NEW w \in Wins, w \notin S
  PROVE  SumFunctionOnSet(Payouts, S \cup {w}) = SumFunctionOnSet(Payouts, S) + w.payout
  <1>1. Payouts \in [Wins -> Nat] /\ Payouts[w] = w.payout
    BY DEF Payouts, Wins
  <1>2. QED
    BY <1>1, SumAdd

\* The state and the step, variable by variable.
LEMMA Commits ==
  ASSUME IInv, NEW t \in Tickets, Commit(t)
  PROVE  /\ TypeOK /\ AllFinite /\ SessionIsTrue(t) /\ pc[t] = "running"
         /\ pot' = [p \in Pots |-> IF p \in DOMAIN draft[t] THEN draft[t][p] ELSE pot[p]]
         /\ book' = book \cup rows[t] /\ wins' = wins \cup claims[t]
         /\ draft' = [draft EXCEPT ![t] = NoRows]
         /\ pc' = [pc EXCEPT ![t] = "committed"]
         /\ UNCHANGED <<image, queue, rows, claims, credited>>
         /\ pc'[t] = "committed" /\ DOMAIN draft'[t] = {}
         /\ \A u \in Tickets : u # t => pc'[u] = pc[u] /\ draft'[u] = draft[u]
         /\ \A c \in book : c.ticket # t
         /\ \A w \in wins : w.trigger # t
         /\ \A c \in rows[t] : c.ticket = t
         /\ \A w \in claims[t] : w.trigger = t
  <1>1. /\ pc[t] = "running" /\ book' = book \cup rows[t] /\ wins' = wins \cup claims[t]
        /\ pot' = [p \in Pots |-> IF p \in DOMAIN draft[t] THEN draft[t][p] ELSE pot[p]]
        /\ draft' = [draft EXCEPT ![t] = NoRows]
        /\ pc' = [pc EXCEPT ![t] = "committed"]
        /\ UNCHANGED <<image, queue, rows, claims, credited>>
    BY DEF Commit, Goto
  <1>2. TypeOK /\ AllFinite /\ SessionIsTrue(t)
    BY <1>1 DEF IInv, SessionsAreTrue
  <1>3. /\ pc'[t] = "committed" /\ DOMAIN draft'[t] = {}
        /\ \A u \in Tickets : u # t => pc'[u] = pc[u] /\ draft'[u] = draft[u]
    BY <1>1, <1>2, Held DEF TypeOK, NoRows
  <1>4. /\ \A c \in book : c.ticket # t
        /\ \A w \in wins : w.trigger # t
        /\ \A c \in rows[t] : c.ticket = t
        /\ \A w \in claims[t] : w.trigger = t
    BY <1>1 DEF IInv, RowsOwned, Ended
  <1>5. QED
    BY <1>1, <1>2, <1>3, <1>4

\* A pot that is fresh after the commit was so before, and the hit is of its cycle.
LEMMA FreshBefore ==
  ASSUME IInv, NEW t \in Tickets, Commit(t), NEW p \in Pots, HitsAreFresh(p)'
  PROVE  /\ HitsAreFresh(p)
         /\ \A w \in claims[t] : w.pot = p => w.cycle = pot[p].cycle
  <1>1. HitsAreFresh(p)
    <2> SUFFICES ASSUME NEW w \in wins, w.pot = p
                 PROVE  Fresh(w)
      BY DEF HitsAreFresh
    <2>1. PICK c \in book' : c.ticket = w.trigger /\ c.pot = w.pot /\ c.cycle = w.cycle
      BY Commits DEF HitsAreFresh, Fresh
    <2>2. c \in book
      BY <2>1, Commits
    <2>3. QED
      BY <2>1, <2>2 DEF Fresh
  <1>2. ASSUME NEW w \in claims[t], w.pot = p
        PROVE  w.cycle = pot[p].cycle
    <2>1. PICK c \in book' : c.ticket = w.trigger /\ c.pot = w.pot /\ c.cycle = w.cycle
      BY <1>2, Commits DEF HitsAreFresh, Fresh
    <2>2. c \in OfPot(rows[t], p)
      BY <1>2, <2>1, Commits DEF OfPot
    <2>3. p \in DOMAIN draft[t]
      BY <1>2, Commits DEF SessionIsTrue
    <2>4. c = Entry(t, p)
      <3>1. Drafted(t, p)
        BY <2>3, Commits DEF SessionIsTrue
      <3>2. OfPot(rows[t], p) = {Entry(t, p)}
        BY <3>1 DEF Drafted
      <3>3. QED
        BY <2>2, <3>2
    <2>5. QED
      BY <2>1, <2>4 DEF Entry
  <1>3. QED
    BY <1>1, <1>2

\* What is true of a fresh pot.
GoodPot(p) ==
  /\ ImagesAreOld(p)
  /\ CyclesEnd(p)
  /\ Funded(p)
  /\ Cap[p] # Base[p] => TrailGoesOn(p)

LEMMA UntouchedPot ==
  ASSUME IInv, NEW t \in Tickets, Commit(t), NEW p \in Pots, HitsAreFresh(p)',
         p \notin DOMAIN draft[t]
  PROVE  GoodPot(p)'
  <1>1. GoodPot(p)
    BY FreshBefore DEF IInv, FreshPots, GoodPot
  <1>2. pot'[p] = pot[p] /\ UNCHANGED <<image, queue>>
    BY Commits
  <1>3. (\A c \in rows[t] : c.pot # p) /\ (\A w \in claims[t] : w.pot # p)
    BY Commits DEF SessionIsTrue
  <1>4. /\ {c \in book' : c.pot = p} = {c \in book : c.pot = p}
        /\ {w \in wins' : w.pot = p} = {w \in wins : w.pot = p}
    BY <1>3, Commits
  <1>5. \A k : /\ InCycle(p, k)' = InCycle(p, k)
               /\ {v \in wins' : v.pot = p /\ v.cycle = k} = {v \in wins : v.pot = p /\ v.cycle = k}
    BY <1>3, Commits DEF InCycle
  <1>6. \A k : Openings(p, k)' = Openings(p, k)
    BY <1>5 DEF Openings
  <1>7. ImagesAreOld(p)'
    BY <1>1, <1>2, Commits DEF GoodPot, ImagesAreOld, ImageIsOld, Queued
  <1>8. CyclesEnd(p)'
    BY <1>1, <1>2, <1>4 DEF GoodPot, CyclesEnd
  <1>9. Funded(p)'
    BY <1>1, <1>2, <1>4 DEF GoodPot, Funded, Paid, Fund, Seeded
  <1>10. Cap[p] # Base[p] => TrailGoesOn(p)'
    <2>1. \A c : c.pot = p => Upto(c)' = Upto(c)
      BY <1>5 DEF Upto
    <2>2. \A c \in book' : c.pot = p => c \in book
      BY <1>4
    <2>3. QED
      BY <1>1, <1>2, <1>5, <1>6, <2>1, <2>2 DEF GoodPot, TrailGoesOn
  <1>11. QED
    BY <1>7, <1>8, <1>9, <1>10 DEF GoodPot

\* The fed pot: its audit row is new, and comes last in its cycle.
LEMMA EntryCommitted ==
  ASSUME IInv, NEW t \in Tickets, Commit(t), NEW p \in DOMAIN draft[t], HitsAreFresh(p)'
  PROVE  LET e == Entry(t, p) IN
         /\ GoodPot(p) /\ HitsAreFresh(p) /\ p \in Pots /\ pot[p] \in Row
         /\ pot' = [pot' EXCEPT ![p] = draft[t][p]] /\ pot'[p] = draft[t][p] /\ pot'[p] \in Row
         /\ e \in Contributions /\ e \notin book
         /\ e.pot = p /\ e.cycle = pot[p].cycle /\ e.amount \in Nat
         /\ e.after = pot[p].amount + e.amount /\ e.amount > 0
         /\ {c \in book' : c.pot = p} = {c \in book : c.pot = p} \cup {e}
         /\ Fund(p)' = Fund(p) + e.amount /\ Fund(p) \in Nat
         /\ Drafted(t, p)
  <1> DEFINE e == Entry(t, p)
  <1>1. p \in Eligible(t) /\ Drafted(t, p) /\ TypeOK /\ AllFinite
    BY Commits DEF SessionIsTrue
  <1>2. p \in Pots /\ Contribution[t][p] \in Nat /\ Contribution[t][p] > 0
    BY <1>1, PotsAssumption DEF Eligible
  <1>3. pot[p] \in Row /\ draft[t][p] \in Row
    BY <1>1, <1>2, Held DEF TypeOK
  <1>4. pot'[p] = draft[t][p] /\ pot' = [pot' EXCEPT ![p] = draft[t][p]]
    <2>1. pot' = [q \in Pots |-> IF q \in DOMAIN draft[t] THEN draft[t][q] ELSE pot[q]]
      BY Commits
    <2>2. pot'[p] = draft[t][p]
      BY <2>1, <1>2
    <2>3. QED
      BY <2>1, <2>2
  <1>5. e \in Contributions /\ e.ticket = t
    BY <1>2, <1>3 DEF Entry, Contributions, Row
  <1>6. e \notin book
    BY <1>5, Commits
  <1>7. /\ e.pot = p /\ e.cycle = pot[p].cycle /\ e.amount \in Nat
        /\ e.after = pot[p].amount + e.amount /\ e.amount > 0
    BY <1>2 DEF Entry
  <1>8. {c \in book' : c.pot = p} = {c \in book : c.pot = p} \cup {e}
    <2>1. OfPot(rows[t], p) = {e}
      BY <1>1 DEF Drafted
    <2>2. book' = book \cup rows[t]
      BY Commits
    <2> HIDE DEF e
    <2>3. QED
      BY <2>1, <2>2 DEF OfPot
  <1>9. Fund(p)' = Fund(p) + e.amount /\ Fund(p) \in Nat
    <2>1. {c \in book : c.pot = p} \subseteq Contributions /\ IsFiniteSet({c \in book : c.pot = p})
      BY <1>1, FS_Subset DEF TypeOK, AllFinite
    <2> HIDE DEF e
    <2>2. QED
      BY <1>5, <1>6, <1>8, <2>1, AmountAdded DEF Fund
  <1>10. GoodPot(p) /\ HitsAreFresh(p)
    BY <1>2, FreshBefore DEF IInv, FreshPots, GoodPot
  <1> HIDE DEF e
  <1>11. QED
    BY <1>1, <1>2, <1>3, <1>4, <1>5, <1>6, <1>7, <1>8, <1>9, <1>10 DEF e

\* The chain of the cycle goes on with the new audit row.
LEMMA TrailCommitted ==
  ASSUME IInv, NEW t \in Tickets, Commit(t), NEW p \in DOMAIN draft[t], HitsAreFresh(p)',
         Cap[p] # Base[p], NEW e, e = Entry(t, p), NEW k, k = pot[p].cycle
  PROVE  /\ \E o \in Openings(p, k)' :
              e.after = o + SumFunctionOnSet(Amounts, InCycle(p, k) \cup {e})
         /\ \A c \in book' : c.pot = p =>
              \E o \in Openings(p, c.cycle)' : c.after = o + SumFunctionOnSet(Amounts, Upto(c)')
         /\ \A j : InCycle(p, j)' = IF j = k THEN InCycle(p, j) \cup {e} ELSE InCycle(p, j)
  <1>1. /\ GoodPot(p) /\ HitsAreFresh(p) /\ p \in Pots /\ pot[p] \in Row
        /\ e \in Contributions /\ e \notin book
        /\ e.pot = p /\ e.cycle = k /\ e.amount \in Nat
        /\ e.after = pot[p].amount + e.amount /\ e.amount > 0
        /\ {c \in book' : c.pot = p} = {c \in book : c.pot = p} \cup {e}
    BY EntryCommitted
  <1>2. TypeOK /\ AllFinite /\ wins \subseteq wins'
    BY Commits
  <1>3. \A j : InCycle(p, j)' = IF j = k THEN InCycle(p, j) \cup {e} ELSE InCycle(p, j)
    BY <1>1 DEF InCycle
  <1>4. \A j : Openings(p, j) \subseteq Openings(p, j)'
    BY <1>2 DEF Openings
  <1>5. \A c \in book : c.pot = p => Upto(c)' = Upto(c)
    <2> SUFFICES ASSUME NEW c \in book, c.pot = p
                 PROVE  Upto(c)' = Upto(c)
      OBVIOUS
    <2>1. c.cycle = k => c.after <= pot[p].amount
      BY <1>1 DEF GoodPot, CyclesEnd
    <2>2. c.after \in Nat /\ pot[p].amount \in Nat
      BY <1>1, <1>2 DEF TypeOK, Contributions, Row
    <2>3. c.cycle = k => ~(e.after <= c.after)
      BY <1>1, <2>1, <2>2
    <2>4. QED
      BY <1>3, <2>3 DEF Upto
  <1>6. Upto(e)' = InCycle(p, k) \cup {e}
    <2>1. \A c \in InCycle(p, k) : c.after <= e.after
      <3> SUFFICES ASSUME NEW c \in InCycle(p, k)
                   PROVE  c.after <= e.after
        OBVIOUS
      <3>1. c \in book /\ c.after <= pot[p].amount
        BY <1>1 DEF GoodPot, CyclesEnd, InCycle
      <3>2. c.after \in Nat /\ pot[p].amount \in Nat
        BY <1>1, <1>2, <3>1 DEF TypeOK, Contributions, Row
      <3>3. QED
        BY <1>1, <3>1, <3>2
    <2>2. e.after <= e.after
      BY <1>1 DEF Contributions
    <2>3. QED
      BY <1>1, <1>3, <2>1, <2>2 DEF Upto
  <1>7. \E o \in Openings(p, k)' : e.after = o + SumFunctionOnSet(Amounts, InCycle(p, k) \cup {e})
    <2>1. PICK o \in Openings(p, k) : pot[p].amount = o + SumFunctionOnSet(Amounts, InCycle(p, k))
      BY <1>1 DEF GoodPot, TrailGoesOn
    <2>2. InCycle(p, k) \subseteq Contributions /\ IsFiniteSet(InCycle(p, k)) /\ e \notin InCycle(p, k)
      BY <1>1, <1>2, FS_Subset DEF TypeOK, AllFinite, InCycle
    <2>3. /\ SumFunctionOnSet(Amounts, InCycle(p, k)) \in Nat
          /\ SumFunctionOnSet(Amounts, InCycle(p, k) \cup {e}) =
               SumFunctionOnSet(Amounts, InCycle(p, k)) + e.amount
      BY <1>1, <2>2, AmountAdded
    <2>4. o \in Nat
      BY <1>1, <1>2, PotsAssumption DEF Openings, TypeOK, Wins
    <2>5. QED
      BY <1>1, <1>4, <2>1, <2>3, <2>4
  <1>8. ASSUME NEW c \in book', c.pot = p
         PROVE  \E o \in Openings(p, c.cycle)' : c.after = o + SumFunctionOnSet(Amounts, Upto(c)')
    <2>1. CASE c = e
      BY <1>1, <1>6, <1>7, <2>1
    <2>2. CASE c \in book
      BY <1>1, <1>4, <1>5, <1>8, <2>2 DEF GoodPot, TrailGoesOn
    <2>3. QED
      BY <1>1, <1>8, <2>1, <2>2
  <1>9. QED
    BY <1>3, <1>7, <1>8

\* A pot that was fed and not hit.
LEMMA FedPot ==
  ASSUME IInv, NEW t \in Tickets, Commit(t), NEW p \in DOMAIN draft[t], HitsAreFresh(p)',
         OfPot(claims[t], p) = {}, JustFed(t, p)
  PROVE  GoodPot(p)'
  <1>1. PICK e : e = Entry(t, p)
    OBVIOUS
  <1>2. /\ GoodPot(p) /\ p \in Pots /\ pot[p] \in Row /\ pot'[p] = draft[t][p]
        /\ e \in Contributions /\ e.pot = p /\ e.cycle = pot[p].cycle /\ e.amount \in Nat
        /\ e.after = pot[p].amount + e.amount /\ e.amount > 0
        /\ {c \in book' : c.pot = p} = {c \in book : c.pot = p} \cup {e}
        /\ Fund(p)' = Fund(p) + e.amount /\ Fund(p) \in Nat
    BY <1>1, EntryCommitted
  <1>3. pot'[p].amount = e.after /\ pot'[p].cycle = pot[p].cycle
    BY <1>1, <1>2 DEF JustFed
  <1>4. {w \in wins' : w.pot = p} = {w \in wins : w.pot = p}
    BY Commits DEF OfPot
  <1>5. TypeOK /\ AllFinite /\ UNCHANGED <<image, queue>>
    BY Commits
  <1>6. ImagesAreOld(p)'
    <2> SUFFICES ASSUME NEW u \in Tickets, pc'[u] = "running", p \in Queued(u)'
                 PROVE  ImageIsOld(u, p)'
      BY DEF ImagesAreOld
    <2>1. pc[u] = "running" /\ p \in Queued(u)
      BY Commits DEF Queued
    <2>2. ImageIsOld(u, p)
      BY <1>2, <2>1 DEF GoodPot, ImagesAreOld
    <2>3. p \in DOMAIN image[u]
      BY <2>1 DEF IInv, SessionsAreTrue, SessionIsTrue
    <2>4. image[u][p] \in Row
      BY <1>5, <2>3, Held DEF TypeOK
    <2>5. QED
      BY <1>2, <1>3, <1>5, <2>2, <2>4 DEF ImageIsOld, Row
  <1>7. CyclesEnd(p)'
    <2>1. \A c \in book' : c.pot = p =>
            c.cycle <= pot[p].cycle /\ (c.cycle = pot[p].cycle => c.after <= e.after)
      <3> SUFFICES ASSUME NEW c \in book', c.pot = p
                   PROVE  /\ c.cycle <= pot[p].cycle
                          /\ c.cycle = pot[p].cycle => c.after <= e.after
        OBVIOUS
      <3>1. CASE c = e
        BY <1>2, <3>1 DEF Row
      <3>2. CASE c \in book
        <4>1. c.after \in Nat
          BY <1>5, <3>2 DEF TypeOK, Contributions
        <4>2. QED
          BY <1>2, <3>2, <4>1 DEF GoodPot, CyclesEnd, Row
      <3>3. QED
        BY <1>2, <3>1, <3>2
    <2>2. QED
      BY <1>2, <1>3, <1>4, <2>1 DEF GoodPot, CyclesEnd
  <1>8. Funded(p)'
    <2>1. Paid(p)' = Paid(p) /\ Seeded(p)' = Seeded(p)
      BY <1>4 DEF Paid, Seeded
    <2>2. Paid(p) \in Nat /\ Seeded(p) \in Nat
      <3>1. {w \in wins : w.pot = p} \subseteq Wins /\ IsFiniteSet({w \in wins : w.pot = p})
        BY <1>5, FS_Subset DEF TypeOK, AllFinite
      <3>2. QED
        BY <1>2, <3>1, PayoutSums, FS_CardinalityType, PotsAssumption DEF Paid, Seeded
    <2>3. QED
      BY <1>2, <1>3, <2>1, <2>2 DEF GoodPot, Funded, Row
  <1>9. Cap[p] # Base[p] => TrailGoesOn(p)'
    <2> SUFFICES ASSUME Cap[p] # Base[p]
                 PROVE  TrailGoesOn(p)'
      OBVIOUS
    <2>1. PICK k : k = pot[p].cycle
      OBVIOUS
    <2>2. /\ \E o \in Openings(p, k)' :
               e.after = o + SumFunctionOnSet(Amounts, InCycle(p, k) \cup {e})
          /\ \A c \in book' : c.pot = p =>
               \E o \in Openings(p, c.cycle)' : c.after = o + SumFunctionOnSet(Amounts, Upto(c)')
          /\ InCycle(p, k)' = InCycle(p, k) \cup {e}
      BY <1>1, <2>1, TrailCommitted
    <2>3. \E o \in Openings(p, k)' : pot'[p].amount = o + SumFunctionOnSet(Amounts, InCycle(p, k)')
      BY <1>3, <2>2
    <2>4. k = pot'[p].cycle
      BY <1>3, <2>1
    <2>5. QED
      BY <2>2, <2>3, <2>4 DEF TrailGoesOn
  <1>10. QED
    BY <1>6, <1>7, <1>8, <1>9 DEF GoodPot

\* A pot that was fed and hit in its cycle: the next one begins.
LEMMA HitPot ==
  ASSUME IInv, NEW t \in Tickets, Commit(t), NEW p \in DOMAIN draft[t], HitsAreFresh(p)',
         NEW w \in claims[t], OfPot(claims[t], p) = {w}, Claimed(t, p, w)
  PROVE  GoodPot(p)'
  <1>1. PICK e : e = Entry(t, p)
    OBVIOUS
  <1>2. PICK k : k = pot[p].cycle
    OBVIOUS
  <1>3. /\ GoodPot(p) /\ HitsAreFresh(p) /\ p \in Pots /\ pot[p] \in Row
        /\ pot'[p] = draft[t][p] /\ pot'[p] \in Row
        /\ e \in Contributions /\ e.pot = p /\ e.cycle = k /\ e.amount \in Nat
        /\ e.after = pot[p].amount + e.amount /\ e.amount > 0
        /\ {c \in book' : c.pot = p} = {c \in book : c.pot = p} \cup {e}
        /\ Fund(p)' = Fund(p) + e.amount /\ Fund(p) \in Nat
    BY <1>1, <1>2, EntryCommitted
  <1>4. w.pot = p /\ w.cycle = k
    BY <1>2, <1>3, FreshBefore DEF OfPot
  <1>5. /\ pot'[p].cycle = k + 1
        /\ Cap[p] # Base[p] => pot'[p].amount = Base[p] + w.carryover
        /\ w.payout + pot'[p].amount <= e.after + Base[p]
    BY <1>1, <1>2, <1>3, <1>4 DEF Claimed
  <1>6. TypeOK /\ AllFinite /\ UNCHANGED <<image, queue>> /\ w.trigger = t /\ w \notin wins
    BY Commits
  <1>7. {v \in wins' : v.pot = p} = {v \in wins : v.pot = p} \cup {w} /\ w \in wins'
    BY Commits, <1>4 DEF OfPot
  <1>8. w \in Wins /\ k \in Nat
    BY <1>2, <1>3, <1>6 DEF TypeOK, Row
  <1>9. ImagesAreOld(p)'
    <2> SUFFICES ASSUME NEW u \in Tickets, pc'[u] = "running", p \in Queued(u)'
                 PROVE  ImageIsOld(u, p)'
      BY DEF ImagesAreOld
    <2>1. pc[u] = "running" /\ p \in Queued(u)
      BY Commits DEF Queued
    <2>2. ImageIsOld(u, p)
      BY <1>3, <2>1 DEF GoodPot, ImagesAreOld
    <2>3. p \in DOMAIN image[u]
      BY <2>1 DEF IInv, SessionsAreTrue, SessionIsTrue
    <2>4. image[u][p] \in Row
      BY <1>6, <2>3, Held DEF TypeOK
    <2>5. image[u][p].cycle \in Nat /\ image[u][p].cycle <= k
      BY <1>2, <2>2, <2>4 DEF ImageIsOld, Row
    <2>6. QED
      BY <1>5, <1>6, <1>8, <2>5 DEF ImageIsOld
  <1>10. CyclesEnd(p)'
    <2>1. \A v \in wins : v.pot = p => v.cycle < k /\ v.cycle \in Nat
      BY <1>2, <1>3, <1>6 DEF GoodPot, CyclesEnd, TypeOK, Wins
    <2>2. \A v \in wins' : v.pot = p => v = w \/ v \in wins
      BY <1>7
    <2>3. \A c \in book' : c.pot = p => c.cycle <= k /\ c.cycle \in Nat
      BY <1>2, <1>3, <1>6, <1>8 DEF GoodPot, CyclesEnd, TypeOK, Contributions
    <2>4. \A v, z \in wins' : v.pot = p /\ z.pot = p /\ v.cycle = z.cycle => v = z
      BY <1>3, <1>4, <1>8, <2>1, <2>2 DEF GoodPot, CyclesEnd
    <2>5. \A v \in wins' : v.pot = p => v.cycle < pot'[p].cycle
      BY <1>4, <1>5, <1>8, <2>1, <2>2
    <2>6. \A c \in book' : c.pot = p => c.cycle < pot'[p].cycle /\ c.cycle # pot'[p].cycle
      BY <1>5, <1>8, <2>3
    <2>7. \A c \in book' : c.pot = p => c.cycle <= pot'[p].cycle
      BY <1>5, <1>8, <2>3
    <2>8. QED
      BY <2>4, <2>5, <2>6, <2>7 DEF CyclesEnd
  <1>11. Funded(p)'
    <2> DEFINE old == {v \in wins : v.pot = p}
    <2>1. old \subseteq Wins /\ IsFiniteSet(old) /\ w \notin old
      BY <1>6, FS_Subset DEF TypeOK, AllFinite
    <2>2. Paid(p)' = Paid(p) + w.payout /\ Paid(p) \in Nat
      BY <1>7, <1>8, <2>1, PayoutAdded, PayoutSums DEF Paid
    <2>3. PICK n \in Nat : n = Cardinality(old)
      BY <2>1, FS_CardinalityType
    <2>4. Cardinality(old \cup {w}) = n + 1
      BY <2>1, <2>3, FS_AddElement
    <2>5. PICK b \in Nat : b = Base[p]
      BY <1>3, PotsAssumption
    <2>6. b * (1 + (n + 1)) = b * (1 + n) + b /\ b * (1 + n) \in Nat
      OBVIOUS
    <2>7. Seeded(p)' = Seeded(p) + b /\ Seeded(p) \in Nat
      BY <1>7, <2>3, <2>4, <2>5, <2>6 DEF Seeded
    <2>8. w.payout \in Nat /\ pot'[p].amount \in Nat /\ pot[p].amount \in Nat
      BY <1>3, <1>8 DEF Wins, Row
    <2>9. QED
      BY <1>3, <1>5, <2>2, <2>5, <2>7, <2>8 DEF GoodPot, Funded
  <1>12. Cap[p] # Base[p] => TrailGoesOn(p)'
    <2> SUFFICES ASSUME Cap[p] # Base[p]
                 PROVE  TrailGoesOn(p)'
      OBVIOUS
    <2>1. \A c \in book' : c.pot = p =>
            \E o \in Openings(p, c.cycle)' : c.after = o + SumFunctionOnSet(Amounts, Upto(c)')
      BY <1>1, <1>2, TrailCommitted
    <2>2. InCycle(p, k + 1) = {}
      BY <1>2, <1>3, <1>6, <1>8 DEF GoodPot, CyclesEnd, InCycle, TypeOK, Contributions
    <2>3. SumFunctionOnSet(Amounts, InCycle(p, k + 1)') = 0
      <3>1. k + 1 # k
        BY <1>8
      <3>2. InCycle(p, k + 1)' = {}
        BY <1>3, <2>2, <3>1 DEF InCycle
      <3>3. QED
        BY <3>2, SumUnfolds, FS_EmptySet
    <2>4. k # 0
      BY <1>2, <1>3, <1>6 DEF GoodPot, TrailGoesOn, Openings, TypeOK, Wins
    <2>5. Base[p] + w.carryover \in Openings(p, k + 1)' /\ Base[p] + w.carryover \in Nat
      <3>1. k + 1 # 1 /\ (k + 1) - 1 = k
        BY <1>8, <2>4
      <3>2. w \in {v \in wins' : v.pot = p /\ v.cycle = (k + 1) - 1}
        BY <1>4, <1>7, <3>1
      <3>3. Base[p] + w.carryover \in Nat
        BY <1>3, <1>8, PotsAssumption DEF Wins
      <3>4. QED
        BY <3>1, <3>2, <3>3 DEF Openings
    <2>6. \E o \in Openings(p, k + 1)' :
            pot'[p].amount = o + SumFunctionOnSet(Amounts, InCycle(p, k + 1)')
      BY <1>5, <2>3, <2>5
    <2>7. QED
      BY <1>5, <2>1, <2>6 DEF TrailGoesOn
  <1>13. QED
    BY <1>9, <1>10, <1>11, <1>12 DEF GoodPot

LEMMA KeptByCommit ==
  ASSUME IInv, NEW t \in Tickets, Commit(t)
  PROVE  IInv'
  <1>1. /\ TypeOK /\ AllFinite /\ SessionIsTrue(t) /\ pc[t] = "running"
        /\ pot' = [p \in Pots |-> IF p \in DOMAIN draft[t] THEN draft[t][p] ELSE pot[p]]
        /\ book' = book \cup rows[t] /\ wins' = wins \cup claims[t]
        /\ draft' = [draft EXCEPT ![t] = NoRows]
        /\ pc' = [pc EXCEPT ![t] = "committed"]
        /\ UNCHANGED <<image, queue, rows, claims, credited>>
        /\ pc'[t] = "committed" /\ DOMAIN draft'[t] = {}
        /\ \A u \in Tickets : u # t => pc'[u] = pc[u] /\ draft'[u] = draft[u]
    BY Commits
  <1>2. pot' \in [Pots -> Row]
    BY <1>1, Held DEF TypeOK
  <1>3. TypeOK'
    <2>1. {} \in SUBSET Pots /\ NoRows \in [{} -> Row]
      BY DEF NoRows
    <2>2. HoldRows(draft')
      BY <1>1, <2>1, Holding DEF TypeOK
    <2>3. HoldRows(draft)'
      BY <2>2 DEF HoldRows
    <2>4. QED
      BY <1>1, <1>2, <2>3 DEF TypeOK, HoldRows
  <1>4. AllFinite'
    BY <1>1, FS_Union DEF AllFinite
  <1>5. RowsLocked'
    BY <1>1 DEF IInv, RowsLocked
  <1>6. RowsOwned'
    <2>1. /\ \A c \in book : c.ticket \in Tickets
          /\ \A w \in wins : w.trigger \in Tickets
      BY <1>1 DEF TypeOK, Contributions, Wins
    <2>2. /\ \A c \in book' : Ended(c.ticket)'
          /\ \A w \in wins' : Ended(w.trigger)'
      BY <1>1, <2>1 DEF IInv, RowsOwned, Ended
    <2>3. QED
      BY <1>1, <2>2 DEF IInv, RowsOwned
  <1>7. SeedsStay'
    <2>1. ASSUME NEW p \in Pots
          PROVE  pot'[p].amount >= Base[p]
      <3>1. pot[p].amount >= Base[p] /\ (p \in DOMAIN draft[t] => draft[t][p].amount >= Base[p])
        BY <1>1 DEF IInv, SeedsStay, Seedy, TypeOK
      <3>2. QED
        BY <1>1, <3>1
    <2>2. QED
      BY <1>1, <1>2, <2>1 DEF IInv, SeedsStay, Seedy
  <1>8. SessionsAreTrue'
    <2> SUFFICES ASSUME NEW u \in Tickets, pc'[u] = "running"
                 PROVE  SessionIsTrue(u)'
      BY DEF SessionsAreTrue
    <2>1. u # t /\ SessionIsTrue(u) /\ draft'[u] = draft[u]
      BY <1>1 DEF IInv, SessionsAreTrue
    <2>2. ASSUME NEW q \in DOMAIN draft[u]
          PROVE  Drafted(u, q)'
      <3>1. q \in Pots /\ q \notin DOMAIN draft[t]
        BY <1>1, <2>1, <2>2, Held DEF IInv, RowsLocked, TypeOK
      <3>2. pot'[q] = pot[q] /\ Entry(u, q)' = Entry(u, q)
        BY <1>1, <3>1 DEF Entry
      <3>3. HitsAreFresh(q)' => HitsAreFresh(q)
        BY <3>1, FreshBefore
      <3>4. Drafted(u, q)
        BY <2>1, <2>2 DEF SessionIsTrue
      <3>5. JustFed(u, q) => JustFed(u, q)'
        BY <2>1, <3>2 DEF JustFed
      <3>6. \A w : Claimed(u, q, w) => Claimed(u, q, w)'
        BY <1>1, <2>1, <3>2, <3>3 DEF Claimed
      <3>7. QED
        BY <1>1, <3>2, <3>4, <3>5, <3>6 DEF Drafted, OfPot
    <2>3. QED
      BY <1>1, <2>1, <2>2 DEF SessionIsTrue, Queued, Eligible
  <1>9. FreshPots'
    <2> SUFFICES ASSUME NEW p \in Pots, HitsAreFresh(p)'
                 PROVE  GoodPot(p)'
      BY DEF FreshPots, GoodPot
    <2>1. CASE p \notin DOMAIN draft[t]
      BY <2>1, UntouchedPot
    <2>2. CASE p \in DOMAIN draft[t]
      <3>1. Drafted(t, p)
        BY <1>1, <2>2 DEF SessionIsTrue
      <3>2. CASE OfPot(claims[t], p) = {} /\ JustFed(t, p)
        BY <2>2, <3>2, FedPot
      <3>3. CASE \E w \in claims[t] : OfPot(claims[t], p) = {w} /\ Claimed(t, p, w)
        BY <2>2, <3>3, HitPot
      <3>4. QED
        BY <3>1, <3>2, <3>3 DEF Drafted
    <2>3. QED
      BY <2>1, <2>2
  <1>10. CreditsAreWins'
    <2> SUFFICES ASSUME NEW u \in Tickets
                 PROVE  credited[u] <= SumFunctionOnSet(Payouts, {w \in wins' : w.winner = u})
      BY <1>1 DEF CreditsAreWins
    <2> DEFINE old == {w \in wins : w.winner = u}
               new == {w \in wins' : w.winner = u}
    <2>1. old \subseteq new /\ new \subseteq Wins /\ old \subseteq Wins
      BY <1>1 DEF TypeOK
    <2>2. IsFiniteSet(new) /\ IsFiniteSet(old)
      BY <1>4, <2>1, FS_Subset DEF AllFinite
    <2>3. /\ SumFunctionOnSet(Payouts, old) \in Nat /\ SumFunctionOnSet(Payouts, new) \in Nat
          /\ SumFunctionOnSet(Payouts, old) <= SumFunctionOnSet(Payouts, new)
      BY <2>1, <2>2, PayoutSums
    <2>4. credited[u] <= SumFunctionOnSet(Payouts, old) /\ credited[u] \in Nat
      BY <1>1 DEF IInv, CreditsAreWins, TypeOK
    <2>5. QED
      BY <2>3, <2>4
  <1>11. QED
    BY <1>3, <1>4, <1>5, <1>6, <1>7, <1>8, <1>9, <1>10 DEF IInv
-----------------------------------------------------------------------------
(* The theorems.                                                           *)

LEMMA KeptByStutter ==
  ASSUME IInv, UNCHANGED vars
  PROVE  IInv'
  <1>1. /\ UNCHANGED <<pot, book, wins, image, queue, draft, rows, claims, pc, credited>>
    BY DEF vars, store, session
  <1>2. TypeOK' /\ AllFinite' /\ RowsLocked' /\ RowsOwned' /\ SeedsStay'
    BY <1>1
    DEF IInv, TypeOK, HoldRows, AllFinite, RowsLocked, RowsOwned, Ended, SeedsStay, Seedy
  <1>3. SessionsAreTrue'
    BY <1>1, SessionKept DEF IInv, SessionsAreTrue
  <1>4. FreshPots'
    BY <1>1, StoreKept DEF IInv, store, Queued
  <1>5. QED
    BY <1>1, <1>2, <1>3, <1>4, CreditsKept DEF IInv

(***************************************************************************)
(* Every step of every request keeps the inductive invariant: a row of a   *)
(* pot has one writer, a draft is one contribution and at most one hit     *)
(* ahead of it, and a pot that was only hit in the cycle its trigger fed   *)
(* has its money and its cycles in order.                                  *)
(***************************************************************************)
THEOREM Invariant == Spec => []IInv
  <1>1. Init => IInv
    BY InitIInv
  <1>2. IInv /\ [Next]_vars => IInv'
    <2> SUFFICES ASSUME IInv, [Next]_vars
                 PROVE  IInv'
      OBVIOUS
    <2>1. ASSUME NEW t \in Tickets, Begin(t) PROVE IInv'
      BY <2>1, KeptByBegin
    <2>2. ASSUME NEW t \in Tickets, Feed(t) PROVE IInv'
      BY <2>2, KeptByFeed
    <2>3. ASSUME NEW t \in Tickets, Commit(t) PROVE IInv'
      BY <2>3, KeptByCommit
    <2>4. ASSUME NEW t \in Tickets, FallVictim(t) \/ Fail(t) PROVE IInv'
      BY <2>4, KeptByAbort DEF FallVictim, Fail
    <2>5. ASSUME NEW t \in Tickets, Award(t) PROVE IInv'
      BY <2>5, KeptByAward
    <2>6. ASSUME NEW t \in Tickets, LoseAnswer(t) PROVE IInv'
      BY <2>6, KeptByLoseAnswer
    <2>7. ASSUME NEW p \in Pots, Redraw(p) PROVE IInv'
      BY <2>7, KeptByRedraw
    <2>8. CASE UNCHANGED vars
      BY <2>8, KeptByStutter
    <2>9. QED
      BY <2>1, <2>2, <2>3, <2>4, <2>5, <2>6, <2>7, <2>8 DEF Next, Step
  <1>3. QED
    BY <1>1, <1>2, PTL DEF Spec

(***************************************************************************)
(* The types; in particular no pot goes below zero, whatever a capped      *)
(* payout or a stale copy leaves in it.                                    *)
(***************************************************************************)
THEOREM TypeCorrect == Spec => []TypeOK
  <1>1. IInv => TypeOK
    BY DEF IInv
  <1>2. QED
    BY <1>1, Invariant, PTL

(***************************************************************************)
(* Two wins of a cycle are the same win, however the requests interleave,  *)
(* fail and deadlock, in a pot that was never hit on a copy from before    *)
(* an earlier hit.                                                         *)
(***************************************************************************)
THEOREM OneHitPerFreshCycle == Spec => []HitOncePerCycle
  <1>1. IInv => HitOncePerCycle
    BY DEF IInv, FreshPots, CyclesEnd, HitOncePerCycle, TypeOK, Wins
  <1>2. QED
    BY <1>1, Invariant, PTL

(***************************************************************************)
(* What such a pot paid and still holds is at most what tickets and its    *)
(* seeds put in, for every cap, seed and contribution.                     *)
(***************************************************************************)
THEOREM FundsSuffice == Spec => []NoMoneyInvented
  <1>1. IInv => NoMoneyInvented
    BY DEF IInv, FreshPots, Funded, NoMoneyInvented
  <1>2. QED
    BY <1>1, Invariant, PTL

(***************************************************************************)
(* The audit rows of each of its cycles chain from the opening of the      *)
(* cycle to the last contribution, unless the cap is the seed.             *)
(***************************************************************************)
THEOREM AuditTrail == Spec => []TrailIsChained
  <1>1. IInv => TrailIsChained
    BY DEF IInv, FreshPots, TrailGoesOn, Upto, TrailIsChained, TypeOK, Contributions
  <1>2. QED
    BY <1>1, Invariant, PTL

(***************************************************************************)
(* A ticket is credited with no more than the wins recorded for it, in any *)
(* pot, whether or not its hits were fresh and its answers arrived.        *)
(***************************************************************************)
THEOREM CreditsCovered == Spec => []CreditsAreWins
  <1>1. IInv => CreditsAreWins
    BY DEF IInv
  <1>2. QED
    BY <1>1, Invariant, PTL
=============================================================================
