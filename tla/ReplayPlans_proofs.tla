------------------------ MODULE ReplayPlans_proofs --------------------------
(***************************************************************************)
(* Proofs about ReplayPlans, for every number of plans, rounds and clients *)
(* who cancel.  That a plan stays over holds with any number of replicas,  *)
(* as both handlers only ever write COMPLETED or CANCELLED into a status   *)
(* (Shared).  That its counters match its tickets takes a single replica:  *)
(* what its generation read can then differ from the row only by a         *)
(* cancellation (Generating), and what a cancellation read is older by     *)
(* rounds that were played since (Cancelling).                             *)
(***************************************************************************)
EXTENDS ReplayPlans, SequenceTheorems, TLAPS

\* The bounds of the counters, and who was sold.
Sold ==
  \A p \in Plans :
    /\ original[p] = 0 => plan[p].status = "none"
    /\ plan[p].status = "ACTIVE" => plan[p].remaining > 0

Reading ==
  \A s \in Replicas :
    /\ view[s] # NoRows => inbox[s] # <<>>
    /\ \A p \in DOMAIN view[s] : Live(view[s][p]) /\ original[p] # 0

Asking ==
  \A c \in Cancellers : cancel[c] # Idle =>
    cancel[c].row.status = "ACTIVE" /\ original[cancel[c].plan] # 0

Shared == TypeOK /\ Sold /\ Reading /\ Asking

\* With a single replica.
Unsold == \A p \in Plans : plan[p].status = "none" => children[p] = <<>>

Generating ==
  \A s \in Replicas : \A p \in DOMAIN view[s] :
    LET read == view[s][p] IN
      /\ read.remaining + read.played = Rounds[p]
      /\ plan[p].played = read.played
      /\ plan[p] = read \/ plan[p].status = "CANCELLED"

Cancelling ==
  \A c \in Cancellers : cancel[c] # Idle =>
    LET read == cancel[c].row
        p == cancel[c].plan
    IN
      /\ plan[p].status # "none"
      /\ read.remaining > 0
      /\ read.remaining + read.played = Rounds[p]
      /\ read.played <= plan[p].played
      /\ cancel[c].step = "refunded" => refunded[p] >= read.remaining

Counted == TicketsMatchPlan /\ CancelledIsRefunded /\ Unsold /\ Generating /\ Cancelling

IInv == Shared /\ Counted

\* One instance of ticket-service.
Alone == \A s, r \in Replicas : s = r
-----------------------------------------------------------------------------
(* Rows.                                                                   *)

\* What the ORM writes back of a row.
LEMMA FlushedRow ==
  ASSUME NEW new \in Row, NEW read \in Row, NEW stored \in Row
  PROVE  LET row == Flushed(new, read, stored) IN
         /\ row \in Row
         /\ row.status = IF new.status = read.status THEN stored.status ELSE new.status
         /\ row.remaining = IF new.remaining = read.remaining THEN stored.remaining
                            ELSE new.remaining
         /\ row.played = IF new.played = read.played THEN stored.played ELSE new.played
  <1>1. DOMAIN new = {"status", "remaining", "played", "last"}
    BY DEF Row
  <1> DEFINE row == Flushed(new, read, stored)
  <1>2. row = [status |-> row.status, remaining |-> row.remaining,
               played |-> row.played, last |-> row.last]
    BY <1>1 DEF Flushed
  <1>3. /\ row.status = IF new.status = read.status THEN stored.status ELSE new.status
        /\ row.remaining = IF new.remaining = read.remaining THEN stored.remaining
                           ELSE new.remaining
        /\ row.played = IF new.played = read.played THEN stored.played ELSE new.played
        /\ row.last = IF new.last = read.last THEN stored.last ELSE new.last
    BY <1>1 DEF Flushed
  <1> HIDE DEF row
  <1>4. row \in Row
    BY <1>2, <1>3 DEF Row
  <1>5. QED
    BY <1>3, <1>4 DEF row

\* A generation that read a live row writes its counters, and COMPLETED if no round is left.
LEMMA AdvancedRow ==
  ASSUME NEW read \in Row, NEW stored \in Row, NEW r \in 0..MaxRound, Live(read)
  PROVE  LET row == Flushed(Advanced(read, r), read, stored) IN
         /\ row \in Row
         /\ row.status = IF read.remaining = 1 THEN "COMPLETED" ELSE stored.status
         /\ row.remaining = read.remaining - 1
         /\ row.played = read.played + 1
  <1> DEFINE new == Advanced(read, r)
  <1>1. /\ new \in Row
        /\ new.status = IF read.remaining = 1 THEN "COMPLETED" ELSE "ACTIVE"
        /\ new.remaining = read.remaining - 1 /\ new.remaining # read.remaining
        /\ new.played = read.played + 1 /\ new.played # read.played
        /\ read.status = "ACTIVE"
    BY DEF Advanced, Live, Row
  <1> HIDE DEF new
  <1>2. QED
    BY <1>1, FlushedRow DEF new

\* A cancellation that read an active row cancels what is stored.
LEMMA CancelledRow ==
  ASSUME NEW read \in Row, NEW stored \in Row, read.status = "ACTIVE"
  PROVE  LET row == Flushed(Cancelled(read), read, stored) IN
         /\ row \in Row
         /\ row.status = "CANCELLED"
         /\ row.played = stored.played
  <1> DEFINE new == Cancelled(read)
  <1>1. new \in Row /\ new.status = "CANCELLED" /\ new.played = read.played
    BY DEF Cancelled, Row
  <1> HIDE DEF new
  <1>2. QED
    BY <1>1, FlushedRow DEF new
-----------------------------------------------------------------------------
(* What holds with any number of replicas.                                 *)

\* What a handler holds.
LEMMA Typed ==
  ASSUME TypeOK
  PROVE  /\ \A p \in Plans : plan[p] \in Row
         /\ \A s \in Replicas : DOMAIN view[s] \subseteq Plans
                                /\ \A p \in DOMAIN view[s] : view[s][p] \in Row
         /\ \A c \in Cancellers : cancel[c] # Idle =>
              /\ cancel[c] \in Cancels /\ cancel[c].plan \in Plans /\ cancel[c].row \in Row
              /\ cancel[c].step \in {"asked", "refunded"}
  <1>1. \A s \in Replicas : DOMAIN view[s] \subseteq Plans /\ view[s] \in [DOMAIN view[s] -> Row]
    BY DEF TypeOK
  <1>2. \A c \in Cancellers : cancel[c] # Idle => cancel[c] \in Cancels
    BY DEF TypeOK
  <1>3. QED
    BY <1>1, <1>2 DEF TypeOK, Cancels

LEMMA NoView == DOMAIN NoRows = {}
  BY DEF NoRows

\* The queue of a replica, one event shorter or longer.
LEMMA Queue ==
  ASSUME NEW q \in Seq(1..MaxRound)
  PROVE  /\ \A r \in 1..MaxRound : Append(q, r) \in Seq(1..MaxRound) /\ Append(q, r) # <<>>
         /\ q # <<>> => Tail(q) \in Seq(1..MaxRound) /\ Head(q) \in 1..MaxRound
  BY AppendProperties, HeadTailProperties

LEMMA InitShared == Init => Shared
  <1> SUFFICES ASSUME Init PROVE Shared
    OBVIOUS
  <1>1. MaxRound \in Nat /\ MaxCancels \in Nat
    BY PlansAssumption
  <1>2. plan \in [Plans -> Row]
    BY <1>1 DEF Init, Row, Absent
  <1>3. inbox \in [Replicas -> Seq(1..MaxRound)] /\ children \in [Plans -> Seq(1..MaxRound)]
    BY EmptySeq DEF Init
  <1>4. DOMAIN view = Replicas /\ \A s \in Replicas : view[s] = NoRows
    BY DEF Init
  <1>5. NoRows \in [{} -> Row]
    BY DEF NoRows
  <1>6. cancel \in [Cancellers -> Cancels \cup {Idle}]
    BY DEF Init
  <1>7. TypeOK
    BY <1>1, <1>2, <1>3, <1>4, <1>5, <1>6, NoView DEF Init, TypeOK
  <1>8. Sold /\ Reading /\ Asking
    BY <1>4, NoView DEF Init, Sold, Reading, Asking, Absent
  <1>9. QED
    BY <1>7, <1>8 DEF Shared

LEMMA OpenBettingShared ==
  ASSUME Shared, OpenBetting
  PROVE  Shared'
  <1>1. round' \in 0..MaxRound /\ round + 1 \in 1..MaxRound
    BY PlansAssumption DEF Shared, TypeOK, OpenBetting
  <1>2. /\ inbox' \in [Replicas -> Seq(1..MaxRound)]
        /\ \A s \in Replicas : inbox[s] # <<>> => inbox'[s] # <<>>
    <2>1. \A s \in Replicas : /\ inbox[s] \in Seq(1..MaxRound)
                              /\ Append(inbox[s], round + 1) \in Seq(1..MaxRound)
                              /\ Append(inbox[s], round + 1) # <<>>
      BY <1>1, Queue DEF Shared, TypeOK
    <2>2. PICK heard \in SUBSET Replicas :
            inbox' = [s \in Replicas |-> IF s \in heard THEN Append(inbox[s], round + 1)
                                        ELSE inbox[s]]
      BY DEF OpenBetting
    <2>3. QED
      BY <2>1, <2>2
  <1>3. UNCHANGED <<plan, sale, tickets, view, cancel, calls, refunded>>
    BY DEF OpenBetting
  <1>4. TypeOK'
    BY <1>1, <1>2, <1>3 DEF Shared, TypeOK, tickets
  <1>5. Sold' /\ Reading' /\ Asking'
    BY <1>2, <1>3, Typed DEF Shared, Sold, Reading, Asking, tickets
  <1>6. QED
    BY <1>4, <1>5 DEF Shared

LEMMA GateShared ==
  ASSUME Shared, NEW p \in Plans, Gate(p)
  PROVE  Shared'
  <1>1. sale' \in [Plans -> 0..MaxRound] /\ UNCHANGED <<round, plan, tickets, inbox, view, cancel,
                                                      calls, refunded>>
    BY DEF Shared, TypeOK, Gate
  <1>2. QED
    BY <1>1 DEF Shared, TypeOK, Sold, Reading, Asking, tickets

LEMMA CreatePlanShared ==
  ASSUME Shared, NEW p \in Plans, CreatePlan(p)
  PROVE  Shared'
  <1> DEFINE new == [status |-> "ACTIVE", remaining |-> Rounds[p] - 1, played |-> 1, last |-> 0]
  <1>1. MaxRound \in Nat /\ Rounds[p] \in Nat /\ Rounds[p] > 1
    BY PlansAssumption
  <1>2. new \in Row /\ new.status = "ACTIVE" /\ new.remaining > 0
    BY <1>1 DEF Row
  <1>3. /\ plan' = [plan EXCEPT ![p] = new]
        /\ original' = [original EXCEPT ![p] = sale[p]] /\ sale[p] > 0 /\ sale[p] \in 0..MaxRound
        /\ UNCHANGED <<round, sale, children, inbox, view, cancel, calls, refunded>>
    BY DEF CreatePlan, Shared, TypeOK
  <1> HIDE DEF new
  <1>4. TypeOK'
    BY <1>2, <1>3 DEF Shared, TypeOK
  <1>5. /\ \A q \in Plans : original[q] # 0 => original'[q] # 0
        /\ original'[p] # 0
        /\ \A q \in Plans : q # p => plan'[q] = plan[q] /\ original'[q] = original[q]
        /\ plan'[p] = new
    BY <1>3 DEF Shared, TypeOK
  <1>6. Sold'
    BY <1>2, <1>5 DEF Shared, Sold
  <1>7. Reading' /\ Asking'
    BY <1>3, <1>5, Typed DEF Shared, Reading, Asking
  <1>8. QED
    BY <1>4, <1>6, <1>7 DEF Shared

LEMMA ReadPlansShared ==
  ASSUME Shared, NEW s \in Replicas, ReadPlans(s)
  PROVE  Shared'
  <1> DEFINE live == {p \in Plans : Live(plan[p])}
             rows == [p \in live |-> plan[p]]
  <1>1. /\ inbox[s] # <<>> /\ view[s] = NoRows
        /\ view' = [view EXCEPT ![s] = rows]
        /\ inbox' = [inbox EXCEPT ![s] = IF live = {} THEN Tail(@) ELSE @]
        /\ UNCHANGED <<round, plan, sale, tickets, cancel, calls, refunded>>
    BY DEF ReadPlans
  <1>2. /\ DOMAIN rows = live /\ live \subseteq Plans /\ rows \in [live -> Row]
        /\ \A p \in live : rows[p] = plan[p] /\ Live(rows[p])
    BY DEF Shared, TypeOK
  <1>3. live = {} => rows = NoRows
    BY DEF NoRows
  <1> HIDE DEF rows
  <1>4. /\ DOMAIN view' = Replicas /\ view'[s] = rows
        /\ \A u \in Replicas : u # s => view'[u] = view[u]
    BY <1>1 DEF Shared, TypeOK
  <1>5. /\ inbox' \in [Replicas -> Seq(1..MaxRound)]
        /\ \A u \in Replicas : u # s => inbox'[u] = inbox[u]
        /\ live # {} => inbox'[s] # <<>>
    BY <1>1, Queue DEF Shared, TypeOK
  <1>6. TypeOK'
    BY <1>1, <1>2, <1>4, <1>5 DEF Shared, TypeOK, tickets
  <1>7. \A p \in live : original[p] # 0
    BY DEF Shared, Sold, Live
  <1>8. Reading'
    BY <1>1, <1>2, <1>3, <1>4, <1>5, <1>7 DEF Shared, Reading, tickets
  <1>9. Sold' /\ Asking'
    BY <1>1 DEF Shared, Sold, Asking, tickets
  <1>10. QED
    BY <1>6, <1>8, <1>9 DEF Shared

\* Generate: r is the round, due the plans that get a ticket.
LEMMA GenerateFacts ==
  ASSUME Shared, NEW s \in Replicas, Generate(s)
  PROVE  LET r == Head(inbox[s])
             due == {p \in DOMAIN view[s] : Due(view[s][p], r)}
         IN
         /\ r \in 1..MaxRound /\ due \subseteq Plans /\ due \subseteq DOMAIN view[s]
         /\ children' \in [Plans -> Seq(1..MaxRound)]
         /\ \A p \in Plans : children'[p] = IF p \in due THEN Append(children[p], r)
                                            ELSE children[p]
         /\ plan' \in [Plans -> Row]
         /\ \A p \in Plans \ due : plan'[p] = plan[p]
         /\ \A p \in due :
              /\ view[s][p] \in Row /\ Live(view[s][p]) /\ original[p] # 0
              /\ plan'[p].status = IF view[s][p].remaining = 1 THEN "COMPLETED"
                                   ELSE plan[p].status
              /\ plan'[p].remaining = view[s][p].remaining - 1
              /\ plan'[p].played = view[s][p].played + 1
  <1> DEFINE r == Head(inbox[s])
             due == {p \in DOMAIN view[s] : Due(view[s][p], r)}
             new(p) == Flushed(Advanced(view[s][p], r), view[s][p], plan[p])
  <1>1. /\ view[s] # NoRows
        /\ children' = [p \in Plans |-> IF p \in due THEN Append(children[p], r) ELSE children[p]]
        /\ plan' = [p \in Plans |-> IF p \in due THEN new(p) ELSE plan[p]]
    BY DEF Generate
  <1>2. r \in 1..MaxRound
    BY <1>1, Queue DEF Shared, TypeOK, Reading
  <1>3. /\ due \subseteq DOMAIN view[s] /\ DOMAIN view[s] \subseteq Plans
        /\ \A p \in due : view[s][p] \in Row /\ Live(view[s][p]) /\ original[p] # 0
    BY Typed DEF Shared, Reading
  <1>4. \A p \in Plans : children[p] \in Seq(1..MaxRound)
    BY DEF Shared, TypeOK
  <1>5. \A p \in Plans : Append(children[p], r) \in Seq(1..MaxRound)
    BY <1>2, <1>4, Queue
  <1>6. ASSUME NEW p \in due
        PROVE  /\ new(p) \in Row
               /\ new(p).status = IF view[s][p].remaining = 1 THEN "COMPLETED" ELSE plan[p].status
               /\ new(p).remaining = view[s][p].remaining - 1
               /\ new(p).played = view[s][p].played + 1
    <2>1. view[s][p] \in Row /\ plan[p] \in Row /\ r \in 0..MaxRound /\ Live(view[s][p])
      BY <1>2, <1>3, <1>6, Typed DEF Shared
    <2>2. QED
      BY <2>1, AdvancedRow
  <1> HIDE DEF new, due, r
  <1>7. plan' \in [Plans -> Row]
    BY <1>1, <1>3, <1>6, Typed DEF Shared
  <1>8. children' \in [Plans -> Seq(1..MaxRound)]
    BY <1>1, <1>4, <1>5
  <1>9. \A p \in Plans : children'[p] = IF p \in due THEN Append(children[p], r) ELSE children[p]
    BY <1>1
  <1>10. /\ \A p \in Plans \ due : plan'[p] = plan[p]
         /\ \A p \in due : plan'[p] = new(p)
    BY <1>1, <1>3
  <1>11. QED
    BY <1>2, <1>3, <1>6, <1>7, <1>8, <1>9, <1>10 DEF due, r

\* The generation is over: its event is handled.
LEMMA EventHandled ==
  ASSUME Shared, NEW s \in Replicas, view[s] # NoRows,
         view' = [view EXCEPT ![s] = NoRows], inbox' = [inbox EXCEPT ![s] = Tail(@)]
  PROVE  /\ inbox' \in [Replicas -> Seq(1..MaxRound)]
         /\ DOMAIN view' = Replicas /\ view'[s] = NoRows
         /\ \A u \in Replicas : u # s => view'[u] = view[u] /\ inbox'[u] = inbox[u]
         /\ \A u \in Replicas : /\ DOMAIN view'[u] \subseteq Plans
                                /\ view'[u] \in [DOMAIN view'[u] -> Row]
  <1>1. /\ inbox' \in [Replicas -> Seq(1..MaxRound)]
        /\ DOMAIN view' = Replicas /\ view'[s] = NoRows
        /\ \A u \in Replicas : u # s => view'[u] = view[u] /\ inbox'[u] = inbox[u]
    BY Queue DEF Shared, TypeOK, Reading
  <1>2. NoRows \in [DOMAIN NoRows -> Row] /\ DOMAIN NoRows \subseteq Plans
    BY DEF NoRows
  <1>3. QED
    BY <1>1, <1>2 DEF Shared, TypeOK

LEMMA GenerateShared ==
  ASSUME Shared, NEW s \in Replicas, Generate(s)
  PROVE  Shared'
  <1> DEFINE due == {p \in DOMAIN view[s] : Due(view[s][p], Head(inbox[s]))}
  <1>1. /\ view[s] # NoRows
        /\ view' = [view EXCEPT ![s] = NoRows] /\ inbox' = [inbox EXCEPT ![s] = Tail(@)]
        /\ UNCHANGED <<round, sale, original, cancel, calls, refunded>>
    BY DEF Generate
  <1>2. /\ children' \in [Plans -> Seq(1..MaxRound)] /\ plan' \in [Plans -> Row]
        /\ \A p \in Plans \ due : plan'[p] = plan[p]
        /\ \A p \in due :
             /\ view[s][p] \in Row /\ Live(view[s][p]) /\ original[p] # 0
             /\ plan'[p].status = IF view[s][p].remaining = 1 THEN "COMPLETED" ELSE plan[p].status
             /\ plan'[p].remaining = view[s][p].remaining - 1
    BY GenerateFacts
  <1> HIDE DEF due
  <1>3. TypeOK'
    BY <1>1, <1>2, EventHandled DEF Shared, TypeOK
  <1>4. Sold'
    <2>1. ASSUME NEW p \in due
          PROVE  original[p] # 0 /\ (plan'[p].status = "ACTIVE" => plan'[p].remaining > 0)
      <3>1. view[s][p].remaining \in Nat /\ view[s][p].remaining > 0
        BY <1>2 DEF Live, Row
      <3>2. QED
        BY <1>2, <3>1
    <2>2. \A p \in Plans : p \in due \/ plan'[p] = plan[p]
      BY <1>2
    <2>3. QED
      BY <1>1, <2>1, <2>2 DEF Shared, Sold
  <1>5. Reading'
    BY <1>1, EventHandled, NoView DEF Shared, Reading
  <1>6. Asking'
    BY <1>1 DEF Shared, Asking
  <1>7. QED
    BY <1>3, <1>4, <1>5, <1>6 DEF Shared

LEMMA LoseGenerationShared ==
  ASSUME Shared, NEW s \in Replicas, LoseGeneration(s)
  PROVE  Shared'
  <1>1. /\ view[s] # NoRows
        /\ view' = [view EXCEPT ![s] = NoRows] /\ inbox' = [inbox EXCEPT ![s] = Tail(@)]
        /\ UNCHANGED <<round, plan, sale, tickets, cancel, calls, refunded>>
    BY DEF LoseGeneration
  <1>2. TypeOK'
    BY <1>1, EventHandled DEF Shared, TypeOK, tickets
  <1>3. Reading'
    BY <1>1, EventHandled, NoView DEF Shared, Reading, tickets
  <1>4. Sold' /\ Asking'
    BY <1>1 DEF Shared, Sold, Asking, tickets
  <1>5. QED
    BY <1>2, <1>3, <1>4 DEF Shared

LEMMA AskCancelShared ==
  ASSUME Shared, NEW c \in Cancellers, NEW p \in Plans, AskCancel(c, p)
  PROVE  Shared'
  <1> DEFINE new == [step |-> "asked", plan |-> p, row |-> plan[p]]
  <1>1. /\ plan[p].status = "ACTIVE" /\ calls < MaxCancels /\ calls' = calls + 1
        /\ cancel' = [cancel EXCEPT ![c] = new]
        /\ UNCHANGED <<round, plan, sale, tickets, inbox, view, refunded>>
    BY DEF AskCancel, Cancellable
  <1>2. new \in Cancels /\ new.plan = p /\ new.row = plan[p]
    BY Typed DEF Shared, Cancels
  <1>3. original[p] # 0
    BY <1>1 DEF Shared, Sold
  <1> HIDE DEF new
  <1>4. calls' \in 0..MaxCancels
    BY <1>1, PlansAssumption DEF Shared, TypeOK
  <1>5. TypeOK'
    BY <1>1, <1>2, <1>4 DEF Shared, TypeOK, tickets
  <1>6. /\ cancel'[c] = new
        /\ \A d \in Cancellers : d # c => cancel'[d] = cancel[d]
    BY <1>1 DEF Shared, TypeOK
  <1>7. Asking'
    BY <1>1, <1>2, <1>3, <1>6 DEF Shared, Asking, tickets
  <1>8. Sold' /\ Reading'
    BY <1>1 DEF Shared, Sold, Reading, tickets
  <1>9. QED
    BY <1>5, <1>7, <1>8 DEF Shared

\* Refund: who asked goes on or gives up, and the money is given back or not.
LEMMA RefundFacts ==
  ASSUME Shared, NEW c \in Cancellers, Refund(c)
  PROVE  /\ cancel[c] # Idle /\ cancel' \in [Cancellers -> Cancels \cup {Idle}]
         /\ refunded' \in [Plans -> Nat]
         /\ \A p \in Plans : refunded'[p] >= refunded[p]
         /\ \A d \in Cancellers : d # c => cancel'[d] = cancel[d]
         /\ \/ cancel'[c] = Idle
            \/ /\ cancel'[c] # Idle
               /\ cancel'[c].plan = cancel[c].plan /\ cancel'[c].row = cancel[c].row
               /\ refunded'[cancel[c].plan] >= cancel[c].row.remaining
         /\ UNCHANGED <<round, plan, sale, tickets, inbox, view, calls>>
  <1> DEFINE p == cancel[c].plan
             back == refunded[p] + cancel[c].row.remaining
             next == [cancel[c] EXCEPT !.step = "refunded"]
  <1>1. /\ cancel[c] # Idle /\ cancel[c] \in Cancels
        /\ p \in Plans /\ cancel[c].row.remaining \in Nat
        /\ UNCHANGED <<round, plan, sale, tickets, inbox, view, calls>>
        /\ refunded \in [Plans -> Nat] /\ cancel \in [Cancellers -> Cancels \cup {Idle}]
    BY Typed DEF Refund, Shared, TypeOK, Row
  <1>2. /\ refunded' = refunded \/ refunded' = [refunded EXCEPT ![p] = back]
        /\ \/ cancel' = [cancel EXCEPT ![c] = Idle]
           \/ cancel' = [cancel EXCEPT ![c] = next] /\ refunded' = [refunded EXCEPT ![p] = back]
    BY DEF Refund, Owed
  <1>3. /\ next \in Cancels /\ next.plan = p /\ next.row = cancel[c].row
        /\ next.step = "refunded" /\ next # Idle
    BY <1>1 DEF Cancels, Idle
  <1>4. back \in Nat /\ back >= refunded[p] /\ back >= cancel[c].row.remaining
    BY <1>1
  <1> HIDE DEF next, back, p
  <1>5. cancel' \in [Cancellers -> Cancels \cup {Idle}]
    BY <1>1, <1>2, <1>3
  <1>6. refunded' \in [Plans -> Nat] /\ \A q \in Plans : refunded'[q] >= refunded[q]
    BY <1>1, <1>2, <1>4
  <1>7. \A d \in Cancellers : d # c => cancel'[d] = cancel[d]
    BY <1>1, <1>2
  <1>8. \/ cancel'[c] = Idle
        \/ cancel'[c] = next /\ refunded'[p] = back
    BY <1>1, <1>2
  <1>9. QED
    BY <1>1, <1>3, <1>4, <1>5, <1>6, <1>7, <1>8 DEF p

LEMMA RefundShared ==
  ASSUME Shared, NEW c \in Cancellers, Refund(c)
  PROVE  Shared'
  <1>1. TypeOK'
    BY RefundFacts DEF Shared, TypeOK, tickets
  <1>2. Asking'
    BY RefundFacts DEF Shared, Asking, tickets
  <1>3. Sold' /\ Reading'
    BY RefundFacts DEF Shared, Sold, Reading, tickets
  <1>4. QED
    BY <1>1, <1>2, <1>3 DEF Shared

\* A cancellation ends: the row it cancels keeps what was played.
LEMMA CommitCancelFacts ==
  ASSUME Shared, NEW c \in Cancellers, CommitCancel(c)
  PROVE  LET p == cancel[c].plan IN
         /\ cancel[c] # Idle /\ cancel[c].step = "refunded" /\ p \in Plans
         /\ original[p] # 0
         /\ plan' \in [Plans -> Row] /\ cancel' \in [Cancellers -> Cancels \cup {Idle}]
         /\ plan'[p].status = "CANCELLED" /\ plan'[p].played = plan[p].played
         /\ \A q \in Plans : q # p => plan'[q] = plan[q]
         /\ cancel'[c] = Idle
         /\ \A d \in Cancellers : d # c => cancel'[d] = cancel[d]
         /\ UNCHANGED <<round, sale, tickets, inbox, view, calls, refunded>>
  <1> DEFINE p == cancel[c].plan
             new == Flushed(Cancelled(cancel[c].row), cancel[c].row, plan[p])
  <1>1. /\ cancel[c] # Idle /\ cancel[c].step = "refunded"
        /\ p \in Plans /\ cancel[c].row \in Row /\ plan[p] \in Row
        /\ cancel[c].row.status = "ACTIVE" /\ original[p] # 0
        /\ plan' = [plan EXCEPT ![p] = new] /\ cancel' = [cancel EXCEPT ![c] = Idle]
        /\ UNCHANGED <<round, sale, tickets, inbox, view, calls, refunded>>
    BY Typed DEF CommitCancel, Shared, Asking
  <1>2. new \in Row /\ new.status = "CANCELLED" /\ new.played = plan[p].played
    BY <1>1, CancelledRow
  <1> HIDE DEF new, p
  <1>3. plan \in [Plans -> Row] /\ cancel \in [Cancellers -> Cancels \cup {Idle}]
    BY DEF Shared, TypeOK
  <1>4. QED
    BY <1>1, <1>2, <1>3 DEF p

LEMMA CommitCancelShared ==
  ASSUME Shared, NEW c \in Cancellers, CommitCancel(c)
  PROVE  Shared'
  <1>1. TypeOK'
    BY CommitCancelFacts DEF Shared, TypeOK, tickets
  <1>2. Sold' /\ Asking'
    BY CommitCancelFacts DEF Shared, Sold, Asking, tickets
  <1>3. Reading'
    BY CommitCancelFacts DEF Shared, Reading, tickets
  <1>4. QED
    BY <1>1, <1>2, <1>3 DEF Shared

LEMMA LoseCancelShared ==
  ASSUME Shared, NEW c \in Cancellers, LoseCancel(c)
  PROVE  Shared'
  <1>1. /\ cancel' = [cancel EXCEPT ![c] = Idle]
        /\ UNCHANGED <<round, plan, sale, tickets, inbox, view, calls, refunded>>
    BY DEF LoseCancel
  <1>2. cancel' \in [Cancellers -> Cancels \cup {Idle}]
        /\ \A d \in Cancellers : cancel'[d] # Idle => cancel'[d] = cancel[d]
    BY <1>1 DEF Shared, TypeOK
  <1>3. QED
    BY <1>1, <1>2 DEF Shared, TypeOK, Sold, Reading, Asking, tickets

LEMMA NextShared == Shared /\ [Next]_vars => Shared'
  <1> SUFFICES ASSUME Shared, [Next]_vars PROVE Shared'
    OBVIOUS
  <1>1. CASE OpenBetting
    BY <1>1, OpenBettingShared
  <1>2. CASE \E p \in Plans : Gate(p) \/ CreatePlan(p)
    BY <1>2, GateShared, CreatePlanShared
  <1>3. CASE \E s \in Replicas : ReadPlans(s) \/ Generate(s) \/ LoseGeneration(s)
    BY <1>3, ReadPlansShared, GenerateShared, LoseGenerationShared
  <1>4. CASE \E c \in Cancellers :
               \/ \E p \in Plans : AskCancel(c, p)
               \/ Refund(c) \/ CommitCancel(c) \/ LoseCancel(c)
    BY <1>4, AskCancelShared, RefundShared, CommitCancelShared, LoseCancelShared
  <1>5. CASE UNCHANGED vars
    BY <1>5 DEF vars, tickets, Shared, TypeOK, Sold, Reading, Asking
  <1>6. QED
    BY <1>1, <1>2, <1>3, <1>4, <1>5 DEF Next
-----------------------------------------------------------------------------
(* What holds with a single replica.                                       *)

\* What a row's fields are.
LEMMA Fields ==
  ASSUME NEW row \in Row
  PROVE  /\ row.status \in {"none", "ACTIVE", "COMPLETED", "CANCELLED"}
         /\ row.remaining \in Nat /\ row.played \in Nat
  BY DEF Row

LEMMA RoundsTyped == \A p \in Plans : Rounds[p] \in Nat /\ Rounds[p] > 1
  BY PlansAssumption

LEMMA Numbers ==
  ASSUME TypeOK
  PROVE  \A p \in Plans : refunded[p] \in Nat /\ Len(children[p]) \in Nat
  BY LenProperties DEF TypeOK

LEMMA InitCounted == Init => Counted
  BY NoView DEF Init, Counted, TicketsMatchPlan, CancelledIsRefunded, Unsold, Generating,
                Cancelling, Absent

\* Steps that change no plan, ticket or refund, and take nothing up.
LEMMA QuietStep ==
  ASSUME IInv, UNCHANGED <<plan, children, refunded>>,
         \A s \in Replicas : view'[s] = view[s] \/ view'[s] = NoRows,
         \A c \in Cancellers : cancel'[c] = cancel[c] \/ cancel'[c] = Idle
  PROVE  Counted'
  <1>1. TicketsMatchPlan' /\ CancelledIsRefunded' /\ Unsold'
    BY DEF IInv, Counted, TicketsMatchPlan, CancelledIsRefunded, Unsold
  <1>2. Generating'
    BY NoView DEF IInv, Counted, Generating
  <1>3. Cancelling'
    BY DEF IInv, Counted, Cancelling
  <1>4. QED
    BY <1>1, <1>2, <1>3 DEF Counted

LEMMA CreatePlanCounted ==
  ASSUME IInv, NEW p \in Plans, CreatePlan(p)
  PROVE  Counted'
  <1> DEFINE new == [status |-> "ACTIVE", remaining |-> Rounds[p] - 1, played |-> 1, last |-> 0]
  <1>1. /\ plan' = [plan EXCEPT ![p] = new] /\ original[p] = 0
        /\ UNCHANGED <<children, view, cancel, refunded>>
    BY DEF CreatePlan
  <1>2. /\ plan'[p] = new /\ \A q \in Plans : q # p => plan'[q] = plan[q]
    BY <1>1 DEF IInv, Shared, TypeOK
  <1>3. /\ new.status = "ACTIVE" /\ new.remaining = Rounds[p] - 1 /\ new.played = 1
    OBVIOUS
  <1> HIDE DEF new
  <1>4. children[p] = <<>> /\ Len(children[p]) = 0
    BY <1>1, EmptySeq DEF IInv, Shared, Sold, Counted, Unsold
  <1>5. TicketsMatchPlan' /\ CancelledIsRefunded' /\ Unsold'
    BY <1>1, <1>2, <1>3, <1>4, RoundsTyped
    DEF IInv, Counted, TicketsMatchPlan, CancelledIsRefunded, Unsold
  <1>6. \A s \in Replicas : \A q \in DOMAIN view[s] : q # p /\ q \in Plans
    BY <1>1, Typed DEF IInv, Shared, Reading
  <1>7. \A c \in Cancellers : cancel[c] # Idle => cancel[c].plan # p /\ cancel[c].plan \in Plans
    BY <1>1, Typed DEF IInv, Shared, Asking
  <1>8. Generating' /\ Cancelling'
    BY <1>1, <1>2, <1>6, <1>7 DEF IInv, Counted, Generating, Cancelling
  <1>9. QED
    BY <1>5, <1>8 DEF Counted

\* What was just read is the row.
LEMMA ReadPlansCounted ==
  ASSUME IInv, NEW s \in Replicas, ReadPlans(s)
  PROVE  Counted'
  <1> DEFINE live == {p \in Plans : Live(plan[p])}
             rows == [p \in live |-> plan[p]]
  <1>1. /\ view' = [view EXCEPT ![s] = rows]
        /\ UNCHANGED <<plan, children, cancel, refunded>>
    BY DEF ReadPlans, tickets
  <1>2. /\ DOMAIN rows = live /\ \A p \in live : rows[p] = plan[p]
    OBVIOUS
  <1> HIDE DEF rows
  <1>3. view'[s] = rows /\ \A u \in Replicas : u # s => view'[u] = view[u]
    BY <1>1 DEF IInv, Shared, TypeOK
  <1>4. TicketsMatchPlan' /\ CancelledIsRefunded' /\ Unsold' /\ Cancelling'
    BY <1>1 DEF IInv, Counted, TicketsMatchPlan, CancelledIsRefunded, Unsold, Cancelling
  <1>5. \A p \in live : plan[p].remaining + plan[p].played = Rounds[p]
    BY DEF IInv, Counted, TicketsMatchPlan, Live
  <1>6. Generating'
    BY <1>1, <1>2, <1>3, <1>5 DEF IInv, Counted, Generating
  <1>7. QED
    BY <1>4, <1>6 DEF Counted

\* A generation moves one round of each due plan from remaining to played, with its ticket.
LEMMA GenerateCounted ==
  ASSUME IInv, Alone, NEW s \in Replicas, Generate(s)
  PROVE  Counted'
  <1> DEFINE r == Head(inbox[s])
             due == {p \in DOMAIN view[s] : Due(view[s][p], r)}
  <1>1. /\ r \in 1..MaxRound
        /\ \A p \in Plans : children'[p] = IF p \in due THEN Append(children[p], r)
                                           ELSE children[p]
        /\ \A p \in Plans \ due : plan'[p] = plan[p]
        /\ \A p \in due :
             /\ p \in Plans /\ p \in DOMAIN view[s]
             /\ view[s][p] \in Row /\ Live(view[s][p])
             /\ plan'[p].status = IF view[s][p].remaining = 1 THEN "COMPLETED" ELSE plan[p].status
             /\ plan'[p].remaining = view[s][p].remaining - 1
             /\ plan'[p].played = view[s][p].played + 1
    BY GenerateFacts DEF IInv
  <1>2. /\ UNCHANGED <<cancel, refunded>> /\ view[s] # NoRows /\ view' = [view EXCEPT ![s] = NoRows]
    BY DEF Generate
  <1> HIDE DEF r, due
  <1>3. ASSUME NEW p \in due
        PROVE  /\ plan'[p].played = plan[p].played + 1
               /\ plan'[p].status \in {"ACTIVE", "COMPLETED", "CANCELLED"}
               /\ plan'[p].status = "ACTIVE" => plan'[p].remaining > 0
               /\ plan'[p].status = "COMPLETED" => plan'[p].remaining = 0
               /\ plan'[p].status = "CANCELLED" => plan[p].status = "CANCELLED"
               /\ plan'[p].remaining + plan'[p].played = Rounds[p]
               /\ plan'[p].played <= Rounds[p]
               /\ plan[p].status # "none"
               /\ plan'[p].remaining \in Nat
    <2>1. /\ p \in Plans /\ view[s][p].remaining \in Nat /\ view[s][p].remaining > 0
          /\ view[s][p].played \in Nat /\ view[s][p].status = "ACTIVE"
          /\ view[s][p].remaining + view[s][p].played = Rounds[p]
          /\ plan[p].played = view[s][p].played
          /\ plan[p].status \in {"ACTIVE", "CANCELLED"}
      BY <1>1, <1>3, Fields DEF IInv, Counted, Generating, Live
    <2>2. /\ plan'[p].status = IF view[s][p].remaining = 1 THEN "COMPLETED" ELSE plan[p].status
          /\ plan'[p].remaining = view[s][p].remaining - 1
          /\ plan'[p].played = view[s][p].played + 1
      BY <1>1, <1>3
    <2>3. QED
      BY <2>1, <2>2
  <1>4. \A p \in due : Len(children'[p]) = Len(children[p]) + 1
    <2> SUFFICES ASSUME NEW p \in due PROVE Len(children'[p]) = Len(children[p]) + 1
      OBVIOUS
    <2>1. children[p] \in Seq(1..MaxRound) /\ children'[p] = Append(children[p], r)
      BY <1>1 DEF IInv, Shared, TypeOK
    <2>2. QED
      BY <1>1, <2>1, AppendProperties
  <1>5. \A p \in Plans : p \in due \/ (plan'[p] = plan[p] /\ children'[p] = children[p])
    BY <1>1
  <1>6. \A p \in Plans : /\ plan[p].played \in Nat /\ refunded[p] \in Nat /\ Rounds[p] \in Nat
                         /\ Len(children[p]) \in Nat
    BY Typed, Fields, Numbers, RoundsTyped DEF IInv, Shared
  <1>7. TicketsMatchPlan'
    <2>1. ASSUME NEW p \in Plans, plan'[p].status # "none"
          PROVE  /\ plan'[p].played = 1 + Len(children'[p])
                 /\ plan'[p].played <= Rounds[p]
                 /\ plan'[p].status = "ACTIVE" =>
                      plan'[p].remaining > 0 /\ plan'[p].remaining + plan'[p].played = Rounds[p]
                 /\ plan'[p].status = "COMPLETED" =>
                      plan'[p].remaining = 0 /\ plan'[p].played = Rounds[p]
      <3>1. CASE p \in due
        <4>1. plan[p].played = 1 + Len(children[p])
          BY <1>3, <3>1 DEF IInv, Counted, TicketsMatchPlan
        <4>2. QED
          BY <1>3, <1>4, <1>6, <3>1, <4>1
      <3>2. CASE p \notin due
        BY <1>5, <2>1, <3>2 DEF IInv, Counted, TicketsMatchPlan
      <3>3. QED
        BY <3>1, <3>2
    <2>2. QED
      BY <2>1 DEF TicketsMatchPlan
  <1>8. CancelledIsRefunded'
    BY <1>2, <1>3, <1>5, <1>6 DEF IInv, Counted, CancelledIsRefunded
  <1>9. Unsold'
    BY <1>3, <1>5 DEF IInv, Counted, Unsold
  <1>10. Generating'
    <2>1. \A u \in Replicas : u = s
      BY DEF Alone
    <2>2. view'[s] = NoRows
      BY <1>2 DEF IInv, Shared, TypeOK
    <2>3. QED
      BY <2>1, <2>2, NoView DEF Generating
  <1>11. Cancelling'
    <2>1. \A p \in Plans : plan'[p].played >= plan[p].played
      BY <1>3, <1>5, <1>6
    <2>2. \A p \in Plans : plan'[p].played \in Nat
      BY <1>3, <1>5, <1>6
    <2>3. \A c \in Cancellers : cancel[c] # Idle =>
            cancel[c].plan \in Plans /\ cancel[c].row.played \in Nat
      BY Typed, Fields DEF IInv, Shared
    <2>4. \A p \in Plans : plan[p].status # "none" => plan'[p].status # "none"
      BY <1>3, <1>5
    <2>5. QED
      BY <1>2, <1>6, <2>1, <2>2, <2>3, <2>4 DEF IInv, Counted, Cancelling
  <1>12. QED
    BY <1>7, <1>8, <1>9, <1>10, <1>11 DEF Counted

LEMMA AskCancelCounted ==
  ASSUME IInv, NEW c \in Cancellers, NEW p \in Plans, AskCancel(c, p)
  PROVE  Counted'
  <1> DEFINE new == [step |-> "asked", plan |-> p, row |-> plan[p]]
  <1>1. /\ plan[p].status = "ACTIVE"
        /\ cancel' = [cancel EXCEPT ![c] = new]
        /\ UNCHANGED <<plan, children, view, refunded>>
    BY DEF AskCancel, Cancellable, tickets
  <1>2. new.plan = p /\ new.row = plan[p] /\ new.step = "asked"
    OBVIOUS
  <1> HIDE DEF new
  <1>3. cancel'[c] = new /\ \A d \in Cancellers : d # c => cancel'[d] = cancel[d]
    BY <1>1 DEF IInv, Shared, TypeOK
  <1>4. /\ plan[p].remaining > 0 /\ plan[p].remaining + plan[p].played = Rounds[p]
        /\ plan[p].played <= plan[p].played
    BY <1>1, Typed, Fields DEF IInv, Shared, Counted, TicketsMatchPlan
  <1>5. Cancelling'
    BY <1>1, <1>2, <1>3, <1>4 DEF IInv, Counted, Cancelling
  <1>6. TicketsMatchPlan' /\ CancelledIsRefunded' /\ Unsold' /\ Generating'
    BY <1>1 DEF IInv, Counted, TicketsMatchPlan, CancelledIsRefunded, Unsold, Generating
  <1>7. QED
    BY <1>5, <1>6 DEF Counted

LEMMA RefundCounted ==
  ASSUME IInv, NEW c \in Cancellers, Refund(c)
  PROVE  Counted'
  <1>1. /\ UNCHANGED <<plan, children, view>>
        /\ refunded' \in [Plans -> Nat] /\ \A p \in Plans : refunded'[p] >= refunded[p]
        /\ cancel[c] # Idle
        /\ \A d \in Cancellers : d # c => cancel'[d] = cancel[d]
        /\ \/ cancel'[c] = Idle
           \/ /\ cancel'[c] # Idle
              /\ cancel'[c].plan = cancel[c].plan /\ cancel'[c].row = cancel[c].row
              /\ refunded'[cancel[c].plan] >= cancel[c].row.remaining
    BY RefundFacts DEF IInv, tickets
  <1>2. \A p \in Plans : plan[p].played \in Nat /\ refunded[p] \in Nat /\ Rounds[p] \in Nat
                         /\ refunded'[p] \in Nat
    BY <1>1, Typed, Fields, Numbers, RoundsTyped DEF IInv, Shared
  <1>3. TicketsMatchPlan' /\ Unsold' /\ Generating'
    BY <1>1 DEF IInv, Counted, TicketsMatchPlan, Unsold, Generating
  <1>4. CancelledIsRefunded'
    BY <1>1, <1>2 DEF IInv, Counted, CancelledIsRefunded
  <1>5. Cancelling'
    <2>1. \A d \in Cancellers : cancel[d] # Idle =>
            cancel[d].plan \in Plans /\ cancel[d].row.remaining \in Nat
      BY Typed, Fields DEF IInv, Shared
    <2>2. QED
      BY <1>1, <1>2, <2>1 DEF IInv, Counted, Cancelling
  <1>6. QED
    BY <1>3, <1>4, <1>5 DEF Counted

\* The refund was computed from an older row: rounds were played since, none was given back.
LEMMA CommitCancelCounted ==
  ASSUME IInv, NEW c \in Cancellers, CommitCancel(c)
  PROVE  Counted'
  <1> DEFINE p == cancel[c].plan
  <1>1. /\ cancel[c] # Idle /\ cancel[c].step = "refunded" /\ p \in Plans
        /\ original[p] # 0
        /\ plan'[p].status = "CANCELLED" /\ plan'[p].played = plan[p].played
        /\ \A q \in Plans : q # p => plan'[q] = plan[q]
        /\ cancel'[c] = Idle
        /\ \A d \in Cancellers : d # c => cancel'[d] = cancel[d]
        /\ UNCHANGED <<children, view, refunded>>
    BY CommitCancelFacts DEF IInv, tickets
  <1>2. /\ cancel[c].row.remaining \in Nat /\ cancel[c].row.played \in Nat
        /\ plan[p].played \in Nat /\ refunded[p] \in Nat /\ Rounds[p] \in Nat
        /\ cancel[c].row.remaining + cancel[c].row.played = Rounds[p]
        /\ cancel[c].row.played <= plan[p].played
        /\ refunded[p] >= cancel[c].row.remaining
    BY <1>1, Typed, Fields, Numbers, RoundsTyped DEF IInv, Shared, Counted, Cancelling
  <1>3. plan[p].status # "none"
    BY <1>1 DEF IInv, Counted, Cancelling
  <1> HIDE DEF p
  <1>4. TicketsMatchPlan' /\ CancelledIsRefunded' /\ Unsold'
    BY <1>1, <1>2, <1>3 DEF IInv, Counted, TicketsMatchPlan, CancelledIsRefunded, Unsold
  <1>5. Generating'
    BY <1>1, Typed DEF IInv, Shared, Counted, Generating
  <1>6. Cancelling'
    BY <1>1, Typed DEF IInv, Shared, Counted, Cancelling
  <1>7. QED
    BY <1>4, <1>5, <1>6 DEF Counted

LEMMA NextCounted == Alone => (IInv /\ [Next]_vars => IInv')
  <1> SUFFICES ASSUME Alone, IInv, [Next]_vars PROVE Counted'
    BY NextShared DEF IInv
  <1>1. CASE OpenBetting
    BY <1>1, QuietStep DEF OpenBetting, tickets
  <1>2. ASSUME NEW p \in Plans, Gate(p) \/ CreatePlan(p)
        PROVE  Counted'
    BY <1>2, QuietStep, CreatePlanCounted DEF Gate, tickets
  <1>3. ASSUME NEW s \in Replicas, ReadPlans(s) \/ Generate(s)
        PROVE  Counted'
    BY <1>3, ReadPlansCounted, GenerateCounted
  <1>4. ASSUME NEW s \in Replicas, LoseGeneration(s)
        PROVE  Counted'
    <2>1. \A u \in Replicas : view'[u] = view[u] \/ view'[u] = NoRows
      BY <1>4 DEF LoseGeneration, IInv, Shared, TypeOK
    <2>2. QED
      BY <1>4, <2>1, QuietStep DEF LoseGeneration, tickets
  <1>5. ASSUME NEW c \in Cancellers, NEW p \in Plans, AskCancel(c, p)
        PROVE  Counted'
    BY <1>5, AskCancelCounted
  <1>6. ASSUME NEW c \in Cancellers, Refund(c) \/ CommitCancel(c)
        PROVE  Counted'
    BY <1>6, RefundCounted, CommitCancelCounted
  <1>7. ASSUME NEW c \in Cancellers, LoseCancel(c)
        PROVE  Counted'
    <2>1. \A d \in Cancellers : cancel'[d] = cancel[d] \/ cancel'[d] = Idle
      BY <1>7 DEF LoseCancel, IInv, Shared, TypeOK
    <2>2. QED
      BY <1>7, <2>1, QuietStep DEF LoseCancel, tickets
  <1>8. CASE UNCHANGED vars
    BY <1>8, QuietStep DEF vars, tickets
  <1>9. QED
    BY <1>1, <1>2, <1>3, <1>4, <1>5, <1>6, <1>7, <1>8 DEF Next
-----------------------------------------------------------------------------
\* With any number of replicas: the counters keep their types, and rounds_remaining is
\* never negative.
THEOREM TypeCorrect == Spec => []TypeOK
  <1>1. Spec => []Shared
    BY InitShared, NextShared, PTL DEF Spec
  <1>2. Shared => TypeOK
    BY DEF Shared
  <1>3. QED
    BY <1>1, <1>2, PTL

\* OverIsOver: a plan that is COMPLETED or CANCELLED is never ACTIVE again, with any number
\* of replicas and cancellations (generate_replay_tickets_for_round, cancel_plan).
THEOREM PlansStayOver == Spec => OverIsOver
  <1>1. ASSUME Shared, [Next]_vars
        PROVE  [\A p \in Plans : plan[p].status \in {"COMPLETED", "CANCELLED"} =>
                  plan'[p].status \in {"COMPLETED", "CANCELLED"}]_vars
    <2> SUFFICES ASSUME NEW p \in Plans, plan[p].status \in {"COMPLETED", "CANCELLED"}
                 PROVE  plan'[p].status \in {"COMPLETED", "CANCELLED"}
      OBVIOUS
    <2>1. CASE UNCHANGED plan
      BY <2>1
    <2>2. ASSUME NEW q \in Plans, CreatePlan(q)
          PROVE  plan'[p] = plan[p]
      <3>1. p # q
        BY <1>1, <2>2 DEF CreatePlan, Shared, Sold
      <3>2. QED
        BY <1>1, <2>2, <3>1 DEF CreatePlan, Shared, TypeOK
    <2>3. ASSUME NEW s \in Replicas, Generate(s)
          PROVE  plan'[p].status \in {plan[p].status, "COMPLETED"}
      BY <1>1, <2>3, GenerateFacts
    <2>4. ASSUME NEW c \in Cancellers, CommitCancel(c)
          PROVE  plan'[p].status \in {plan[p].status, "CANCELLED"}
      BY <1>1, <2>4, CommitCancelFacts
    <2>5. QED
      BY <1>1, <2>1, <2>2, <2>3, <2>4
      DEF Next, vars, OpenBetting, Gate, ReadPlans, LoseGeneration, AskCancel, Refund, LoseCancel
  <1>2. Spec => []Shared
    BY InitShared, NextShared, PTL DEF Spec
  <1>3. QED
    BY <1>1, <1>2, PTL DEF Spec, OverIsOver

\* The inductive invariant: what handlers hold of a plan is older than its row in known
\* ways only.
THEOREM Invariant == ASSUME Alone PROVE Spec => []IInv
  <1>1. Init => IInv
    BY InitShared, InitCounted DEF IInv
  <1>2. IInv /\ [Next]_vars => IInv'
    BY NextCounted
  <1>3. QED
    BY <1>1, <1>2, PTL DEF Spec

\* TicketsMatchPlan: the counters of a plan are those of its tickets, through lost events,
\* failed commits and cancellations, if ticket-service runs once.
THEOREM CountersMatchTickets == ASSUME Alone PROVE Spec => []TicketsMatchPlan
  <1>1. IInv => TicketsMatchPlan
    BY DEF IInv, Counted
  <1>2. QED
    BY Invariant, <1>1, PTL

\* CancelledIsRefunded: the rounds a cancelled plan did not play were refunded, if
\* ticket-service runs once.
THEOREM NobodyIsShortChanged == ASSUME Alone PROVE Spec => []CancelledIsRefunded
  <1>1. IInv => CancelledIsRefunded
    BY DEF IInv, Counted
  <1>2. QED
    BY Invariant, <1>1, PTL
=============================================================================
