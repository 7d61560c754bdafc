------------------------ MODULE CashRegister_proofs -------------------------
(***************************************************************************)
(* Machine-checked proofs about CashRegister, for any sets of agents,      *)
(* requests and amounts.                                                   *)
(*                                                                         *)
(* AuditChained is not inductive: a Commit writes seen + amount, which     *)
(* continues the chain only if the balance has not moved since the request *)
(* read it.  What makes that true is the row lock, so the invariant is     *)
(* strengthened with LockProtects.  AnswersAreTrue and the refinement also *)
(* need to know which requests can own audit rows: RowsOwned.              *)
(***************************************************************************)
EXTENDS CashRegister, TLAPS

\* A request between its SELECT ... FOR UPDATE and the end of its
\* transaction holds the lock, and the balance it read is still the balance.
LockProtects ==
  \A r \in Requests : pc[r] = "locked" =>
    /\ lock[call[r].agent] = r
    /\ call[r].agent \in registers
    /\ seen[r] = balance[call[r].agent]

\* Audit rows belong to requests whose transaction has ended, on the agent
\* and for the amount they asked, one row at most.
Ended == {"committed", "success", "error", "lost"}

RowsOwned ==
  \A a \in Agents : \A i \in DOMAIN audit[a] :
    LET e == audit[a][i] IN
      /\ pc[e.id] \in Ended
      /\ call[e.id].agent = a
      /\ call[e.id].amount = e.amount
      /\ \A j \in DOMAIN audit[a] : audit[a][j].id = e.id => i = j

\* A committed request has its row.
CommittedHasRow ==
  \A r \in Requests : pc[r] \in {"committed", "success"} =>
    \E i \in DOMAIN audit[call[r].agent] : audit[call[r].agent][i].id = r

IInv == TypeOK /\ LockProtects /\ AuditChained /\ RowsOwned /\ CommittedHasRow

USE DEF Running, Answers, Ended
-----------------------------------------------------------------------------
\* The initial state has every type and every conjunct of the invariant.
LEMMA InitIInv == Init => IInv
  BY RegisterAssumption
  DEF Init, IInv, TypeOK, Entries, LockProtects, AuditChained, RowsOwned, CommittedHasRow, LastAfter

\* What Append does to a sequence, in the form the proofs below use it.
LEMMA AppendFacts ==
  ASSUME NEW S, NEW s \in Seq(S), NEW x \in S
  PROVE  /\ Append(s, x) \in Seq(S)
         /\ Len(s) \in Nat
         /\ DOMAIN s = 1..Len(s)
         /\ Len(Append(s, x)) = Len(s) + 1
         /\ DOMAIN Append(s, x) = 1..(Len(s) + 1)
         /\ Append(s, x)[Len(s) + 1] = x
         /\ \A i \in DOMAIN s : Append(s, x)[i] = s[i]
  <1>1. Append(s, x) \in Seq(S) /\ Len(Append(s, x)) = Len(s) + 1 /\ Len(s) \in Nat
    OBVIOUS
  <1>2. DOMAIN s = 1..Len(s) /\ DOMAIN Append(s, x) = 1..(Len(s) + 1)
    BY <1>1
  <1>3. \A i \in 1..Len(s) : Append(s, x)[i] = s[i]
    BY <1>1
  <1>4. Append(s, x)[Len(s) + 1] = x
    BY <1>1
  <1>5. QED
    BY <1>1, <1>2, <1>3, <1>4

(***************************************************************************)
(* What a Write appends, stated once: the new row is the last one, and     *)
(* the rows before it are unchanged.                                       *)
(***************************************************************************)
Appended(r) ==
  LET a == call[r].agent
      n == Len(audit[a])
  IN
    /\ a \in Agents
    /\ audit' \in [Agents -> Seq(Entries)]
    /\ balance' \in [Agents -> Nat]
    /\ balance'[a] = seen[r] + call[r].amount
    /\ n \in Nat
    /\ DOMAIN audit[a] = 1..n
    /\ DOMAIN audit'[a] = 1..(n + 1)
    /\ Len(audit'[a]) = n + 1
    /\ audit'[a][n + 1] = [id |-> r, amount |-> call[r].amount,
                           before |-> seen[r], after |-> seen[r] + call[r].amount]
    /\ \A i \in DOMAIN audit[a] : audit'[a][i] = audit[a][i]
    /\ \A b \in Agents \ {a} : audit'[b] = audit[b] /\ balance'[b] = balance[b]

LEMMA WriteAppends ==
  ASSUME TypeOK, NEW r \in Requests, pc[r] = "locked", ~Overdraws(r), Write(r)
  PROVE  Appended(r)
  <1> DEFINE a == call[r].agent
             after == seen[r] + call[r].amount
             e == [id |-> r, amount |-> call[r].amount, before |-> seen[r], after |-> after]
  <1>1. /\ a \in Agents
        /\ call[r].amount \in Amounts
        /\ call[r].amount \in Int
        /\ seen[r] \in Nat
        /\ audit[a] \in Seq(Entries)
    BY RegisterAssumption DEF TypeOK
  <1>2. after \in Nat
    BY <1>1 DEF Overdraws
  <1>3. e \in Entries
    BY <1>1, <1>2 DEF Entries
  <1>4. audit' = [audit EXCEPT ![a] = Append(@, e)] /\ balance' = [balance EXCEPT ![a] = after]
    BY DEF Write
  <1> HIDE DEF e, a
  <1>5. /\ Append(audit[a], e) \in Seq(Entries)
        /\ Len(audit[a]) \in Nat
        /\ DOMAIN audit[a] = 1..Len(audit[a])
        /\ Len(Append(audit[a], e)) = Len(audit[a]) + 1
        /\ DOMAIN Append(audit[a], e) = 1..(Len(audit[a]) + 1)
        /\ Append(audit[a], e)[Len(audit[a]) + 1] = e
        /\ \A i \in DOMAIN audit[a] : Append(audit[a], e)[i] = audit[a][i]
    BY <1>1, <1>3, AppendFacts
  <1>6. audit'[a] = Append(audit[a], e)
    BY <1>1, <1>4 DEF TypeOK
  <1>7. /\ Len(audit'[a]) = Len(audit[a]) + 1
        /\ DOMAIN audit'[a] = 1..(Len(audit[a]) + 1)
        /\ audit'[a][Len(audit[a]) + 1] = e
        /\ \A i \in DOMAIN audit[a] : audit'[a][i] = audit[a][i]
    BY <1>5, <1>6
  <1>8. /\ audit' \in [Agents -> Seq(Entries)]
        /\ balance' \in [Agents -> Nat]
        /\ balance'[a] = after
        /\ \A b \in Agents \ {a} : audit'[b] = audit[b] /\ balance'[b] = balance[b]
    BY <1>1, <1>2, <1>4, <1>5 DEF TypeOK
  <1>9. audit'[a][Len(audit[a]) + 1] = [id |-> r, amount |-> call[r].amount,
                              before |-> seen[r], after |-> seen[r] + call[r].amount]
    BY <1>7 DEF e
  <1>10. QED
    BY <1>1, <1>5, <1>7, <1>8, <1>9 DEF a, after, Appended

-----------------------------------------------------------------------------
\* The cases of a step, for every proof that goes through the actions.
LEMMA NextCases ==
  ASSUME [Next]_vars
  PROVE  \/ \E a \in Agents : OpenRegister(a)
         \/ \E r \in Requests :
              \/ Receive(r) \/ Acquire(r) \/ NotFound(r) \/ Reject(r)
              \/ Commit(r) \/ CommitFails(r) \/ Reply(r) \/ Lose(r)
         \/ UNCHANGED vars
  BY DEF Next, Step

\* Every action keeps the types; a posting that would make a balance negative
\* was refused by Overdraws.
LEMMA NextTypeOK ==
  ASSUME TypeOK, [Next]_vars
  PROVE  TypeOK'
  <1> USE RegisterAssumption
  <1>1. CASE \E a \in Agents : OpenRegister(a)
    BY <1>1 DEF TypeOK, OpenRegister
  <1>2. ASSUME NEW r \in Requests, Receive(r) \/ NotFound(r) \/ Reply(r)
        PROVE  TypeOK'
    BY <1>2 DEF TypeOK, Receive, NotFound, Reply, Goto, rows
  <1>3. ASSUME NEW r \in Requests, Acquire(r)
        PROVE  TypeOK'
    BY <1>3 DEF TypeOK, Acquire, Goto, rows
  <1>4. ASSUME NEW r \in Requests, Reject(r) \/ Lose(r)
        PROVE  TypeOK'
    BY <1>4 DEF TypeOK, Reject, Lose, Release, Goto, rows
  <1>5. ASSUME NEW r \in Requests, Commit(r) \/ (CommitFails(r) /\ Write(r))
        PROVE  TypeOK'
    <2>1. pc[r] = "locked" /\ ~Overdraws(r) /\ Write(r)
      BY <1>5 DEF Commit, CommitFails
    <2>2. audit' \in [Agents -> Seq(Entries)] /\ balance' \in [Agents -> Nat]
      BY <2>1, WriteAppends DEF Appended
    <2>3. QED
      BY <1>5, <2>1, <2>2 DEF TypeOK, Commit, CommitFails, Write, Release, Goto, Entries
  <1>6. ASSUME NEW r \in Requests, CommitFails(r), UNCHANGED rows
        PROVE  TypeOK'
    BY <1>6 DEF TypeOK, CommitFails, Release, Goto, rows
  <1>7. CASE UNCHANGED vars
    BY <1>7 DEF TypeOK, vars
  <1>8. QED
    BY <1>1, <1>2, <1>3, <1>4, <1>5, <1>6, <1>7, NextCases DEF CommitFails

(***************************************************************************)
(* Type correctness: in particular no balance and no audit row is ever     *)
(* negative, whatever provisions run concurrently and however they end.    *)
(***************************************************************************)
THEOREM TypeCorrect == Spec => []TypeOK
  <1>1. Init => TypeOK
    BY InitIInv DEF IInv
  <1>2. TypeOK /\ [Next]_vars => TypeOK'
    BY NextTypeOK
  <1>3. QED
    BY <1>1, <1>2, PTL DEF Spec

-----------------------------------------------------------------------------
\* Audit rows are entries, numbered from 1.
LEMMA RowTypes ==
  ASSUME TypeOK, NEW a \in Agents
  PROVE  /\ Len(audit[a]) \in Nat
         /\ DOMAIN audit[a] = 1..Len(audit[a])
         /\ audit[a] = <<>> <=> Len(audit[a]) = 0
         /\ \A i \in DOMAIN audit[a] :
              /\ audit[a][i] \in Entries
              /\ audit[a][i].id \in Requests
  <1>1. audit[a] \in Seq(Entries)
    BY DEF TypeOK
  <1>2. \A i \in DOMAIN audit[a] : audit[a][i] \in Entries
    BY <1>1
  <1>3. QED
    BY <1>1, <1>2 DEF Entries

\* A posting keeps the chain, because its writer holds the lock.
LEMMA WriteKeepsChain ==
  ASSUME IInv, NEW r \in Requests, pc[r] = "locked", ~Overdraws(r), Write(r)
  PROVE  AuditChained'
  <1> DEFINE a == call[r].agent
             n == Len(audit[a])
  <1>1. TypeOK /\ AuditChained /\ Appended(r)
    BY WriteAppends DEF IInv
  <1>2. /\ a \in Agents
        /\ balance'[a] = seen[r] + call[r].amount
        /\ DOMAIN audit[a] = 1..n
        /\ DOMAIN audit'[a] = 1..(n + 1)
        /\ Len(audit'[a]) = n + 1
        /\ audit'[a][n + 1].before = seen[r]
        /\ audit'[a][n + 1].amount = call[r].amount
        /\ audit'[a][n + 1].after = seen[r] + call[r].amount
        /\ \A i \in DOMAIN audit[a] : audit'[a][i] = audit[a][i]
        /\ \A b \in Agents \ {a} : audit'[b] = audit[b] /\ balance'[b] = balance[b]
    BY <1>1 DEF Appended
  <1>3. n \in Nat /\ (audit[a] = <<>> <=> n = 0)
    BY <1>1, <1>2, RowTypes
  <1>4. seen[r] = LastAfter(a)
    BY <1>2 DEF IInv, LockProtects, AuditChained
  <1> HIDE DEF a, n
  <1>5. ASSUME NEW b \in Agents
        PROVE  balance'[b] = LastAfter(b)'
    <2>1. CASE b = a
      <3>1. audit'[a] # <<>>
        BY <1>2, <1>3
      <3>2. QED
        BY <1>2, <2>1, <3>1 DEF LastAfter
    <2>2. CASE b # a
      BY <1>1, <1>2, <2>2 DEF LastAfter, AuditChained
    <2>3. QED
      BY <2>1, <2>2
  <1>6. ASSUME NEW b \in Agents, NEW i \in DOMAIN audit'[b]
        PROVE  /\ audit'[b][i].before = IF i = 1 THEN 0 ELSE audit'[b][i - 1].after
               /\ audit'[b][i].after = audit'[b][i].before + audit'[b][i].amount
    <2>1. CASE b # a
      <3>1. audit'[b] = audit[b] /\ i \in DOMAIN audit[b]
        BY <1>2, <1>6, <2>1
      <3>2. QED
        BY <1>1, <3>1 DEF AuditChained
    <2>2. CASE b = a /\ i \in DOMAIN audit[a]
      <3>1. i # 1 => i - 1 \in DOMAIN audit[a]
        BY <1>2, <1>3, <2>2
      <3>2. audit'[a][i] = audit[a][i] /\ (i # 1 => audit'[a][i - 1] = audit[a][i - 1])
        BY <1>2, <2>2, <3>1
      <3>3. /\ audit[a][i].before = IF i = 1 THEN 0 ELSE audit[a][i - 1].after
            /\ audit[a][i].after = audit[a][i].before + audit[a][i].amount
        BY <1>1, <1>2, <2>2 DEF AuditChained
      <3>4. QED
        BY <2>2, <3>2, <3>3
    <2>3. CASE b = a /\ i = n + 1
      <3>1. i = 1 <=> n = 0
        BY <1>3, <2>3
      <3>2. n # 0 => i - 1 = n /\ n \in DOMAIN audit[a]
        BY <1>2, <1>3, <2>3
      <3>3. LastAfter(a) = IF n = 0 THEN 0 ELSE audit[a][n].after
        BY <1>3 DEF LastAfter, n
      <3>4. n # 0 => audit'[a][i - 1] = audit[a][n]
        BY <1>2, <3>2
      <3>5. QED
        BY <1>2, <1>4, <2>3, <3>1, <3>3, <3>4
    <2>4. QED
      BY <1>2, <1>3, <1>6, <2>1, <2>2, <2>3
  <1>7. QED
    BY <1>5, <1>6 DEF AuditChained

\* A request still holding its lock has no audit row yet.
LEMMA LockedHasNoRow ==
  ASSUME IInv, NEW r \in Requests, pc[r] = "locked",
         NEW a \in Agents, NEW i \in DOMAIN audit[a]
  PROVE  audit[a][i].id # r
  BY DEF IInv, RowsOwned

\* A posting gives its request one row, and takes nobody's.
LEMMA WriteKeepsRows ==
  ASSUME IInv, NEW r \in Requests, pc[r] = "locked", ~Overdraws(r), Write(r),
         UNCHANGED call, NEW label \in Ended, Goto(r, label)
  PROVE  RowsOwned' /\ CommittedHasRow'
  <1> DEFINE a == call[r].agent
             n == Len(audit[a]) + 1
  <1>0. TypeOK /\ Appended(r)
    BY WriteAppends DEF IInv
  <1>1. /\ a \in Agents
        /\ n \in DOMAIN audit'[a]
        /\ DOMAIN audit'[a] = DOMAIN audit[a] \cup {n}
        /\ n \notin DOMAIN audit[a]
        /\ audit'[a][n].id = r
        /\ audit'[a][n].amount = call[r].amount
        /\ \A i \in DOMAIN audit[a] : audit'[a][i] = audit[a][i]
        /\ \A b \in Agents \ {a} : audit'[b] = audit[b]
    <2>1. LET m == Len(audit[a]) IN
            /\ a \in Agents
            /\ DOMAIN audit[a] = 1..m
            /\ DOMAIN audit'[a] = 1..(m + 1)
            /\ audit'[a][m + 1].id = r
            /\ audit'[a][m + 1].amount = call[r].amount
            /\ \A i \in DOMAIN audit[a] : audit'[a][i] = audit[a][i]
            /\ \A b \in Agents \ {a} : audit'[b] = audit[b]
      BY <1>0 DEF Appended
    <2>2. Len(audit[a]) \in Nat
      BY <1>0 DEF Appended
    <2> HIDE DEF a
    <2>3. QED
      BY <2>1, <2>2
  <1> HIDE DEF a, n
  <1>2. pc' = [pc EXCEPT ![r] = label] /\ pc \in [Requests -> {"idle"} \cup Running \cup Answers]
    BY <1>0 DEF Goto, TypeOK
  <1>3. \A b \in Agents : \A i \in DOMAIN audit[b] : audit[b][i].id \in Requests
    BY <1>0, RowTypes
  <1>4. ASSUME NEW b \in Agents, NEW i \in DOMAIN audit'[b]
        PROVE  LET e == audit'[b][i] IN
                 /\ pc'[e.id] \in Ended
                 /\ call[e.id].agent = b
                 /\ call[e.id].amount = e.amount
                 /\ \A j \in DOMAIN audit'[b] : audit'[b][j].id = e.id => i = j
    <2>1. CASE i \in DOMAIN audit[b]
      <3>1. audit'[b][i] = audit[b][i] /\ audit[b][i].id # r
        BY <1>1, <2>1, LockedHasNoRow
      <3>2. /\ pc'[audit[b][i].id] \in Ended
            /\ call[audit[b][i].id].agent = b
            /\ call[audit[b][i].id].amount = audit[b][i].amount
            /\ \A j \in DOMAIN audit[b] : audit[b][j].id = audit[b][i].id => i = j
        BY <1>2, <1>3, <2>1, <3>1 DEF IInv, RowsOwned
      <3>3. \A j \in DOMAIN audit'[b] : audit'[b][j].id = audit[b][i].id =>
               j \in DOMAIN audit[b] /\ audit'[b][j] = audit[b][j]
        BY <1>1, <3>1
      <3>4. QED
        BY <3>1, <3>2, <3>3
    <2>2. CASE i \notin DOMAIN audit[b]
      <3>1. b = a /\ i = n
        BY <1>1, <2>2
      <3>2. \A j \in DOMAIN audit'[a] : audit'[a][j].id = r => j = n
        BY <1>1, LockedHasNoRow
      <3>3. QED
        BY <1>1, <1>2, <3>1, <3>2 DEF a
    <2>3. QED
      BY <2>1, <2>2
  <1>5. RowsOwned'
    BY <1>4 DEF RowsOwned
  <1>6. ASSUME NEW q \in Requests, pc'[q] \in {"committed", "success"}
        PROVE  \E i \in DOMAIN audit'[call[q].agent] : audit'[call[q].agent][i].id = q
    <2>1. CASE q = r
      BY <1>1, <2>1 DEF a
    <2>2. CASE q # r
      <3>1. PICK i \in DOMAIN audit[call[q].agent] : audit[call[q].agent][i].id = q
        BY <1>2, <1>6, <2>2 DEF IInv, CommittedHasRow
      <3>2. call[q].agent \in Agents
        BY <1>0 DEF TypeOK
      <3>3. QED
        BY <1>1, <3>1, <3>2
    <2>3. QED
      BY <2>1, <2>2
  <1>7. CommittedHasRow'
    BY <1>6 DEF CommittedHasRow
  <1>8. QED
    BY <1>5, <1>7

(***************************************************************************)
(* A step that moves only the program counter of r, out of a place where   *)
(* it has no committed row to one where it needs none.                     *)
(***************************************************************************)
LEMMA MoveKeepsRows ==
  ASSUME IInv, NEW r \in Requests, NEW label,
         UNCHANGED <<rows, call>>, Goto(r, label),
         \/ pc[r] \notin Ended /\ label \notin {"committed", "success"}
         \/ pc[r] = "committed" /\ label \in Ended
  PROVE  AuditChained' /\ RowsOwned' /\ CommittedHasRow'
  <1>1. /\ pc' = [pc EXCEPT ![r] = label]
        /\ pc \in [Requests -> {"idle"} \cup Running \cup Answers]
        /\ audit' = audit /\ balance' = balance /\ call' = call
    BY DEF Goto, rows, IInv, TypeOK
  <1>2. \A a \in Agents : \A i \in DOMAIN audit[a] :
          audit[a][i].id \in Requests /\ pc'[audit[a][i].id] \in Ended
    BY <1>1, RowTypes DEF IInv, RowsOwned
  <1>3. AuditChained'
    BY <1>1 DEF IInv, AuditChained, LastAfter
  <1>4. RowsOwned'
    BY <1>1, <1>2 DEF IInv, RowsOwned
  <1>5. CommittedHasRow'
    BY <1>1 DEF IInv, CommittedHasRow
  <1>6. QED
    BY <1>3, <1>4, <1>5

-----------------------------------------------------------------------------
(***************************************************************************)
(* The lock protects the balance a request has read: the steps of other    *)
(* requests change neither, because to write they would need the lock.     *)
(***************************************************************************)
LEMMA NextLockProtects ==
  ASSUME IInv, [Next]_vars
  PROVE  LockProtects'
  <1>1. TypeOK /\ LockProtects
    BY DEF IInv
  <1>2. CASE \E a \in Agents : OpenRegister(a)
    BY <1>1, <1>2 DEF LockProtects, OpenRegister
  <1>3. ASSUME NEW r \in Requests, Receive(r) \/ NotFound(r) \/ Reply(r)
        PROVE  LockProtects'
    BY <1>1, <1>3 DEF TypeOK, LockProtects, Receive, NotFound, Reply, Goto, rows
  <1>4. ASSUME NEW r \in Requests, Acquire(r)
        PROVE  LockProtects'
    <2>1. lock[call[r].agent] = NoRequest
      BY <1>4 DEF Acquire, Free
    <2>2. \A q \in Requests : pc[q] = "locked" => call[q].agent # call[r].agent
      BY <1>1, <2>1, RegisterAssumption DEF LockProtects
    <2>3. QED
      BY <1>1, <1>4, <2>2 DEF TypeOK, LockProtects, Acquire, Goto, rows
  <1>5. ASSUME NEW r \in Requests, Reject(r) \/ Lose(r)
        PROVE  LockProtects'
    BY <1>1, <1>5 DEF TypeOK, LockProtects, Reject, Lose, Release, Goto, rows
  <1>6. ASSUME NEW r \in Requests, Commit(r) \/ CommitFails(r)
        PROVE  LockProtects'
    <2>1. \A q \in Requests \ {r} : pc[q] = "locked" =>
            call[q].agent # call[r].agent /\ lock[call[q].agent] # r
      BY <1>1, <1>6 DEF LockProtects, Commit, CommitFails
    <2>2. /\ \E label \in {"committed", "error"} : pc' = [pc EXCEPT ![r] = label]
          /\ lock' = [a \in Agents |-> IF lock[a] = r THEN NoRequest ELSE lock[a]]
          /\ call' = call /\ seen' = seen /\ registers' = registers
          /\ \A b \in Agents \ {call[r].agent} : balance'[b] = balance[b]
      BY <1>1, <1>6 DEF TypeOK, Commit, CommitFails, Write, Goto, Release, rows
    <2>3. \A q \in Requests : pc'[q] = "locked" => q # r /\ pc[q] = "locked"
      BY <1>1, <2>2 DEF TypeOK
    <2>4. QED
      BY <1>1, <2>1, <2>2, <2>3 DEF TypeOK, LockProtects
  <1>7. CASE UNCHANGED vars
    BY <1>1, <1>7 DEF LockProtects, vars
  <1>8. QED
    BY <1>2, <1>3, <1>4, <1>5, <1>6, <1>7, NextCases

\* The rest of the invariant, action by action.
LEMMA NextAudit ==
  ASSUME IInv, [Next]_vars
  PROVE  AuditChained' /\ RowsOwned' /\ CommittedHasRow'
  <1> USE DEF IInv
  <1>1. CASE \E a \in Agents : OpenRegister(a)
    BY <1>1 DEF AuditChained, LastAfter, RowsOwned, CommittedHasRow, OpenRegister
  <1>2. ASSUME NEW r \in Requests, Receive(r)
        PROVE  AuditChained' /\ RowsOwned' /\ CommittedHasRow'
    BY <1>2, MoveKeepsRows DEF Receive
  <1>3. ASSUME NEW r \in Requests, Acquire(r)
        PROVE  AuditChained' /\ RowsOwned' /\ CommittedHasRow'
    BY <1>3, MoveKeepsRows DEF Acquire
  <1>4. ASSUME NEW r \in Requests, NotFound(r)
        PROVE  AuditChained' /\ RowsOwned' /\ CommittedHasRow'
    BY <1>4, MoveKeepsRows DEF NotFound
  <1>5. ASSUME NEW r \in Requests, Reject(r)
        PROVE  AuditChained' /\ RowsOwned' /\ CommittedHasRow'
    BY <1>5, MoveKeepsRows DEF Reject
  <1>6. ASSUME NEW r \in Requests, Reply(r)
        PROVE  AuditChained' /\ RowsOwned' /\ CommittedHasRow'
    BY <1>6, MoveKeepsRows DEF Reply
  <1>7. ASSUME NEW r \in Requests, Lose(r)
        PROVE  AuditChained' /\ RowsOwned' /\ CommittedHasRow'
    BY <1>7, MoveKeepsRows DEF Lose
  <1>8. ASSUME NEW r \in Requests, Commit(r) \/ (CommitFails(r) /\ Write(r))
        PROVE  AuditChained' /\ RowsOwned' /\ CommittedHasRow'
    <2>1. /\ pc[r] = "locked" /\ ~Overdraws(r) /\ Write(r) /\ UNCHANGED call
          /\ Goto(r, "committed") \/ Goto(r, "error")
      BY <1>8 DEF Commit, CommitFails
    <2>2. QED
      BY <2>1, WriteKeepsChain, WriteKeepsRows
  <1>9. ASSUME NEW r \in Requests, CommitFails(r), UNCHANGED rows
        PROVE  AuditChained' /\ RowsOwned' /\ CommittedHasRow'
    BY <1>9, MoveKeepsRows DEF CommitFails
  <1>10. CASE UNCHANGED vars
    BY <1>10 DEF AuditChained, LastAfter, RowsOwned, CommittedHasRow, vars
  <1>11. QED
    BY <1>1, <1>2, <1>3, <1>4, <1>5, <1>6, <1>7, <1>8, <1>9, <1>10, NextCases DEF CommitFails

THEOREM Invariant == Spec => []IInv
  <1>1. Init => IInv
    BY InitIInv
  <1>2. IInv /\ [Next]_vars => IInv'
    BY NextTypeOK, NextLockProtects, NextAudit DEF IInv
  <1>3. QED
    BY <1>1, <1>2, PTL DEF Spec

(***************************************************************************)
(* The audit trail explains every balance: no concurrent provision loses   *)
(* an update.                                                              *)
(***************************************************************************)
THEOREM AuditTrailExplainsBalance == Spec => []AuditChained
  <1>1. IInv => AuditChained
    BY DEF IInv
  <1>2. QED
    BY <1>1, Invariant, PTL

(***************************************************************************)
(* A caller may trust the answers success, 400 and 404 of provision.       *)
(***************************************************************************)
THEOREM CallersMayTrustAnswers == Spec => []AnswersAreTrue
  <1>1. ASSUME IInv
        PROVE  AnswersAreTrue
    <2>1. TypeOK /\ RowsOwned /\ CommittedHasRow
      BY <1>1 DEF IInv
    <2>2. ASSUME NEW r \in Requests, pc[r] \in {"committed", "success"}
          PROVE  \E i \in RowsOf(r, call[r].agent) :
                   /\ RowsOf(r, call[r].agent) = {i}
                   /\ audit[call[r].agent][i].amount = call[r].amount
      <3>1. call[r].agent \in Agents
        BY <2>1 DEF TypeOK
      <3>2. PICK i \in DOMAIN audit[call[r].agent] : audit[call[r].agent][i].id = r
        BY <2>1, <2>2 DEF CommittedHasRow
      <3>3. /\ audit[call[r].agent][i].amount = call[r].amount
            /\ \A j \in DOMAIN audit[call[r].agent] : audit[call[r].agent][j].id = r => i = j
        BY <2>1, <3>1, <3>2 DEF RowsOwned
      <3>4. QED
        BY <3>2, <3>3 DEF RowsOf
    <2>3. ASSUME NEW r \in Requests, pc[r] \in {"rejected", "notfound"}, NEW a \in Agents
          PROVE  RowsOf(r, a) = {}
      BY <2>1, <2>3 DEF RowsOf, RowsOwned
    <2>4. QED
      BY <2>2, <2>3 DEF AnswersAreTrue
  <1>2. QED
    BY <1>1, Invariant, PTL

-----------------------------------------------------------------------------
(***************************************************************************)
(* The refinement: a posting of CashRegister is a posting of CashLedger,   *)
(* every other step of a request is invisible to it.                       *)
(***************************************************************************)
LEMMA WritePosts ==
  ASSUME IInv, NEW r \in Requests, pc[r] = "locked", ~Overdraws(r), Write(r)
  PROVE  Ledger!Next
  <1> DEFINE a == call[r].agent
             n == Len(audit[a])
             c == [id |-> r, agent |-> a, amount |-> call[r].amount]
             row(trail, b) == [id |-> trail.id, agent |-> b, amount |-> trail.amount]
  <1>1. TypeOK /\ Appended(r)
    BY WriteAppends DEF IInv
  <1>2. /\ a \in Agents
        /\ call[r].amount \in Amounts
        /\ call[r].amount \in Int
        /\ seen[r] = balance[a]
        /\ a \in registers
        /\ seen[r] \in Nat
    BY <1>1, RegisterAssumption DEF IInv, TypeOK, LockProtects
  <1>3. c \in [id : Requests, agent : Agents, amount : Amounts]
    BY <1>2
  <1>4. /\ balance' = [balance EXCEPT ![a] = balance[a] + call[r].amount]
        /\ registers' = registers
    BY <1>2 DEF Write
  <1>5. balance[a] + call[r].amount >= 0
    BY <1>2 DEF Overdraws
  <1>6. c \notin Posted
    <2>1. \A b \in Agents : \A i \in DOMAIN audit[b] : audit[b][i].id # r
      BY LockedHasNoRow
    <2>2. SUFFICES ASSUME c \in Posted
                   PROVE  FALSE
      OBVIOUS
    <2>3. PICK b \in Agents : \E i \in DOMAIN audit[b] : c = row(audit[b][i], b)
      BY <2>2 DEF Posted
    <2>4. QED
      BY <2>1, <2>3
  <1>7. Posted' = Posted \cup {c}
    <2>1. /\ n \in Nat
          /\ DOMAIN audit[a] = 1..n
          /\ DOMAIN audit'[a] = 1..(n + 1)
          /\ audit'[a][n + 1].id = r
          /\ audit'[a][n + 1].amount = call[r].amount
          /\ \A i \in DOMAIN audit[a] : audit'[a][i] = audit[a][i]
          /\ \A b \in Agents \ {a} : audit'[b] = audit[b]
      BY <1>1 DEF Appended
    <2> HIDE DEF a, n
    <2>2. DOMAIN audit'[a] = DOMAIN audit[a] \cup {n + 1} /\ n + 1 \in DOMAIN audit'[a]
      BY <2>1
    <2>3. ASSUME NEW p \in Posted'
          PROVE  p \in Posted \cup {c}
      <3>1. PICK b \in Agents : \E i \in DOMAIN audit'[b] : p = row(audit'[b][i], b)
        BY <2>3 DEF Posted
      <3>2. PICK i \in DOMAIN audit'[b] : p = row(audit'[b][i], b)
        BY <3>1
      <3>3. CASE i \in DOMAIN audit[b]
        <4>1. audit'[b][i] = audit[b][i]
          BY <2>1, <3>3
        <4>2. QED
          BY <3>2, <3>3, <4>1 DEF Posted
      <3>4. CASE i \notin DOMAIN audit[b]
        <4>1. b = a /\ i = n + 1
          BY <2>1, <2>2, <3>2, <3>4
        <4>2. QED
          BY <2>1, <3>2, <4>1
      <3>5. QED
        BY <3>3, <3>4
    <2>4. ASSUME NEW p \in Posted
          PROVE  p \in Posted'
      <3>1. PICK b \in Agents : \E i \in DOMAIN audit[b] : p = row(audit[b][i], b)
        BY <2>4 DEF Posted
      <3>2. PICK i \in DOMAIN audit[b] : p = row(audit[b][i], b)
        BY <3>1
      <3>3. i \in DOMAIN audit'[b] /\ audit'[b][i] = audit[b][i]
        BY <2>1, <2>2, <3>2
      <3>4. QED
        BY <3>2, <3>3 DEF Posted
    <2>5. c \in Posted'
      <3>1. c = row(audit'[a][n + 1], a)
        BY <2>1
      <3>2. QED
        BY <1>2, <2>2, <3>1 DEF Posted
    <2>6. QED
      BY <2>3, <2>4, <2>5
  <1> HIDE DEF c
  <1>8. c.agent = a /\ c.amount = call[r].amount
    BY DEF c
  <1>9. Ledger!Post(c)
    BY <1>2, <1>4, <1>5, <1>6, <1>7, <1>8 DEF Ledger!Post, Ledger!Accepts
  <1>10. QED
    BY <1>3, <1>9 DEF Ledger!Next

(***************************************************************************)
(* CashRegister implements CashLedger: to its callers, provision is an     *)
(* atomic posting that happens at most once and never overdraws.           *)
(***************************************************************************)
THEOREM RegisterImplementsLedger == Spec => ImplementsLedger
  <1>1. Init => Ledger!Init
    BY DEF Init, Ledger!Init, Posted
  <1>2. ASSUME IInv, [Next]_vars
        PROVE  [Ledger!Next]_(Ledger!vars)
    <2>1. CASE \E a \in Agents : OpenRegister(a)
      BY <2>1 DEF OpenRegister, Ledger!Next, Ledger!Open, Posted
    <2>2. ASSUME NEW r \in Requests, Commit(r) \/ (CommitFails(r) /\ Write(r))
          PROVE  Ledger!Next
      BY <1>2, <2>2, WritePosts DEF Commit, CommitFails
    <2>3. CASE UNCHANGED rows
      BY <2>3 DEF rows, Ledger!vars, Posted
    <2>4. QED
      BY <1>2, <2>1, <2>2, <2>3, NextCases
      DEF Receive, Acquire, NotFound, Reject, CommitFails, Reply, Lose, vars, rows
  <1>3. QED
    BY <1>1, <1>2, Invariant, PTL DEF Spec, ImplementsLedger, Ledger!Spec
=============================================================================
