------------------------- MODULE KenoRounds_proofs --------------------------
(***************************************************************************)
(* Proofs about KenoRounds, for every number of tickets, hits and draws.   *)
(*                                                                         *)
(* As long as the engine did not crash, draw ids only grow, so that a draw *)
(* is over once the next id is taken: what events, tickets and the table   *)
(* say of the current id are its numbers, and nothing is known of a later  *)
(* one (OneDrawPerId).  The gate is shut before the numbers are shown, as  *)
(* the loop does not go on when Redis did not take the phase; and a draw   *)
(* whose round was given up is never revealed (GateFollows).               *)
(***************************************************************************)
EXTENDS KenoRounds, SequenceTheorems, TLAPS

Undrawn == {"down", "top"}

\* The numbers of the round exist from idle on.
NumbersFixed == pc \notin Undrawn => numbers \in Numbers

\* d was not drawn with anything but n, and nothing is known of a draw to come.
Fits(d, n) ==
  /\ d <= drawId
  /\ d = drawId => n = numbers
  /\ draws[d] \in {NoNumbers, n}

\* The process has not started yet.
Unborn ==
  /\ drawId = 0 /\ history = 0 /\ numbers = NoNumbers
  /\ events = <<>> /\ locked = {}
  /\ draws = [d \in Draws |-> NoNumbers]
  /\ \A t \in Tickets : ticket[t].state # "settled"

OneDrawPerId ==
  /\ pc = "down" => Unborn
  /\ \A d \in Draws : d > drawId => draws[d] = NoNumbers
  /\ draws[drawId] \in {NoNumbers, numbers}
  /\ \A i \in DOMAIN events : Fits(events[i].draw, events[i].numbers)
  /\ \A t \in Tickets : ticket[t].state = "settled" => Fits(ticket[t].draw, ticket[t].numbers)

GateFollows ==
  /\ enabled
  /\ \A l \in locked : l.draw <= drawId
  /\ pc = "preLaunch" => gate.phase = "preLaunch"
  /\ GateShutOnceRevealed

\* The displays idle while the queue is flushed and bets are taken.
Idles == pc \in {"flush", "betting"} => shown.phase = "idle"

IInv ==
  /\ TypeOK
  /\ NumbersFixed
  /\ crashes = 0 => OneDrawPerId
  /\ crashes = 0 /\ switches = 0 => GateFollows
  /\ Idles
  /\ NoHitWaitsWhileIdle
-----------------------------------------------------------------------------
(* The steps.                                                              *)

USE DEF engine, redis, audit

\* Ids of draws.
LEMMA DrawIds ==
  /\ MaxDraw \in Nat /\ Seed \in Draws /\ 0 \in Draws /\ Draws = 0..MaxDraw
  /\ MaxCrashes \in Nat /\ MaxSwitches \in Nat
  <1>1. /\ MaxDraw \in Nat /\ Seed \in Nat /\ MaxDraw > Seed
        /\ MaxCrashes \in Nat /\ MaxSwitches \in Nat
    BY KenoAssumption
  <1>2. QED
    BY <1>1 DEF Draws

LEMMA InitInv == Init => IInv
  <1> SUFFICES ASSUME Init PROVE IInv
    OBVIOUS
  <1>1. TypeOK
    <2>1. At(0, "idle") \in [draw : Draws, phase : Phases]
          /\ At(0, "offline") \in [draw : Draws, phase : Phases]
      BY DrawIds DEF At, Phases
    <2>2. ticket \in [Tickets -> Ticket] /\ events \in Seq(Drawn)
      BY DrawIds, EmptySeq DEF Init, Ticket
    <2>3. /\ draws \in [Draws -> Numbers \cup {NoNumbers}]
          /\ hit \in [Hits -> {"none", "queued", "over"}]
      BY DEF Init
    <2>4. /\ drawId \in Draws /\ history \in Draws /\ locked \subseteq Drawn
          /\ crashes \in 0..MaxCrashes /\ switches \in 0..MaxSwitches
      BY DrawIds DEF Init
    <2>5. shown \in [draw : Draws, phase : Phases] /\ gate \in [draw : Draws, phase : Phases]
      BY <2>1 DEF Init
    <2>6. enabled \in BOOLEAN /\ failed \in BOOLEAN /\ numbers \in Numbers \cup {NoNumbers}
      BY DEF Init
    <2>7. QED
      BY <2>2, <2>3, <2>4, <2>5, <2>6 DEF TypeOK, Init
  <1>2. OneDrawPerId
    BY DrawIds DEF Init, OneDrawPerId, Unborn, Fits
  <1>3. NumbersFixed /\ GateFollows /\ Idles /\ NoHitWaitsWhileIdle
    BY DEF Init, NumbersFixed, Undrawn, GateFollows, GateShutOnceRevealed, Idles,
           NoHitWaitsWhileIdle, At
  <1>4. QED
    BY <1>1, <1>2, <1>3 DEF IInv

LEMMA StartStep ==
  ASSUME IInv, Start
  PROVE  IInv'
  <1>1. TypeOK'
    BY DrawIds DEF IInv, TypeOK, Start, LastDraw
  <1>2. NumbersFixed' /\ Idles' /\ NoHitWaitsWhileIdle'
    BY DEF IInv, Start, NumbersFixed, Undrawn, Idles, NoHitWaitsWhileIdle
  <1>3. crashes' = 0 => OneDrawPerId' /\ drawId <= drawId'
    BY DrawIds DEF IInv, TypeOK, Start, OneDrawPerId, Unborn, Fits
  <1>4. crashes' = 0 /\ switches' = 0 => GateFollows'
    BY <1>3, DrawIds
    DEF IInv, TypeOK, Start, GateFollows, GateShutOnceRevealed, OneDrawPerId, Unborn
  <1>5. QED
    BY <1>1, <1>2, <1>3, <1>4 DEF IInv

\* SetPhase, whatever the next step.
LEMMA PhaseSet ==
  ASSUME TypeOK, NEW d \in Draws, NEW name \in Phases, NEW next, SetPhase(d, name, next)
  PROVE  /\ shown' = At(d, name) /\ shown' \in [draw : Draws, phase : Phases]
         /\ gate' \in {gate, At(d, name)} /\ gate' \in [draw : Draws, phase : Phases]
         /\ pc' \in {next, "top"}
         /\ pc' # "top" => gate' = At(d, name)
         /\ failed' \in BOOLEAN
  <1>1. shown' = At(d, name) /\ At(d, name) \in [draw : Draws, phase : Phases]
    BY DEF SetPhase, At
  <1>2. \/ gate' = At(d, name) /\ pc' = next /\ failed' = failed
        \/ gate' \in {gate, At(d, name)} /\ pc' = "top" /\ failed' = TRUE
    BY <1>1 DEF SetPhase, Continue, StartOver
  <1>3. failed' \in BOOLEAN
    BY <1>2 DEF TypeOK
  <1>4. QED
    BY <1>1, <1>2, <1>3 DEF TypeOK

\* What is on its way to ticket-service.
LEMMA EventsTyped ==
  ASSUME TypeOK
  PROVE  \A i \in DOMAIN events : events[i].draw \in Draws /\ events[i].numbers \in Numbers
  <1>1. events \in Seq(Drawn)
    BY DEF TypeOK
  <1>2. \A i \in DOMAIN events : events[i] \in Drawn
    BY <1>1, ElementOfSeq, LenProperties
  <1>3. QED
    BY <1>2 DEF Drawn

\* The draw goes on, or the loop starts over: nothing of it changes.
LEMMA SameDraw ==
  ASSUME IInv, UNCHANGED <<drawId, numbers, draws, events, ticket, crashes>>,
         pc # "down", pc' # "down"
  PROVE  crashes' = 0 => OneDrawPerId'
  BY DEF IInv, OneDrawPerId, Fits

LEMMA PauseStep ==
  ASSUME IInv, Pause
  PROVE  IInv'
  <1>1. TypeOK /\ drawId \in Draws /\ "idle" \in Phases
    BY DEF IInv, TypeOK, Phases
  <1>2. pc = "top" /\ pc' = "top" /\ ~enabled /\ SetPhase(drawId, "idle", "top")
    BY <1>1, PhaseSet DEF Pause
  <1>3. TypeOK'
    BY <1>1, <1>2, PhaseSet DEF TypeOK, Pause
  <1>4. NumbersFixed' /\ Idles' /\ NoHitWaitsWhileIdle'
    BY <1>2 DEF NumbersFixed, Undrawn, Idles, NoHitWaitsWhileIdle
  <1>5. crashes' = 0 => OneDrawPerId'
    BY <1>2, SameDraw DEF Pause
  <1>6. crashes' = 0 /\ switches' = 0 => GateFollows'
    BY <1>2 DEF IInv, Pause, GateFollows
  <1>7. QED
    BY <1>3, <1>4, <1>5, <1>6 DEF IInv

LEMMA EnterIdleStep ==
  ASSUME IInv, EnterIdle
  PROVE  IInv'
  <1>1. /\ TypeOK /\ drawId \in Draws /\ drawId' = drawId + 1 /\ drawId' \in Draws
        /\ "idle" \in Phases /\ numbers' \in Numbers
    BY DrawIds DEF IInv, TypeOK, EnterIdle, NextDraw, Phases
  <1>2. pc = "top" /\ pc' \in {"flush", "top"} /\ SetPhase(drawId', "idle", "flush")
    BY <1>1, PhaseSet DEF EnterIdle
  <1>3. TypeOK'
    BY <1>1, <1>2, PhaseSet DEF TypeOK, EnterIdle
  <1>4. NumbersFixed' /\ Idles' /\ NoHitWaitsWhileIdle'
    BY <1>1, <1>2, PhaseSet DEF NumbersFixed, Undrawn, Idles, NoHitWaitsWhileIdle, At
  <1>5. ASSUME crashes' = 0
        PROVE  OneDrawPerId'
    <2>1. /\ OneDrawPerId /\ pc' # "down"
          /\ UNCHANGED <<draws, events, ticket>>
      BY <1>2, <1>5 DEF IInv, EnterIdle
    <2>2. \A d \in Draws : d <= drawId => d <= drawId' /\ d # drawId'
      BY <1>1, DrawIds
    <2>3. \A d \in Draws : d > drawId' => d > drawId
      BY <1>1, DrawIds
    <2>4. draws[drawId'] = NoNumbers
      BY <1>1, <2>1, DrawIds DEF OneDrawPerId
    <2>5. \A t \in Tickets : ticket[t].draw \in Draws
      BY <1>1 DEF TypeOK, Ticket
    <2>6. ASSUME NEW d \in Draws, NEW n, Fits(d, n)
          PROVE  Fits(d, n)'
      BY <2>1, <2>2, <2>6 DEF Fits
    <2>7. \A i \in DOMAIN events : Fits(events[i].draw, events[i].numbers)'
      BY <1>1, <2>1, <2>6, EventsTyped DEF OneDrawPerId
    <2>8. \A t \in Tickets : ticket[t].state = "settled" =>
             Fits(ticket[t].draw, ticket[t].numbers)'
      BY <2>1, <2>5, <2>6 DEF OneDrawPerId
    <2>9. QED
      BY <2>1, <2>3, <2>4, <2>7, <2>8 DEF OneDrawPerId
  <1>6. crashes' = 0 /\ switches' = 0 => GateFollows'
    BY <1>1, <1>2, PhaseSet, DrawIds
    DEF IInv, TypeOK, EnterIdle, GateFollows, GateShutOnceRevealed, At, Drawn
  <1>7. QED
    BY <1>3, <1>4, <1>5, <1>6 DEF IInv

LEMMA FlushHitsStep ==
  ASSUME IInv, FlushHits
  PROVE  IInv'
  <1>1. TypeOK'
    BY DEF IInv, TypeOK, FlushHits, Flush
  <1>2. NumbersFixed' /\ Idles'
    BY DEF IInv, FlushHits, NumbersFixed, Undrawn, Idles
  <1>3. NoHitWaitsWhileIdle'
    BY DEF FlushHits, Flush, NoHitWaitsWhileIdle
  <1>4. crashes' = 0 => OneDrawPerId'
    BY SameDraw DEF FlushHits
  <1>5. crashes' = 0 /\ switches' = 0 => GateFollows'
    BY DEF IInv, FlushHits, GateFollows, GateShutOnceRevealed
  <1>6. QED
    BY <1>1, <1>2, <1>3, <1>4, <1>5 DEF IInv

LEMMA EnterPreLaunchStep ==
  ASSUME IInv, EnterPreLaunch
  PROVE  IInv'
  <1>1. TypeOK /\ drawId \in Draws /\ "preLaunch" \in Phases
    BY DEF IInv, TypeOK, Phases
  <1>2. pc = "betting" /\ pc' \in {"preLaunch", "top"} /\ SetPhase(drawId, "preLaunch", "preLaunch")
    BY <1>1, PhaseSet DEF EnterPreLaunch
  <1>3. TypeOK'
    BY <1>1, <1>2, PhaseSet DEF TypeOK, EnterPreLaunch
  <1>4. NumbersFixed' /\ Idles' /\ NoHitWaitsWhileIdle'
    BY <1>2 DEF IInv, EnterPreLaunch, NumbersFixed, Undrawn, Idles, NoHitWaitsWhileIdle
  <1>5. crashes' = 0 => OneDrawPerId'
    BY <1>2, SameDraw DEF EnterPreLaunch
  <1>6. crashes' = 0 /\ switches' = 0 => GateFollows'
    BY <1>1, <1>2, PhaseSet DEF IInv, EnterPreLaunch, GateFollows, GateShutOnceRevealed, At
  <1>7. QED
    BY <1>3, <1>4, <1>5, <1>6 DEF IInv

\* The one step that shows numbers: the gate is shut by now.
LEMMA RevealStep ==
  ASSUME IInv, Reveal
  PROVE  IInv'
  <1>1. TypeOK /\ drawId \in Draws /\ "draw" \in Phases /\ numbers \in Numbers
    BY DEF IInv, TypeOK, Phases, Reveal, NumbersFixed, Undrawn
  <1>2. pc = "preLaunch" /\ pc' \in {"draw", "top"} /\ SetPhase(drawId, "draw", "draw")
    BY <1>1, PhaseSet DEF Reveal
  <1>3. TypeOK'
    BY <1>1, <1>2, PhaseSet DEF TypeOK, Reveal, Drawn
  <1>4. NumbersFixed' /\ Idles' /\ NoHitWaitsWhileIdle'
    BY <1>1, <1>2 DEF Reveal, NumbersFixed, Undrawn, Idles, NoHitWaitsWhileIdle
  <1>5. crashes' = 0 => OneDrawPerId'
    BY <1>2, SameDraw DEF Reveal
  <1>6. crashes' = 0 /\ switches' = 0 => GateFollows'
    BY <1>1, <1>2, PhaseSet, DrawIds DEF IInv, Reveal, GateFollows, GateShutOnceRevealed, At
  <1>7. QED
    BY <1>3, <1>4, <1>5, <1>6 DEF IInv

LEMMA RecordStep ==
  ASSUME IInv, Record
  PROVE  IInv'
  <1>1. drawId \in Draws /\ numbers \in Numbers /\ pc = "draw" /\ pc' = "recorded"
    BY DEF IInv, TypeOK, Record, NumbersFixed, Undrawn
  <1>2. /\ draws' \in [Draws -> Numbers \cup {NoNumbers}]
        /\ \A d \in Draws : draws'[d] = draws[d] \/ (d = drawId /\ draws'[d] = numbers)
    <2>1. draws \in [Draws -> Numbers \cup {NoNumbers}]
      BY DEF IInv, TypeOK
    <2>2. draws' = draws \/ draws' = [draws EXCEPT ![drawId] = numbers]
      BY DEF Record
    <2>3. QED
      BY <1>1, <2>1, <2>2
  <1>3. TypeOK'
    BY <1>1, <1>2 DEF IInv, TypeOK, Record
  <1>4. NumbersFixed' /\ Idles' /\ NoHitWaitsWhileIdle'
    BY <1>1 DEF Record, NumbersFixed, Undrawn, Idles, NoHitWaitsWhileIdle
  <1>5. ASSUME crashes' = 0
        PROVE  OneDrawPerId'
    <2>1. /\ OneDrawPerId /\ pc' # "down" /\ TypeOK
          /\ UNCHANGED <<drawId, numbers, events, ticket>>
      BY <1>1, <1>5 DEF IInv, Record
    <2>2. \A t \in Tickets : ticket[t].draw \in Draws
      BY <2>1 DEF TypeOK, Ticket
    <2>3. ASSUME NEW d \in Draws, NEW n, Fits(d, n)
          PROVE  Fits(d, n)'
      BY <1>2, <2>1, <2>3 DEF Fits
    <2>4. \A i \in DOMAIN events : Fits(events[i].draw, events[i].numbers)'
      BY <2>1, <2>3, EventsTyped DEF OneDrawPerId
    <2>5. \A t \in Tickets : ticket[t].state = "settled" =>
             Fits(ticket[t].draw, ticket[t].numbers)'
      BY <2>1, <2>2, <2>3 DEF OneDrawPerId
    <2>6. /\ \A d \in Draws : d > drawId' => draws'[d] = NoNumbers
          /\ draws'[drawId'] \in {NoNumbers, numbers'}
      BY <1>1, <1>2, <2>1, DrawIds DEF OneDrawPerId
    <2>7. QED
      BY <2>1, <2>4, <2>5, <2>6 DEF OneDrawPerId
  <1>6. crashes' = 0 /\ switches' = 0 => GateFollows'
    BY <1>1 DEF IInv, Record, GateFollows, GateShutOnceRevealed
  <1>7. QED
    BY <1>3, <1>4, <1>5, <1>6 DEF IInv

LEMMA PublishStep ==
  ASSUME IInv, Publish
  PROVE  IInv'
  <1>1. /\ drawId \in Draws /\ numbers \in Numbers /\ pc = "recorded"
        /\ pc' \in {"published", "top"} /\ failed' \in BOOLEAN
        /\ Finished \in Drawn /\ events \in Seq(Drawn)
        /\ events' \in {events, Append(events, Finished)}
    BY DEF IInv, TypeOK, Publish, NumbersFixed, Undrawn, Continue, StartOver, Finished, Drawn
  <1>2. /\ events' \in Seq(Drawn)
        /\ \A i \in DOMAIN events' : (i \in DOMAIN events /\ events'[i] = events[i])
                                      \/ events'[i] = Finished
    BY <1>1, AppendProperties, LenProperties
  <1>3. TypeOK'
    BY <1>1, <1>2 DEF IInv, TypeOK, Publish
  <1>4. NumbersFixed' /\ Idles' /\ NoHitWaitsWhileIdle'
    BY <1>1 DEF Publish, NumbersFixed, Undrawn, Idles, NoHitWaitsWhileIdle
  <1>5. ASSUME crashes' = 0
        PROVE  OneDrawPerId'
    <2>1. /\ OneDrawPerId /\ pc' # "down"
          /\ UNCHANGED <<drawId, numbers, draws, ticket>>
      BY <1>1, <1>5 DEF IInv, Publish
    <2>2. Fits(drawId, numbers)
      BY <1>1, <2>1, DrawIds DEF OneDrawPerId, Fits
    <2>3. \A i \in DOMAIN events' : Fits(events'[i].draw, events'[i].numbers)
      BY <1>2, <2>1, <2>2 DEF OneDrawPerId, Finished
    <2>4. QED
      BY <2>1, <2>3 DEF OneDrawPerId, Fits
  <1>6. crashes' = 0 /\ switches' = 0 => GateFollows'
    BY <1>1 DEF IInv, Publish, GateFollows, GateShutOnceRevealed
  <1>7. QED
    BY <1>3, <1>4, <1>5, <1>6 DEF IInv

LEMMA ArchiveStep ==
  ASSUME IInv, Archive
  PROVE  IInv'
  <1>1. /\ pc = "published" /\ pc' \in {"archived", "top"} /\ failed' \in BOOLEAN
        /\ history' \in {history, drawId}
    BY DEF IInv, TypeOK, Archive, Continue, StartOver
  <1>2. TypeOK'
    BY <1>1 DEF IInv, TypeOK, Archive
  <1>3. NumbersFixed' /\ Idles' /\ NoHitWaitsWhileIdle'
    BY <1>1 DEF IInv, Archive, NumbersFixed, Undrawn, Idles, NoHitWaitsWhileIdle
  <1>4. crashes' = 0 => OneDrawPerId'
    BY <1>1, SameDraw DEF Archive
  <1>5. crashes' = 0 /\ switches' = 0 => GateFollows'
    BY <1>1 DEF IInv, Archive, GateFollows, GateShutOnceRevealed
  <1>6. QED
    BY <1>2, <1>3, <1>4, <1>5 DEF IInv

LEMMA EnterResultsStep ==
  ASSUME IInv, EnterResults
  PROVE  IInv'
  <1>1. TypeOK /\ drawId \in Draws /\ "results" \in Phases
    BY DEF IInv, TypeOK, Phases
  <1>2. pc = "archived" /\ pc' = "top" /\ SetPhase(drawId, "results", "top")
    BY <1>1, PhaseSet DEF EnterResults
  <1>3. TypeOK'
    BY <1>1, <1>2, PhaseSet DEF TypeOK, EnterResults
  <1>4. NumbersFixed' /\ Idles' /\ NoHitWaitsWhileIdle'
    BY <1>2 DEF NumbersFixed, Undrawn, Idles, NoHitWaitsWhileIdle
  <1>5. crashes' = 0 => OneDrawPerId'
    BY <1>2, SameDraw DEF EnterResults
  <1>6. crashes' = 0 /\ switches' = 0 => GateFollows'
    BY <1>1, <1>2, PhaseSet DEF IInv, EnterResults, GateFollows, GateShutOnceRevealed, At
  <1>7. QED
    BY <1>3, <1>4, <1>5, <1>6 DEF IInv

\* A crash ends what is claimed of one run of the process.
LEMMA CrashStep ==
  ASSUME IInv, Crash
  PROVE  IInv'
  <1>1. crashes' # 0
    BY DEF IInv, TypeOK, Crash
  <1>2. TypeOK'
    BY DrawIds, KenoAssumption DEF IInv, TypeOK, Crash, At, Phases
  <1>3. NumbersFixed' /\ Idles' /\ NoHitWaitsWhileIdle'
    BY DEF Crash, NumbersFixed, Undrawn, Idles, NoHitWaitsWhileIdle
  <1>4. QED
    BY <1>1, <1>2, <1>3 DEF IInv

LEMMA SwitchStep ==
  ASSUME IInv, Switch
  PROVE  IInv'
  <1>1. switches' # 0
    BY DEF IInv, TypeOK, Switch
  <1>2. TypeOK'
    BY KenoAssumption DEF IInv, TypeOK, Switch
  <1>3. NumbersFixed' /\ Idles' /\ NoHitWaitsWhileIdle'
    BY DEF IInv, Switch, NumbersFixed, Undrawn, Idles, NoHitWaitsWhileIdle
  <1>4. crashes' = 0 => OneDrawPerId'
    BY DEF IInv, Switch, OneDrawPerId, Unborn, Fits
  <1>5. QED
    BY <1>1, <1>2, <1>3, <1>4 DEF IInv

LEMMA ConsumeHitStep ==
  ASSUME IInv, NEW h \in Hits, ConsumeHit(h)
  PROVE  IInv'
  <1>1. TypeOK'
    BY DEF IInv, TypeOK, ConsumeHit
  <1>2. NumbersFixed' /\ Idles'
    BY DEF IInv, ConsumeHit, NumbersFixed, Undrawn, Idles
  <1>3. NoHitWaitsWhileIdle'
    BY DEF IInv, TypeOK, ConsumeHit, Idles, NoHitWaitsWhileIdle
  <1>4. crashes' = 0 => OneDrawPerId'
    BY DEF IInv, ConsumeHit, OneDrawPerId, Unborn, Fits
  <1>5. crashes' = 0 /\ switches' = 0 => GateFollows'
    BY DEF IInv, ConsumeHit, GateFollows, GateShutOnceRevealed
  <1>6. QED
    BY <1>1, <1>2, <1>3, <1>4, <1>5 DEF IInv

\* Ticket-service takes a sale in: no ticket is settled by it.
LEMMA SaleStep ==
  ASSUME IInv, NEW t \in Tickets, PassGate(t) \/ Commit(t)
  PROVE  IInv'
  <1>1. /\ ticket' \in [Tickets -> Ticket]
        /\ \A u \in Tickets : ticket'[u].state = "settled" => ticket'[u] = ticket[u]
        /\ UNCHANGED <<engine, redis, draws, events, hit, audit>>
    <2>1. ticket \in [Tickets -> Ticket] /\ gate.draw \in Draws
      BY DEF IInv, TypeOK
    <2>2. CASE PassGate(t)
      BY <2>1, <2>2 DEF PassGate, Ticket
    <2>3. CASE Commit(t)
      BY <2>1, <2>3 DEF Commit, Ticket
    <2>4. QED
      BY <2>2, <2>3
  <1>2. TypeOK'
    BY <1>1 DEF IInv, TypeOK
  <1>3. NumbersFixed' /\ Idles' /\ NoHitWaitsWhileIdle'
    BY <1>1 DEF IInv, NumbersFixed, Undrawn, Idles, NoHitWaitsWhileIdle
  <1>4. crashes' = 0 => OneDrawPerId'
    BY <1>1 DEF IInv, OneDrawPerId, Unborn, Fits
  <1>5. crashes' = 0 /\ switches' = 0 => GateFollows'
    BY <1>1 DEF IInv, GateFollows, GateShutOnceRevealed
  <1>6. QED
    BY <1>2, <1>3, <1>4, <1>5 DEF IInv

\* A settlement copies the event, which fits what is recorded.
LEMMA SettleStep ==
  ASSUME IInv, Settle
  PROVE  IInv'
  <1> DEFINE e == Head(events)
  <1>1. /\ events \in Seq(Drawn) /\ events # <<>>
        /\ 1 \in DOMAIN events /\ e = events[1] /\ e \in Drawn
        /\ events' = Tail(events) /\ events' \in Seq(Drawn)
        /\ \A i \in DOMAIN events' : i + 1 \in DOMAIN events /\ events'[i] = events[i + 1]
    <2>1. events \in Seq(Drawn) /\ events # <<>> /\ events' = Tail(events)
      BY DEF IInv, TypeOK, Settle
    <2>2. /\ e \in Drawn /\ e = events[1] /\ events' \in Seq(Drawn)
          /\ Len(events) \in Nat /\ Len(events) > 0 /\ Len(events') = Len(events) - 1
          /\ \A i \in 1..Len(events') : events'[i] = events[i + 1]
      BY <2>1, HeadTailProperties, EmptySeq, LenProperties
    <2>3. DOMAIN events = 1..Len(events) /\ DOMAIN events' = 1..Len(events')
      BY <2>1, <2>2, LenProperties
    <2>4. QED
      BY <2>1, <2>2, <2>3
  <1>2. /\ ticket' \in [Tickets -> Ticket]
        /\ \A t \in Tickets : ticket'[t].state = "settled" =>
              \/ ticket'[t] = ticket[t]
              \/ ticket'[t].draw = e.draw /\ ticket'[t].numbers = e.numbers
        /\ UNCHANGED <<engine, redis, draws, hit, audit>>
    BY <1>1 DEF IInv, TypeOK, Settle, Ticket, Drawn
  <1>3. TypeOK'
    BY <1>1, <1>2 DEF IInv, TypeOK
  <1>4. NumbersFixed' /\ Idles' /\ NoHitWaitsWhileIdle'
    BY <1>2 DEF IInv, NumbersFixed, Undrawn, Idles, NoHitWaitsWhileIdle
  <1>5. crashes' = 0 => OneDrawPerId'
    <2> SUFFICES ASSUME crashes = 0 PROVE OneDrawPerId'
      BY <1>2
    <2>1. OneDrawPerId /\ Fits(e.draw, e.numbers)
      BY <1>1 DEF IInv, OneDrawPerId
    <2>2. pc # "down"
      BY <1>1, <2>1 DEF OneDrawPerId, Unborn
    <2>3. QED
      BY <1>1, <1>2, <2>1, <2>2 DEF OneDrawPerId, Fits
  <1>6. crashes' = 0 /\ switches' = 0 => GateFollows'
    BY <1>2 DEF IInv, GateFollows, GateShutOnceRevealed
  <1>7. QED
    BY <1>3, <1>4, <1>5, <1>6 DEF IInv

LEMMA NextInv == IInv /\ [Next]_vars => IInv'
  <1> SUFFICES ASSUME IInv, [Next]_vars PROVE IInv'
    OBVIOUS
  <1>1. CASE Loop
    BY <1>1, StartStep, PauseStep, EnterIdleStep, FlushHitsStep, EnterPreLaunchStep, RevealStep,
       RecordStep, PublishStep, ArchiveStep, EnterResultsStep DEF Loop
  <1>2. CASE Crash \/ Switch \/ Settle
    BY <1>2, CrashStep, SwitchStep, SettleStep
  <1>3. CASE \E h \in Hits : ConsumeHit(h)
    BY <1>3, ConsumeHitStep
  <1>4. CASE \E t \in Tickets : PassGate(t) \/ Commit(t)
    BY <1>4, SaleStep
  <1>5. CASE UNCHANGED vars
    BY <1>5 DEF vars, IInv, TypeOK, NumbersFixed, OneDrawPerId, Unborn, Fits, GateFollows,
       GateShutOnceRevealed, Idles, NoHitWaitsWhileIdle
  <1>6. QED
    BY <1>1, <1>2, <1>3, <1>4, <1>5 DEF Next
-----------------------------------------------------------------------------
\* The inductive invariant: until a crash an id has one draw, and the gate is shut on it
\* before it is shown.
THEOREM Invariant == Spec => []IInv
  BY InitInv, NextInv, PTL DEF Spec

\* The loop, the queues and the tickets keep their types, crashes included.
THEOREM TypeCorrect == Spec => []TypeOK
  <1>1. IInv => TypeOK
    BY DEF IInv
  <1>2. QED
    BY Invariant, <1>1, PTL

\* AuditSurvivesFailures: whatever fails in Redis or in the database, a ticket is settled
\* with the numbers keno_draws has for its draw (Record, Publish, process_keno_settlement).
THEOREM AuditAgrees == Spec => []AuditSurvivesFailures
  <1>1. IInv => AuditSurvivesFailures
    BY DEF IInv, OneDrawPerId, Fits, AuditSurvivesFailures, SettledAsRecorded
  <1>2. QED
    BY Invariant, <1>1, PTL

\* GateSurvivesFailures: no failure of Redis leaves the betting gate open on a draw the
\* displays have seen (_set_phase, game_loop).
THEOREM GateIsShut == Spec => []GateSurvivesFailures
  <1>1. IInv => GateSurvivesFailures
    BY DEF IInv, GateFollows, GateSurvivesFailures
  <1>2. QED
    BY Invariant, <1>1, PTL

\* NoHitWaitsWhileIdle: the two tasks that share pending_hits leave none in it while bets
\* are taken, through crashes as well.
THEOREM HitsAreCelebrated == Spec => []NoHitWaitsWhileIdle
  <1>1. IInv => NoHitWaitsWhileIdle
    BY DEF IInv
  <1>2. QED
    BY Invariant, <1>1, PTL
=============================================================================
