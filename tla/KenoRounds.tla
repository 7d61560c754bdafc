----------------------------- MODULE KenoRounds -----------------------------
(***************************************************************************)
(* The draws of game-keno-service and what depends on their numbering.     *)
(*                                                                         *)
(*  - game_loop is one asyncio task that walks through idle, preLaunch,    *)
(*    draw and results.  Any exception sends it back to the top, to the    *)
(*    next draw id; a restart takes the id from keno:history in Redis.     *)
(*  - keno:current_state in Redis is the betting gate ticket-service reads.*)
(*  - ROUND_FINISHED settles the tickets of a draw id; keno_draws keeps    *)
(*    the draw of an id for GET /verify.                                   *)
(*  - consume_jackpot_hit is a second task: it celebrates a hit at once    *)
(*    while the displays idle, and queues it for the loop otherwise.       *)
(*                                                                         *)
(* How one round's tickets are settled and paid, and what happens when an  *)
(* event is lost, is TicketLifecycle's subject; here a settlement is one   *)
(* step and every event arrives.                                           *)
(***************************************************************************)
EXTENDS Naturals, FiniteSets, Sequences

CONSTANTS
  Tickets,
  Numbers,      \* the outcomes of a draw
  NoNumbers,
  Hits,         \* jackpot hits relayed to this engine
  Seed,         \* INITIAL_HISTORY_SEED_COUNT
  MaxDraw,      \* the last draw id: a bound of the model
  MaxCrashes,   \* crashes of the engine: a bound of the model
  MaxSwitches,  \* how often an operator flips "enabled": a bound of the model
  Faults        \* the failures that may happen: a subset of AllFaults

AllFaults ==
  { "redis",     \* a Redis command of the loop raises, applied or not
    "database" } \* the commit of the draw fails

ASSUME KenoAssumption ==
  /\ NoNumbers \notin Numbers
  /\ Seed \in Nat \ {0}
  /\ MaxDraw \in Nat /\ MaxDraw > Seed
  /\ MaxCrashes \in Nat
  /\ MaxSwitches \in Nat
  /\ Faults \subseteq AllFaults

VARIABLES
  pc,        \* the await of game_loop that comes next
  drawId,    \* current_draw_id
  numbers,   \* the numbers of the round, private until the draw
  shown,     \* current_phase_state: what the displays are told
  gate,      \* keno:current_state in Redis
  history,   \* the highest round_id in keno:history, 0 when it is empty
  draws,     \* the keno_draws table
  enabled,   \* "enabled" in keno:settings
  events,    \* ROUND_FINISHED on its way to ticket-service
  ticket,    \* what ticket-service knows of each ticket
  hit,       \* each jackpot hit: pending_hits holds those that are "queued"
  locked,    \* the draws the displays have seen (history)
  failed,    \* a Redis command of the loop has failed (history)
  crashes,
  switches

engine == <<pc, drawId, numbers, shown>>
redis == <<gate, history, enabled>>
audit == <<locked, failed, crashes, switches>>
vars == <<engine, redis, draws, events, ticket, hit, audit>>

Draws == 0..MaxDraw
Phases == {"offline", "idle", "preLaunch", "draw", "results"}
Drawn == [draw : Draws, numbers : Numbers]
Ticket == [state : {"new", "gated", "sold", "settled"}, draw : Draws,
           numbers : Numbers \cup {NoNumbers}]
At(d, name) == [draw |-> d, phase |-> name]

TypeOK ==
  /\ pc \in {"down", "top", "flush", "betting", "preLaunch", "draw",
             "recorded", "published", "archived"}
  /\ drawId \in Draws
  /\ numbers \in Numbers \cup {NoNumbers}
  /\ shown \in [draw : Draws, phase : Phases]
  /\ gate \in [draw : Draws, phase : Phases]
  /\ history \in Draws
  /\ draws \in [Draws -> Numbers \cup {NoNumbers}]
  /\ enabled \in BOOLEAN
  /\ events \in Seq(Drawn)
  /\ ticket \in [Tickets -> Ticket]
  /\ hit \in [Hits -> {"none", "queued", "over"}]
  /\ locked \subseteq Drawn
  /\ failed \in BOOLEAN
  /\ crashes \in 0..MaxCrashes
  /\ switches \in 0..MaxSwitches

Init ==
  /\ pc = "down"
  /\ drawId = 0
  /\ numbers = NoNumbers
  /\ shown = At(0, "idle")
  /\ gate = At(0, "offline")
  /\ history = 0
  /\ draws = [d \in Draws |-> NoNumbers]
  /\ enabled = TRUE
  /\ events = <<>>
  /\ ticket = [t \in Tickets |-> [state |-> "new", draw |-> 0, numbers |-> NoNumbers]]
  /\ hit = [h \in Hits |-> "none"]
  /\ locked = {}
  /\ failed = FALSE
  /\ crashes = 0
  /\ switches = 0
-----------------------------------------------------------------------------
(* What the steps of the loop are made of.                                 *)

\* A Redis command of the loop went through; or it raised, and game_loop
\* sleeps 5 s and starts over.
Continue(next) == pc' = next /\ UNCHANGED failed
StartOver == "redis" \in Faults /\ pc' = "top" /\ failed' = TRUE

\* Mutant of SetPhase: an error of Redis is logged and the loop goes on.
SetPhaseUnchecked(d, name, next) ==
  /\ shown' = At(d, name)
  /\ pc' = next
  /\ \/ gate' = shown' /\ UNCHANGED failed
     \/ "redis" \in Faults /\ failed' = TRUE /\ UNCHANGED gate

\* The displays hear of the phase before the gate of ticket-service does.
SetPhase(d, name, next) ==
  /\ shown' = At(d, name)
  /\ \/ gate' = shown' /\ Continue(next)
     \/ gate' \in {gate, shown'} /\ StartOver

\* Mutant of NextDraw: the id is taken from the history in every round.
NextDrawOfHistory(d) == history + 1

NextDraw(d) == d + 1

\* Mutant of LastDraw: a restart goes on from the draw the gate shows.
LastDrawOfGate(past) == IF gate.draw > past THEN gate.draw ELSE past

LastDraw(past) == past

\* Mutant of Flush: the queue of hits is left for later.
FlushNone(queue) == queue

\* The hits that landed since the last idle phase are celebrated.
Flush(queue) == [h \in Hits |-> IF queue[h] = "queued" THEN "over" ELSE queue[h]]
-----------------------------------------------------------------------------
(* game_loop.                                                              *)

\* The process starts: an empty history, or one that cannot be read, is
\* filled with synthetic draws 1..Seed.  A failed write of those is ignored.
Start ==
  /\ pc = "down"
  /\ pc' = "top"
  /\ \/ history > 0 /\ drawId' = LastDraw(history) /\ UNCHANGED <<history, failed>>
     \/ history = 0 /\ drawId' = Seed /\ history' = Seed /\ UNCHANGED failed
     \/ /\ "redis" \in Faults
        /\ drawId' = Seed
        /\ history' \in {history, IF history > Seed THEN history ELSE Seed}
        /\ failed' = TRUE
  /\ UNCHANGED <<numbers, shown, gate, enabled, draws, events, ticket, hit, locked,
                 crashes, switches>>

\* Maintenance: the loop shows an idle phase under the current draw id.
Pause ==
  /\ pc = "top"
  /\ ~enabled
  /\ SetPhase(drawId, "idle", "top")
  /\ UNCHANGED <<drawId, numbers, history, enabled, draws, events, ticket, hit, locked,
                 crashes, switches>>

\* The next draw id; its numbers are fixed before the gate opens.  When the
\* settings cannot be read the defaults hold, and by default Keno is enabled.
EnterIdle ==
  /\ pc = "top"
  /\ enabled \/ "redis" \in Faults
  /\ drawId < MaxDraw
  /\ drawId' = NextDraw(drawId)
  /\ numbers' \in Numbers
  /\ SetPhase(drawId', "idle", "flush")
  /\ UNCHANGED <<history, enabled, draws, events, ticket, hit, locked, crashes, switches>>

FlushHits ==
  /\ pc = "flush"
  /\ pc' = "betting"
  /\ hit' = Flush(hit)
  /\ UNCHANGED <<drawId, numbers, shown, redis, draws, events, ticket, audit>>

EnterPreLaunch ==
  /\ pc = "betting"
  /\ SetPhase(drawId, "preLaunch", "preLaunch")
  /\ UNCHANGED <<drawId, numbers, history, enabled, draws, events, ticket, hit, locked,
                 crashes, switches>>

\* The displays have the numbers as soon as the phase is draw: draw_locked
\* carries them, and so does the welcome of a display that connects now.
Reveal ==
  /\ pc = "preLaunch"
  /\ SetPhase(drawId, "draw", "draw")
  /\ locked' = locked \cup {[draw |-> drawId, numbers |-> numbers]}
  /\ UNCHANGED <<drawId, numbers, history, enabled, draws, events, ticket, hit,
                 crashes, switches>>

\* The draw is stored once per round_id, which is unique; an error of the
\* database is logged and the loop goes on.
Record ==
  /\ pc = "draw"
  /\ pc' = "recorded"
  /\ \/ draws[drawId] = NoNumbers /\ draws' = [draws EXCEPT ![drawId] = numbers]
     \/ (draws[drawId] # NoNumbers \/ "database" \in Faults) /\ UNCHANGED draws
  /\ UNCHANGED <<drawId, numbers, shown, redis, events, ticket, hit, audit>>

Finished == [draw |-> drawId, numbers |-> numbers]

Publish ==
  /\ pc = "recorded"
  /\ \/ events' = Append(events, Finished) /\ Continue("published")
     \/ events' \in {events, Append(events, Finished)} /\ StartOver
  /\ UNCHANGED <<drawId, numbers, shown, redis, draws, ticket, hit, locked,
                 crashes, switches>>

\* The draw joins the history only after the draw phase is over.
Archive ==
  /\ pc = "published"
  /\ LET extended == IF drawId > history THEN drawId ELSE history
     IN  \/ history' = extended /\ Continue("archived")
         \/ history' \in {history, extended} /\ StartOver
  /\ UNCHANGED <<drawId, numbers, shown, gate, enabled, draws, events, ticket, hit, locked,
                 crashes, switches>>

EnterResults ==
  /\ pc = "archived"
  /\ SetPhase(drawId, "results", "top")
  /\ UNCHANGED <<drawId, numbers, history, enabled, draws, events, ticket, hit, locked,
                 crashes, switches>>

\* The process dies: its queue of hits and its place in the round are gone.
Crash ==
  /\ pc # "down"
  /\ crashes < MaxCrashes
  /\ crashes' = crashes + 1
  /\ pc' = "down"
  /\ drawId' = 0
  /\ numbers' = NoNumbers
  /\ shown' = At(0, "idle")
  /\ hit' = [h \in Hits |-> IF hit[h] = "queued" THEN "over" ELSE hit[h]]
  /\ UNCHANGED <<redis, draws, events, ticket, locked, failed, switches>>
-----------------------------------------------------------------------------
(* The other task of the engine, the operator, and ticket-service.         *)

\* A hit is published by jackpot-service: celebrated at once in an idle phase,
\* and never heard of by an engine that is down.
ConsumeHit(h) ==
  /\ hit[h] = "none"
  /\ hit' = [hit EXCEPT ![h] = IF pc = "down" \/ shown.phase = "idle"
                               THEN "over" ELSE "queued"]
  /\ UNCHANGED <<engine, redis, draws, events, ticket, audit>>

\* PATCH /admin/settings: read when the loop is next at its top.
Switch ==
  /\ switches < MaxSwitches
  /\ switches' = switches + 1
  /\ enabled' = ~enabled
  /\ UNCHANGED <<engine, gate, history, draws, events, ticket, hit, locked, failed, crashes>>

\* create_ticket: the gate must show idle and the round_id of the ticket.
PassGate(t) ==
  /\ ticket[t].state = "new"
  /\ gate.phase = "idle"
  /\ ticket' = [ticket EXCEPT ![t].state = "gated", ![t].draw = gate.draw]
  /\ UNCHANGED <<engine, redis, draws, events, hit, audit>>

\* The register and the jackpot service have answered: the row is committed.
Commit(t) ==
  /\ ticket[t].state = "gated"
  /\ ticket' = [ticket EXCEPT ![t].state = "sold"]
  /\ UNCHANGED <<engine, redis, draws, events, hit, audit>>

\* process_keno_settlement: the tickets of the draw id that have no numbers.
Settle ==
  /\ events # <<>>
  /\ LET e == Head(events)
     IN ticket' = [t \in Tickets |->
                     IF ticket[t].state = "sold" /\ ticket[t].draw = e.draw
                     THEN [ticket[t] EXCEPT !.state = "settled", !.numbers = e.numbers]
                     ELSE ticket[t]]
  /\ events' = Tail(events)
  /\ UNCHANGED <<engine, redis, draws, hit, audit>>
-----------------------------------------------------------------------------
Loop == \/ Start \/ Pause \/ EnterIdle \/ FlushHits \/ EnterPreLaunch \/ Reveal
        \/ Record \/ Publish \/ Archive \/ EnterResults

Next ==
  \/ Loop
  \/ Crash
  \/ Switch
  \/ Settle
  \/ \E h \in Hits : ConsumeHit(h)
  \/ \E t \in Tickets : PassGate(t) \/ Commit(t)

Spec == Init /\ [][Next]_vars

\* The loop is a task that never returns, in a container that is restarted;
\* the listener of ticket-service takes every message it is given.
FairSpec == Spec /\ WF_vars(Loop) /\ WF_vars(Settle)
-----------------------------------------------------------------------------
(* What makes the engine correct.                                          *)

\* A settled ticket was settled with the numbers GET /verify answers for its
\* draw, if it knows the draw (Record, Settle).  A restart violates it.
SettledAsRecorded ==
  \A t \in Tickets :
    ticket[t].state = "settled" => draws[ticket[t].draw] \in {NoNumbers, ticket[t].numbers}

\* The gate is never open on a draw whose numbers the displays have seen
\* (SetPhase, EnterIdle, Reveal).  Maintenance violates it.
GateShutOnceRevealed ==
  gate.phase = "idle" => \A l \in locked : l.draw # gate.draw

\* Failures of Redis and of the database never make a settlement disagree
\* with the audit table; a restart does.
AuditSurvivesFailures == crashes = 0 => SettledAsRecorded

\* Nor do they open the gate on a draw that is known: that takes a restart
\* after the draw or a game in maintenance.
GateSurvivesFailures == crashes = 0 /\ switches = 0 => GateShutOnceRevealed

\* In the idle window every hit of the last round has been celebrated
\* (the loop and consume_jackpot_hit share pending_hits).
NoHitWaitsWhileIdle == pc = "betting" => \A h \in Hits : hit[h] # "queued"

\* A ticket committed before its draw is revealed.
InTime(t) == ticket[t].state = "sold" /\ \A l \in locked : l.draw # ticket[t].draw

\* However often the engine crashes, a ticket sold in time is settled: the
\* restarted loop opens the interrupted draw id again.
SoldInTimeIsDrawn ==
  [](~failed /\ switches = 0) =>
    \A t \in Tickets : InTime(t) ~> ticket[t].state = "settled"
=============================================================================
