----------------------------- MODULE EngineFeed -----------------------------
(***************************************************************************)
(* One screen that follows one game engine over a WebSocket.               *)
(*                                                                         *)
(*  - The engine (ConnectionManager and game_loop of the two game          *)
(*    services) changes its state first and tells the registered           *)
(*    connections later; a new connection is registered first and gets its *)
(*    welcome after a request to jackpot-service.  Frames of the loop may  *)
(*    therefore overtake the welcome.                                      *)
(*  - The screen is one of four React hooks.  They differ in what they do  *)
(*    with a frame and in how they keep a socket from outliving the page:  *)
(*      agentKeno, agentRoulette    agent-web's useKenoWs and useRoulette  *)
(*      adminKeno, adminRoulette    backoffice's useKenoWs, useRouletteWs  *)
(*                                                                         *)
(* The phases carry Keno's names; for roulette idle is Betting, preLaunch  *)
(* is BetsClosing, draw is Spinning and results is Result.  The numbers of *)
(* a draw are represented by its id.  Frames about jackpots, medals and    *)
(* statistics replace one value each and are left out, as are pings and    *)
(* the lengths of delays.                                                  *)
(*                                                                         *)
(* FeedInit, FeedNext and FeedSpec are named after the feed, so that one   *)
(* module can extend this one and another page of the screens.             *)
(***************************************************************************)
EXTENDS Naturals, Sequences, FiniteSets

CONSTANTS
  Kinds,      \* the hooks to check
  MaxDraw,    \* the last draw: a bound of the model
  MaxMounts,  \* how often the page is opened: a bound of the model
  MaxSockets, \* sockets that exist at the same time: one per mount is enough
  MaxFrames,  \* frames in flight on a connection: a bound of the model
  MaxFaults   \* connections lost or not created: a bound of the model

AllKinds == {"agentKeno", "agentRoulette", "adminKeno", "adminRoulette"}

ASSUME FeedAssumption ==
  /\ Kinds \subseteq AllKinds
  /\ {MaxDraw, MaxMounts, MaxSockets, MaxFrames} \subseteq Nat \ {0}
  /\ MaxMounts <= MaxSockets
  /\ MaxFaults \in Nat

VARIABLES
  kind,     \* which hook this is
  engine,   \* the engine's current state
  step,     \* what game_loop has still to broadcast
  mounted,
  mount,    \* the closures of the hook's effect are numbered
  sock,     \* the sockets of this page
  timer,    \* the closures whose reconnect timer is running
  view,     \* what the hook returns
  gaveUp,   \* the closures that ended with an exception nobody retries
  faults

feedVars == <<kind, engine, step, mounted, mount, sock, timer, view, gaveUp, faults>>

Draws == 0..MaxDraw
NoNumbers == 0
Mounts == 0..MaxMounts
Sockets == 1..MaxSockets
Phases == {"idle", "preLaunch", "draw", "results"}
Frame == [type : {"welcome", "phase_changed", "draw_locked"}, draw : Draws,
          phase : Phases, numbers : Draws]
Socket == [state : {"none", "connecting", "open", "closing"}, owner : Mounts,
           server : {"unknown", "registered", "welcomed"}, frames : Seq(Frame)]

FeedTypeOK ==
  /\ kind \in Kinds
  /\ engine \in [draw : Draws, phase : Phases]
  /\ step \in {"steady", "announce", "lock"}
  /\ mounted \in BOOLEAN
  /\ mount \in Mounts
  /\ sock \in [Sockets -> Socket]
  /\ timer \subseteq 1..mount
  /\ view \in [draw : Draws, phase : Phases, numbers : Draws, connected : BOOLEAN]
  /\ gaveUp \subseteq 1..mount
  /\ faults \in 0..MaxFaults

NewSocket(state, m) == [state |-> state, owner |-> m, server |-> "unknown", frames |-> <<>>]

\* useState of the hooks.
NewView == [draw |-> 0, phase |-> "idle", numbers |-> NoNumbers, connected |-> FALSE]

FeedInit ==
  /\ kind \in Kinds
  /\ engine = [draw |-> 1, phase |-> "idle"]
  /\ step = "steady"
  /\ mounted = FALSE
  /\ mount = 0
  /\ sock = [s \in Sockets |-> NewSocket("none", 0)]
  /\ timer = {}
  /\ view = NewView
  /\ gaveUp = {}
  /\ faults = 0
-----------------------------------------------------------------------------
(* The engine.                                                             *)

\* The numbers the engine shows to whoever asks: from the draw phase on.
NumbersOf(e) == IF e.phase \in {"draw", "results"} THEN e.draw ELSE NoNumbers

FrameOf(type, e) ==
  [type |-> type, draw |-> e.draw, phase |-> e.phase, numbers |-> NumbersOf(e)]

Running(m) == mounted /\ m = mount

\* ConnectionManager.broadcast: every registered connection gets the frame; the
\* send fails on one that is gone.  What a page that was left receives changes
\* nothing, and is not kept.
Broadcast(type) ==
  LET told == {s \in Sockets : /\ sock[s].server # "unknown" /\ sock[s].state = "open"
                               /\ Running(sock[s].owner)} IN
  /\ \A s \in told : Len(sock[s].frames) < MaxFrames
  /\ sock' = [s \in Sockets |->
                IF s \in told
                THEN [sock[s] EXCEPT !.frames = Append(@, FrameOf(type, engine))]
                ELSE sock[s]]

After == [idle |-> "preLaunch", preLaunch |-> "draw", draw |-> "results"]

\* The state is updated first, the displays are told in a step of their own.
NextPhase ==
  /\ step = "steady"
  /\ engine.phase \in DOMAIN After
  /\ engine' = [engine EXCEPT !.phase = After[@]]
  /\ step' = "announce"
  /\ UNCHANGED <<kind, mounted, mount, sock, timer, view, gaveUp, faults>>

\* The next round, after the results, or early because an exception sent the
\* loop back to its top: Redis fails after a phase was announced.
NextRound ==
  /\ step \in {"steady", "lock"}
  /\ engine.draw < MaxDraw
  /\ engine' = [draw |-> engine.draw + 1, phase |-> "idle"]
  /\ step' = "announce"
  /\ UNCHANGED <<kind, mounted, mount, sock, timer, view, gaveUp, faults>>

Announce ==
  /\ step = "announce"
  /\ Broadcast("phase_changed")
  /\ step' = IF engine.phase = "draw" THEN "lock" ELSE "steady"
  /\ UNCHANGED <<kind, engine, mounted, mount, timer, view, gaveUp, faults>>

\* draw_locked of Keno, result_revealed of roulette.
Lock ==
  /\ step = "lock"
  /\ Broadcast("draw_locked")
  /\ step' = "steady"
  /\ UNCHANGED <<kind, engine, mounted, mount, timer, view, gaveUp, faults>>

\* ConnectionManager.connect: accepted and registered.
Register(s) ==
  /\ sock[s].state = "open"
  /\ sock[s].server = "unknown"
  /\ sock' = [sock EXCEPT ![s].server = "registered"]
  /\ UNCHANGED <<kind, engine, step, mounted, mount, timer, view, gaveUp, faults>>

\* Mutant of Welcome: the handler holds the dictionary the engine started with,
\* which the loop has since replaced by another.
WelcomeOfFirstState(s) ==
  /\ sock[s].state = "open"
  /\ sock[s].server = "registered"
  /\ sock' = [sock EXCEPT ![s].server = "welcomed",
                ![s].frames = Append(@, FrameOf("welcome", [draw |-> 1, phase |-> "idle"]))]
  /\ UNCHANGED <<kind, engine, step, mounted, mount, timer, view, gaveUp, faults>>

\* send_welcome: jackpot-service has answered, the state is read now.
Welcome(s) ==
  /\ sock[s].state = "open"
  /\ sock[s].server = "registered"
  /\ sock' = [sock EXCEPT ![s].server = "welcomed",
                ![s].frames = IF Running(sock[s].owner)
                              THEN Append(@, FrameOf("welcome", engine)) ELSE @]
  /\ UNCHANGED <<kind, engine, step, mounted, mount, timer, view, gaveUp, faults>>
-----------------------------------------------------------------------------
(* The hook.                                                               *)

\* Which hooks ignore the callbacks of a closure that was cleaned up: `alive`
\* in agent-web's useKenoWs, `onclose = null` in backoffice's.
Guarded(k) == k \in {"agentKeno", "adminKeno"}

\* Mutant of Reconnects: the guard is forgotten.
ReconnectsAlways(m) == TRUE

\* onclose schedules a new connection.
Reconnects(m) == Guarded(kind) => Running(m)

FreeSocket(socks) == CHOOSE s \in Sockets : socks[s].state = "none"
WithSocket(m, socks) == [socks EXCEPT ![FreeSocket(socks)] = NewSocket("connecting", m)]

\* The constructor returns a socket.
Connects(m, socks, timers) ==
  /\ sock' = WithSocket(m, socks)
  /\ timer' = timers
  /\ UNCHANGED <<gaveUp, faults>>

\* Mutant of Throws: no hook retries.
ThrowsForGood(m, socks, timers) ==
  /\ faults < MaxFaults
  /\ faults' = faults + 1
  /\ sock' = socks
  /\ timer' = timers
  /\ gaveUp' = gaveUp \cup {m}

\* The constructor throws.  Keno's hooks catch it and schedule the next attempt; the
\* administrators' roulette catches it and does nothing more, the agents' does not
\* catch it.
Throws(m, socks, timers) ==
  /\ faults < MaxFaults
  /\ faults' = faults + 1
  /\ sock' = socks
  /\ timer' = IF Guarded(kind) THEN timers \cup {m} ELSE timers
  /\ gaveUp' = IF Guarded(kind) THEN gaveUp ELSE gaveUp \cup {m}

\* connect(), called by closure m.
Connect(m, socks, timers) == Connects(m, socks, timers) \/ Throws(m, socks, timers)

\* The page is opened: a new instance of the hook, with a state of its own.  What
\* the agents' roulette does not catch here takes the whole page down, which stays
\* blank until it is reloaded: for the model a page left and opened again.
Mount ==
  /\ ~mounted
  /\ mount < MaxMounts
  /\ mounted' = TRUE
  /\ mount' = mount + 1
  /\ view' = NewView
  /\ Connect(mount + 1, sock, timer)
  /\ UNCHANGED <<kind, engine, step>>

\* What the cleanup does to the current closure's sockets: they are closed, and
\* the close event comes later.
Closing(m) ==
  [s \in Sockets |-> IF sock[s].owner = m /\ sock[s].state \in {"connecting", "open"}
                     THEN [sock[s] EXCEPT !.state = "closing", !.frames = <<>>]
                     ELSE sock[s]]

\* The cleanup of the effect, when the page is left.
Unmount ==
  /\ mounted
  /\ mounted' = FALSE
  /\ sock' = Closing(mount)
  /\ timer' = timer \ {mount}
  /\ UNCHANGED <<kind, engine, step, mount, view, gaveUp, faults>>

\* useKenoWs of agent-web depends on the kiosk code: another code runs the
\* cleanup and the effect again, in the same instance and with its state.
ChangeKiosk ==
  /\ kind = "agentKeno"
  /\ mounted
  /\ mount < MaxMounts
  /\ mount' = mount + 1
  /\ Connect(mount + 1, Closing(mount), timer \ {mount})
  /\ UNCHANGED <<kind, engine, step, mounted, view>>

Open(s) ==
  /\ sock[s].state = "connecting"
  /\ sock' = [sock EXCEPT ![s].state = "open"]
  /\ view' = IF kind \in {"adminKeno", "adminRoulette"} /\ Running(sock[s].owner)
             THEN [view EXCEPT !.connected = TRUE] ELSE view
  /\ UNCHANGED <<kind, engine, step, mounted, mount, timer, gaveUp, faults>>

\* The connection is refused or lost, with the frames in flight.
Drop(s) ==
  /\ sock[s].state \in {"connecting", "open"}
  /\ faults < MaxFaults
  /\ faults' = faults + 1
  /\ sock' = [sock EXCEPT ![s].state = "closing", ![s].frames = <<>>]
  /\ UNCHANGED <<kind, engine, step, mounted, mount, timer, view, gaveUp>>

\* onclose.
Closed(s) ==
  LET m == sock[s].owner IN
  /\ sock[s].state = "closing"
  /\ sock' = [sock EXCEPT ![s] = NewSocket("none", 0)]
  /\ timer' = IF Reconnects(m) THEN timer \cup {m} ELSE timer
  /\ view' = IF Running(m) THEN [view EXCEPT !.connected = FALSE] ELSE view
  /\ UNCHANGED <<kind, engine, step, mounted, mount, gaveUp, faults>>

\* The timer of closure m fires.  That the page is still there need not be asked:
\* the hooks that are guarded have no timer left once it is not.
Retry(m) ==
  /\ m \in timer
  /\ Connect(m, sock, timer \ {m})
  /\ UNCHANGED <<kind, engine, step, mounted, mount, view>>

\* Mutant of Clears: the numbers stay until the next ones come.
ClearsNever(k, phase) == FALSE

\* phase_changed takes the numbers away: agent-web's hook at both phases before
\* the draw, backoffice's at the first one, roulette's hooks never.
Clears(k, phase) ==
  \/ k = "agentKeno" /\ phase \in {"idle", "preLaunch"}
  \/ k = "adminKeno" /\ phase = "idle"

\* onmessage.  The roulette hook of the agents keeps no numbers, and the one of
\* the administrators no draw id: lastNumber is the last number it heard of.
Handle(f, v) ==
  LET keno == kind \in {"agentKeno", "adminKeno"}
      shown == [v EXCEPT !.phase = f.phase,
                         !.draw = IF kind = "adminRoulette" THEN @ ELSE f.draw] IN
  CASE f.type = "welcome" ->
         [shown EXCEPT !.numbers = IF keno \/ (kind = "adminRoulette" /\ f.numbers # NoNumbers)
                                   THEN f.numbers ELSE @,
                       !.connected = @ \/ kind = "agentKeno"]
    [] f.type = "phase_changed" ->
         [shown EXCEPT !.numbers = IF Clears(kind, f.phase) THEN NoNumbers ELSE @]
    [] f.type = "draw_locked" ->
         [v EXCEPT !.numbers = IF kind = "agentRoulette" THEN @ ELSE f.numbers]

Message(s) ==
  /\ sock[s].state = "open"
  /\ sock[s].frames # <<>>
  /\ sock' = [sock EXCEPT ![s].frames = Tail(@)]
  /\ Running(sock[s].owner)
  /\ view' = Handle(Head(sock[s].frames), view)
  /\ UNCHANGED <<kind, engine, step, mounted, mount, timer, gaveUp, faults>>

FeedNext ==
  \/ NextPhase \/ NextRound \/ Announce \/ Lock
  \/ Mount \/ Unmount \/ ChangeKiosk
  \/ \E s \in Sockets : Register(s) \/ Welcome(s) \/ Open(s) \/ Drop(s) \/ Closed(s) \/ Message(s)
  \/ \E m \in timer : Retry(m)

FeedSpec == FeedInit /\ [][FeedNext]_feedVars

\* The engine's loop, the server's handlers and the browser's timers and events
\* go on; users, drops and rounds need not come.
Fairness ==
  /\ WF_feedVars(Announce) /\ WF_feedVars(Lock)
  /\ \A s \in Sockets :
       /\ WF_feedVars(Open(s)) /\ WF_feedVars(Register(s)) /\ WF_feedVars(Welcome(s))
       /\ WF_feedVars(Closed(s)) /\ WF_feedVars(Message(s))
  /\ \A m \in 1..MaxMounts : WF_feedVars(Retry(m))

FairSpec == FeedSpec /\ Fairness
-----------------------------------------------------------------------------
(* What the screen may rely on.                                            *)

Live(s) == sock[s].state \in {"connecting", "open"}

\* Once everything sent has arrived, the screen shows the state of the engine,
\* numbers included: the welcome and the frames that overtake it leave no gap.
DisplayFollowsEngine ==
  \A s \in Sockets :
    ( /\ sock[s].state = "open" /\ Running(sock[s].owner)
      /\ sock[s].server = "welcomed" /\ sock[s].frames = <<>>
      /\ step = "steady" )
    => /\ view.phase = engine.phase
       /\ kind # "adminRoulette" => view.draw = engine.draw
       /\ kind \in {"agentKeno", "adminKeno"} => view.numbers = NumbersOf(engine)
       /\ kind = "adminRoulette" /\ NumbersOf(engine) # NoNumbers =>
            view.numbers = NumbersOf(engine)

\* The welcome of connection s has been handled.
Welcomed(s) ==
  /\ sock[s].state = "open" /\ Running(sock[s].owner)
  /\ sock[s].server = "welcomed"
  /\ \A i \in DOMAIN sock[s].frames : sock[s].frames[i].type # "welcome"

\* From the welcome on, in every state between two frames, the numbers on a Keno
\* screen are those of the draw it names, whatever was shown before a loss.
\* Before it they need not be: draw_locked may overtake it, and is not compared
\* with the draw the screen names.
NumbersBelongToDraw ==
  kind \in {"agentKeno", "adminKeno"} /\ (\E s \in Sockets : Welcomed(s)) =>
    view.numbers \in {NoNumbers, view.draw}

\* A page never holds two connections, and the hooks with a guard hold none once
\* the page is left: a close event that comes after the cleanup opens nothing.
FeedsAreOwned ==
  \A s \in Sockets : Live(s) =>
    /\ Guarded(kind) => Running(sock[s].owner)
    /\ \A r \in Sockets : r # s /\ Live(r) => sock[r].owner # sock[s].owner

\* A page that stays open is connected again after every loss, and its screen heard
\* the welcome.  The Keno hooks come back from an exception of the constructor too;
\* the roulette hooks from every loss of a connection, as long as no attempt threw.
FeedComesBack ==
  <>[](mounted => \/ \E s \in Sockets : /\ sock[s].state = "open" /\ sock[s].owner = mount
                                        /\ sock[s].server = "welcomed"
                  \/ ~Guarded(kind) /\ mount \in gaveUp)
=============================================================================
