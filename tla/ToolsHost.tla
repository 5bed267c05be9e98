------------------------------ MODULE ToolsHost ------------------------------
(***************************************************************************)
(* app/gui: how the GUI starts, reconfigures and stops the four tools      *)
(* (main.go, tools_host.go, runner_control.go and the sync functions of    *)
(* the tabs).                                                              *)
(*                                                                         *)
(* The GUI thread runs user events and the closures that goroutines post   *)
(* with Synchronize, one at a time.  onStart, onStop and                   *)
(* onViiperDisconnected each take a startup generation and leave their     *)
(* slow part to a goroutine: a startup, or a teardown.  The goroutine is   *)
(* named by that generation.  The flags are atomics, a.mu sections are     *)
(* steps, and lifecycleMu is held over several steps only while a runner   *)
(* is waited for.  A runner is a numbered run of its tool, seen through    *)
(* RunnerContract: Running() until it is over, stopped only on request or  *)
(* by itself.                                                              *)
(***************************************************************************)
EXTENDS Integers, Sequences, SequencesExt

CONSTANTS
  Clicker,       \* the tool that startInBackground starts itself
  Others,        \* the tools startRemainingRunners starts, in order
  Quitters,      \* tools whose loop may return unasked
  Rereaders,     \* tools whose sync function reads the slot again under the lock
  Remakers,      \* tools whose sync function may replace a running runner
  Events,        \* bound: which of the user's and VIIPER's events happen
  MaxCommands    \* bound: events that start or stop something

Tools == {Clicker} \cup ToSet(Others)
Order == <<Clicker>> \o Others
Gens == 1 .. MaxCommands
Ids == 1 .. MaxCommands

ASSUME ToolsAssumption ==
  /\ Others \in Seq(ToSet(Others))
  /\ IsInjective(Order)
  /\ Events \subseteq {"toggle", "disconnect", "rebind", "close"}
  /\ MaxCommands \in Nat

Nil == 0
Free == 0
Gui == MaxCommands + 1      \* the GUI thread, next to the goroutines
Owners == Gens \cup {Gui}

VARIABLES
  \* guiApp
  starting, stopping, shuttingDown,    \* the atomics
  generation, startupCancel,           \* startupGeneration; whose cancel func
  session,                             \* inputSession, 0 when nil
  tools,                               \* the published runner of each tool
  lifecycleMu,
  bound,                               \* tools that have a key bound (widgets)
  \* widgets and GUI thread
  badge, startBtn, stopBtn, viiperBtn,
  queue,                               \* closures posted with Synchronize
  gui,                                 \* what the GUI thread is in the middle of
  \* goroutines of startups and teardowns
  ctxDone, pc, at, mine, sess, snap, own,
  \* runners and sessions
  phase, sessOf, closedSessions, opened,
  loose,         \* history: runs that the next startup will not wait for
  \* environment
  opening, monitorUp, keyDown, commands

flags == <<starting, stopping, shuttingDown, generation, startupCancel>>
widgets == <<badge, startBtn, stopBtn, viiperBtn, bound>>
jobs == <<ctxDone, pc, at, mine, sess, snap, own>>
runners == <<phase, sessOf, loose>>
sessions == <<session, closedSessions, opened>>
env == <<opening, monitorUp, keyDown, commands>>
vars == <<flags, sessions, tools, lifecycleMu, widgets, queue, gui, jobs, runners, env>>

Idle == [at |-> "free", tool |-> Clicker, run |-> Nil, sess |-> Nil, had |-> FALSE]
Nothing == [t \in Tools |-> Nil]

\* main() has created the window and begun to start VIIPER.
Init ==
  /\ starting = FALSE /\ stopping = FALSE /\ shuttingDown = FALSE
  /\ generation = 0 /\ startupCancel = Nil
  /\ session = Nil /\ closedSessions = {} /\ opened = 0
  /\ tools = Nothing /\ lifecycleMu = Free
  /\ bound \in SUBSET ToSet(Others)
  /\ badge = "OFF" /\ startBtn = FALSE /\ stopBtn = FALSE /\ viiperBtn = FALSE
  /\ queue = <<>> /\ gui = Idle
  /\ ctxDone = {}
  /\ pc = [g \in Gens |-> "none"]
  /\ at = [g \in Gens |-> 0]
  /\ mine = [g \in Gens |-> Nil]
  /\ sess = [g \in Gens |-> Nil]
  /\ snap = [g \in Gens |-> {}]
  /\ own = [o \in Owners |-> Nothing]
  /\ phase = [t \in Tools |-> [i \in Ids |-> "none"]]
  /\ sessOf = [t \in Tools |-> [i \in Ids |-> Nil]]
  /\ loose = {}
  /\ opening = TRUE /\ monitorUp = FALSE /\ keyDown = "up" /\ commands = 0

(***************************************************************************)
(* Runners                                                                 *)
(***************************************************************************)
Alive(t, i) == i # Nil /\ phase[t][i] \in {"live", "stopping"}
AnyRunning == \E t \in Tools : Alive(t, tools[t])
IsStarted == starting \/ AnyRunning

AskedNothing(ph, t, i) == ph   \* faulty variant: Wait without Stop
\* Stop() in a copy ph of phase; on a runner that is over it does nothing.
Asked(ph, t, i) ==
  IF i # Nil /\ ph[t][i] = "live" THEN [ph EXCEPT ![t][i] = "stopping"] ELSE ph

Unused(t) == {i \in Ids : phase[t][i] = "none"}
Fresh(t) == CHOOSE i \in Unused(t) : TRUE

\* construct, Start and store: a new run of t that uses session s.  There is
\* always an unused number: a command leads to one run of a tool at most.
Launch(t, s) ==
  /\ Unused(t) # {}
  /\ phase' = [phase EXCEPT ![t][Fresh(t)] = "live"]
  /\ sessOf' = [sessOf EXCEPT ![t][Fresh(t)] = s]
  /\ tools' = [tools EXCEPT ![t] = Fresh(t)]

\* A run ends when asked, or by itself at any time: the loops of the clicker and
\* of KeyChain return on End or F12 and on a tap that failed.
RunnerEnds(t, i) ==
  /\ \/ phase[t][i] = "stopping"
     \/ phase[t][i] = "live" /\ t \in Quitters
  /\ phase' = [phase EXCEPT ![t][i] = "over"]
  /\ UNCHANGED <<flags, sessions, tools, lifecycleMu, widgets, queue, gui, jobs, sessOf, loose, env>>

\* One step of stopAndWait on the runners o has taken, in their fixed order.
Drained(o) == own[o] = Nothing
DrainStep(o) ==
  \E n \in DOMAIN Order :
    LET t == Order[n]
        i == own[o][t]
    IN /\ i # Nil
       /\ \A m \in 1 .. n - 1 : own[o][Order[m]] = Nil
       /\ \/ phase[t][i] = "live" /\ phase' = Asked(phase, t, i) /\ UNCHANGED own
          \/ phase[t][i] = "over" /\ own' = [own EXCEPT ![o][t] = Nil] /\ UNCHANGED phase

\* The history: runs in the hands of a teardown that is not done, and what a
\* startup that is cancelled already launches.
Draws(g) == pc[g] \in {"stop", "disconnect"}
Drawn == {r \in Tools \X Ids : \E g \in Gens : Draws(g) /\ own[g][r[1]] = r[2]}

Goto(g, step) == pc' = [pc EXCEPT ![g] = step]
Post(c) == queue' = Append(queue, c)
Cancelled == ctxDone \cup (IF startupCancel = Nil THEN {} ELSE {startupCancel})

(***************************************************************************)
(* GUI thread                                                              *)
(***************************************************************************)
SetToolsStarted(on) ==
  /\ badge' = IF on THEN "ON" ELSE "OFF"
  /\ startBtn' = ~on
  /\ stopBtn' = on
  /\ UNCHANGED <<viiperBtn, bound>>

BusyUnlessStopping == shuttingDown \/ starting \/ AnyRunning   \* faulty variant
Busy == shuttingDown \/ stopping \/ starting \/ AnyRunning

BeginStartup ==
  /\ session # Nil
  /\ ~Busy
  /\ generation < MaxCommands
  /\ generation' = generation + 1
  /\ ctxDone' = Cancelled
  /\ startupCancel' = generation'
  /\ starting' = TRUE
  /\ pc' = [pc EXCEPT ![generation'] = "session"]
  /\ SetToolsStarted(TRUE)
  /\ UNCHANGED <<stopping, shuttingDown, at, mine, sess, snap, own>>

\* onStart: the refusals, or a new startup; the driver check may refuse too.
OnStart == UNCHANGED <<flags, widgets, jobs>> \/ BeginStartup

\* onStop and onViiperDisconnected raise stopping before they wait for the lock.
BeginTeardown(kind) ==
  /\ stopping' = TRUE
  /\ gui' = [Idle EXCEPT !.at = kind, !.had = IsStarted]
  /\ UNCHANGED <<starting, shuttingDown, generation, startupCancel>>

\* Their section under lifecycleMu and mu, the widgets, and the goroutine.
Teardown ==
  /\ gui.at \in {"stop", "disconnect"}
  /\ lifecycleMu = Free
  /\ generation < MaxCommands
  /\ generation' = generation + 1
  /\ starting' = FALSE
  /\ ctxDone' = Cancelled
  /\ startupCancel' = Nil
  /\ own' = [own EXCEPT ![generation'] = tools]
  /\ tools' = Nothing
  /\ sess' = [sess EXCEPT ![generation'] = session]
  /\ Goto(generation', gui.at)
  /\ gui' = Idle
  /\ IF gui.at = "stop"
     THEN SetToolsStarted(FALSE) /\ UNCHANGED session
     ELSE /\ session' = Nil
          /\ badge' = IF gui.had THEN "OFF" ELSE badge
          /\ startBtn' = FALSE /\ stopBtn' = FALSE /\ viiperBtn' = TRUE
          /\ UNCHANGED bound
  /\ UNCHANGED <<stopping, shuttingDown, lifecycleMu, queue, at, mine, snap, runners,
                 closedSessions, opened, env>>

Closure(c) ==
  CASE c = "toolsOn" -> SetToolsStarted(TRUE) /\ UNCHANGED <<flags, jobs, gui>>
    [] c = "toolsOff" -> SetToolsStarted(FALSE) /\ UNCHANGED <<flags, jobs, gui>>
    [] c = "stopped" -> /\ stopping' = FALSE
                        /\ UNCHANGED <<starting, shuttingDown, generation, startupCancel>>
                        /\ UNCHANGED <<widgets, jobs, gui>>
    [] c = "toggle" -> IF IsStarted
                       THEN BeginTeardown("stop") /\ UNCHANGED <<widgets, jobs>>
                       ELSE OnStart /\ UNCHANGED gui
    [] c = "disconnect" -> BeginTeardown("disconnect") /\ UNCHANGED <<widgets, jobs>>
    [] c = "ready" -> /\ startBtn' = TRUE /\ stopBtn' = FALSE /\ viiperBtn' = FALSE
                      /\ UNCHANGED <<badge, bound, flags, jobs, gui>>
    [] c = "retry" -> /\ viiperBtn' = TRUE
                      /\ UNCHANGED <<badge, startBtn, stopBtn, bound, flags, jobs, gui>>

RunClosure ==
  /\ gui.at = "free"
  /\ queue # <<>>
  /\ queue' = Tail(queue)
  /\ Closure(Head(queue))
  /\ loose' = IF Head(queue) = "stopped" THEN loose \cup Drawn ELSE loose
  /\ UNCHANGED <<sessions, tools, lifecycleMu, phase, sessOf, env>>

Command == commands < MaxCommands /\ commands' = commands + 1

ClickStart ==
  /\ gui.at = "free" /\ startBtn /\ Command
  /\ OnStart
  /\ UNCHANGED <<sessions, tools, lifecycleMu, queue, gui, runners, opening, monitorUp, keyDown>>

ClickStop ==
  /\ gui.at = "free" /\ stopBtn /\ Command
  /\ BeginTeardown("stop")
  /\ UNCHANGED <<sessions, tools, lifecycleMu, widgets, queue, jobs, runners, opening, monitorUp, keyDown>>

\* A key of tool t is bound or cleared, and the tab's sync function decides:
\* stop the running tool, start the missing one, or update its settings.
Rebind(t) ==
  /\ "rebind" \in Events
  /\ gui.at = "free" /\ session # Nil /\ Command
  /\ LET now == IF t \in bound THEN bound \ {t} ELSE bound \cup {t}
         running == Alive(t, tools[t])
     IN /\ bound' = now
        /\ gui' = IF t \notin now /\ (running \/ (t \in Rereaders /\ IsStarted))
                  THEN [Idle EXCEPT !.at = "syncStop", !.tool = t, !.run = tools[t]]
                  ELSE IF ~running /\ IsStarted /\ t \in now
                  THEN [Idle EXCEPT !.at = "syncStart", !.tool = t]
                  ELSE Idle
  /\ UNCHANGED <<flags, sessions, tools, lifecycleMu, badge, startBtn, stopBtn, viiperBtn,
                 queue, jobs, runners, opening, monitorUp, keyDown>>

\* AutoPot's reader mode changes: the runner has to be made anew.
ChangeMode(t) ==
  /\ "rebind" \in Events
  /\ t \in Remakers /\ t \in bound /\ Alive(t, tools[t])
  /\ gui.at = "free" /\ session # Nil /\ Command
  /\ gui' = [Idle EXCEPT !.at = "syncStart", !.tool = t]
  /\ UNCHANGED <<flags, sessions, tools, lifecycleMu, widgets, queue, jobs, runners,
                 opening, monitorUp, keyDown>>

\* The runner that is asked to stop: read under the lock, or before it.
RunnerToStop == IF gui.tool \in Rereaders THEN tools[gui.tool] ELSE gui.run

SyncStop ==
  /\ gui.at = "syncStop"
  /\ lifecycleMu = Free
  /\ tools' = [tools EXCEPT ![gui.tool] = Nil]
  /\ phase' = Asked(phase, gui.tool, RunnerToStop)
  /\ gui' = Idle
  /\ UNCHANGED <<flags, sessions, lifecycleMu, widgets, queue, jobs, sessOf, loose, env>>

\* replaceRunner by owner o: the published runner is taken, asked to stop and
\* waited for with the lock held, or there is none and the new one starts.
TakeOld(t, o) ==
  /\ lifecycleMu' = o
  /\ tools' = [tools EXCEPT ![t] = Nil]
  /\ phase' = Asked(phase, t, tools[t])
  /\ UNCHANGED <<sessOf, loose>>

SyncStart ==
  /\ gui.at = "syncStart"
  /\ lifecycleMu = Free
  /\ IF Alive(gui.tool, tools[gui.tool])
     THEN /\ TakeOld(gui.tool, Gui)
          /\ gui' = [gui EXCEPT !.at = "syncWait", !.run = tools[gui.tool], !.sess = session]
     ELSE /\ Launch(gui.tool, session)
          /\ gui' = Idle
          /\ UNCHANGED <<lifecycleMu, loose>>
  /\ UNCHANGED <<flags, sessions, widgets, queue, jobs, env>>

SyncWait ==
  /\ gui.at = "syncWait"
  /\ ~Alive(gui.tool, gui.run)
  /\ Launch(gui.tool, gui.sess)
  /\ lifecycleMu' = Free
  /\ gui' = Idle
  /\ UNCHANGED <<flags, sessions, widgets, queue, jobs, loose, env>>

ClickStartViiper ==
  /\ gui.at = "free" /\ viiperBtn /\ ~opening
  /\ viiperBtn' = FALSE
  /\ opening' = TRUE
  /\ UNCHANGED <<flags, sessions, tools, lifecycleMu, badge, startBtn, stopBtn, bound, queue,
                 gui, jobs, runners, monitorUp, keyDown, commands>>

\* The window is gone: shutdown runs on the same thread, closures no longer do.
CloseWindow ==
  /\ "close" \in Events
  /\ gui.at = "free"
  /\ shuttingDown' = TRUE
  /\ gui' = [Idle EXCEPT !.at = "shutdown"]
  /\ UNCHANGED <<starting, stopping, generation, startupCancel, sessions, tools, lifecycleMu,
                 widgets, queue, jobs, runners, env>>

Shutdown ==
  /\ gui.at = "shutdown"
  /\ lifecycleMu = Free
  /\ own' = [own EXCEPT ![Gui] = tools]
  /\ tools' = Nothing
  /\ session' = Nil
  /\ ctxDone' = Cancelled
  /\ startupCancel' = Nil
  /\ opening' = FALSE
  /\ gui' = [Idle EXCEPT !.at = "closing", !.sess = session]
  /\ UNCHANGED <<starting, stopping, shuttingDown, generation, closedSessions, opened,
                 lifecycleMu, widgets, queue, pc, at, mine, sess, snap, runners,
                 monitorUp, keyDown, commands>>

Closing ==
  /\ gui.at = "closing"
  /\ \/ DrainStep(Gui) /\ UNCHANGED <<closedSessions, gui>>
     \/ /\ Drained(Gui)
        /\ closedSessions' = closedSessions \cup ({gui.sess} \ {Nil})
        /\ gui' = [Idle EXCEPT !.at = "exited"]
        /\ UNCHANGED <<own, phase>>
  /\ UNCHANGED <<flags, session, opened, tools, lifecycleMu, widgets, queue,
                 ctxDone, pc, at, mine, sess, snap, sessOf, loose, env>>

GuiStep ==
  \/ RunClosure \/ Teardown \/ SyncStop \/ SyncStart \/ SyncWait \/ Shutdown \/ Closing

UserEvent ==
  \/ ClickStart \/ ClickStop \/ ClickStartViiper \/ CloseWindow
  \/ \E t \in ToSet(Others) : Rebind(t) \/ ChangeMode(t)

(***************************************************************************)
(* startInBackground and startRemainingRunners of generation g             *)
(***************************************************************************)
StillLatest(g) == generation >= g   \* faulty variant: a later startup keeps it alive
Still(g) == g \notin ctxDone /\ starting /\ generation = g

\* The session is read; without one the startup fails, else it is Reset.
ReadSession(g) ==
  /\ pc[g] = "session"
  /\ sess' = [sess EXCEPT ![g] = session]
  /\ IF session = Nil
     THEN /\ Goto(g, "done")
          /\ IF g \in ctxDone THEN UNCHANGED <<starting, queue>>
                             ELSE starting' = FALSE /\ Post("toolsOff")
     ELSE Goto(g, "check") /\ UNCHANGED <<starting, queue>>
  /\ UNCHANGED <<stopping, shuttingDown, generation, startupCancel, sessions, tools,
                 lifecycleMu, widgets, gui, ctxDone, at, mine, snap, own, runners, env>>

Check(g) ==
  /\ pc[g] = "check"
  /\ Goto(g, IF Still(g) THEN "clicker" ELSE "done")
  /\ UNCHANGED <<flags, sessions, tools, lifecycleMu, widgets, queue, gui, ctxDone, at, mine,
                 sess, snap, own, runners, env>>

\* Start and publication are one critical section of lifecycleMu.
StartClicker(g) ==
  /\ pc[g] = "clicker"
  /\ lifecycleMu = Free
  /\ IF Still(g) /\ ~shuttingDown
     THEN /\ Launch(Clicker, sess[g])
          /\ mine' = [mine EXCEPT ![g] = Fresh(Clicker)]
          /\ Goto(g, "recheck")
          /\ UNCHANGED loose
     ELSE Goto(g, "done") /\ UNCHANGED <<runners, tools, mine>>
  /\ UNCHANGED <<flags, sessions, lifecycleMu, widgets, queue, gui, ctxDone, at, sess, snap, own, env>>

Recheck(g) ==
  /\ pc[g] = "recheck"
  /\ Goto(g, IF Still(g) THEN "gate" ELSE "drop")
  /\ UNCHANGED <<flags, sessions, tools, lifecycleMu, widgets, queue, gui, ctxDone, at, mine,
                 sess, snap, own, runners, env>>

\* Faulty variant: the slot is emptied whoever fills it.
EmptiedSlot(g) == [tools EXCEPT ![Clicker] = Nil]
Unpublished(g) == IF tools[Clicker] = mine[g] THEN [tools EXCEPT ![Clicker] = Nil] ELSE tools

Drop(g) ==
  /\ pc[g] = "drop"
  /\ lifecycleMu = Free
  /\ tools' = Unpublished(g)
  /\ phase' = Asked(phase, Clicker, mine[g])
  /\ loose' = IF tools[Clicker] = mine[g] THEN loose \cup {<<Clicker, mine[g]>>} ELSE loose
  /\ Goto(g, "await")
  /\ UNCHANGED <<flags, sessions, lifecycleMu, widgets, queue, gui, ctxDone, at, mine, sess,
                 snap, own, sessOf, env>>

Await(g) ==
  /\ pc[g] = "await"
  /\ ~Alive(Clicker, mine[g])
  /\ Goto(g, "done")
  /\ UNCHANGED <<flags, sessions, tools, lifecycleMu, widgets, queue, gui, ctxDone, at, mine,
                 sess, snap, own, runners, env>>

\* stopIfCancelled between two tools; the first one is followed by reading
\* the configurations of all remaining tools from the widgets.
AllStarted(g) == at[g] = Len(Others)

Gate(g) ==
  /\ pc[g] = "gate"
  /\ IF ~Still(g)
     THEN Goto(g, "rollback") /\ UNCHANGED <<at, snap>>
     ELSE IF AllStarted(g)
     THEN Goto(g, "finish") /\ UNCHANGED <<at, snap>>
     ELSE /\ Goto(g, "start")
          /\ at' = [at EXCEPT ![g] = @ + 1]
          /\ snap' = IF at[g] = 0 THEN [snap EXCEPT ![g] = bound] ELSE snap
  /\ UNCHANGED <<flags, sessions, tools, lifecycleMu, widgets, queue, gui, ctxDone, mine, sess,
                 own, runners, env>>

\* A startup goes on to its next tool without looking at its context again.
LaunchBy(g, t, s) ==
  /\ Launch(t, s)
  /\ loose' = IF Still(g) THEN loose ELSE loose \cup {<<t, Fresh(t)>>}

\* startAutoPotRunner, startTimerKeyRunner, startKeyChainRunner.
StartOther(g) ==
  /\ pc[g] = "start"
  /\ lifecycleMu = Free
  /\ LET t == Others[at[g]]
     IN IF shuttingDown \/ t \notin snap[g] \/ session = Nil
        THEN Goto(g, "gate") /\ UNCHANGED <<lifecycleMu, tools, runners, mine, sess>>
        ELSE IF Alive(t, tools[t])
        THEN /\ TakeOld(t, g)
             /\ mine' = [mine EXCEPT ![g] = tools[t]]
             /\ sess' = [sess EXCEPT ![g] = session]
             /\ Goto(g, "waitOld")
        ELSE LaunchBy(g, t, session) /\ Goto(g, "gate") /\ UNCHANGED <<lifecycleMu, mine, sess>>
  /\ UNCHANGED <<flags, sessions, widgets, queue, gui, ctxDone, at, snap, own, env>>

WaitOld(g) ==
  /\ pc[g] = "waitOld"
  /\ ~Alive(Others[at[g]], mine[g])
  /\ LaunchBy(g, Others[at[g]], sess[g])
  /\ lifecycleMu' = Free
  /\ Goto(g, "gate")
  /\ UNCHANGED <<flags, sessions, widgets, queue, gui, ctxDone, at, mine, sess, snap, own, env>>

\* stopStartedRunners: every published runner, whoever started it.
Rollback(g) ==
  /\ pc[g] = "rollback"
  /\ lifecycleMu = Free
  /\ lifecycleMu' = g
  /\ own' = [own EXCEPT ![g] = tools]
  /\ tools' = Nothing
  /\ Goto(g, "rollingBack")
  /\ UNCHANGED <<flags, sessions, widgets, queue, gui, ctxDone, at, mine, sess, snap, runners, env>>

RollingBack(g) ==
  /\ pc[g] = "rollingBack"
  /\ \/ DrainStep(g) /\ UNCHANGED <<lifecycleMu, pc>>
     \/ Drained(g) /\ lifecycleMu' = Free /\ Goto(g, "done") /\ UNCHANGED <<own, phase>>
  /\ UNCHANGED <<flags, sessions, tools, widgets, queue, gui, ctxDone, at, mine, sess, snap,
                 sessOf, loose, env>>

\* Faulty variant: the flag is read but not cleared.
FinishUncleared(g) ==
  /\ pc[g] = "finish"
  /\ IF starting THEN Post("toolsOn") ELSE UNCHANGED queue
  /\ Goto(g, "done")
  /\ UNCHANGED <<flags, sessions, tools, lifecycleMu, widgets, gui, ctxDone, at, mine, sess,
                 snap, own, runners, env>>

\* starting.Swap(0)
Finish(g) ==
  /\ pc[g] = "finish"
  /\ starting' = FALSE
  /\ IF starting THEN Post("toolsOn") ELSE UNCHANGED queue
  /\ Goto(g, "done")
  /\ UNCHANGED <<stopping, shuttingDown, generation, startupCancel, sessions, tools,
                 lifecycleMu, widgets, gui, ctxDone, at, mine, sess, snap, own, runners, env>>

\* The goroutines of onStop (Reset) and onViiperDisconnected (Close).
FinishTeardown(g) ==
  /\ Draws(g)
  /\ \/ DrainStep(g) /\ UNCHANGED <<closedSessions, queue, pc>>
     \/ /\ Drained(g)
        /\ closedSessions' = IF pc[g] = "stop" THEN closedSessions
                             ELSE closedSessions \cup ({sess[g]} \ {Nil})
        /\ Post("stopped")
        /\ Goto(g, "done")
        /\ UNCHANGED <<own, phase>>
  /\ UNCHANGED <<flags, session, opened, tools, lifecycleMu, widgets, gui, ctxDone, at, mine,
                 sess, snap, sessOf, loose, env>>

JobStep(g) ==
  \/ ReadSession(g) \/ Check(g) \/ StartClicker(g) \/ Recheck(g) \/ Drop(g) \/ Await(g)
  \/ Gate(g) \/ StartOther(g) \/ WaitOld(g) \/ Rollback(g) \/ RollingBack(g) \/ Finish(g)
  \/ FinishTeardown(g)

(***************************************************************************)
(* VIIPER and the toggle keys, as far as the tools see them                *)
(***************************************************************************)
\* The goroutine of onStartViiper publishes a session, or gives up.
OpenEnds ==
  /\ opening
  /\ opening' = FALSE
  /\ \/ /\ opened' = opened + 1
        /\ session' = opened'
        /\ closedSessions' = closedSessions \cup ({session} \ {Nil})
        /\ Post("ready")
     \/ Post("retry") /\ UNCHANGED sessions
  /\ UNCHANGED <<flags, tools, lifecycleMu, widgets, gui, jobs, runners, monitorUp, keyDown, commands>>

MonitorSees ==
  /\ ~monitorUp /\ (opening \/ session # Nil)
  /\ monitorUp' = TRUE
  /\ UNCHANGED <<flags, sessions, tools, lifecycleMu, widgets, queue, gui, jobs, runners,
                 opening, keyDown, commands>>

MonitorLoses ==
  /\ "disconnect" \in Events
  /\ monitorUp /\ Command
  /\ monitorUp' = FALSE
  /\ Post("disconnect")
  /\ UNCHANGED <<flags, sessions, tools, lifecycleMu, widgets, gui, jobs, runners, opening, keyDown>>

PressToggle ==
  /\ "toggle" \in Events
  /\ keyDown = "up" /\ Command
  /\ keyDown' = "down"
  /\ UNCHANGED <<flags, sessions, tools, lifecycleMu, widgets, queue, gui, jobs, runners, opening, monitorUp>>

\* The watcher's poll finds the rising edge; a press outlasts one poll.
WatcherSees ==
  /\ keyDown = "down"
  /\ keyDown' = "seen"
  /\ Post("toggle")
  /\ UNCHANGED <<flags, sessions, tools, lifecycleMu, widgets, gui, jobs, runners, opening, monitorUp, commands>>

ReleaseToggle ==
  /\ keyDown = "seen"
  /\ keyDown' = "up"
  /\ UNCHANGED <<flags, sessions, tools, lifecycleMu, widgets, queue, gui, jobs, runners, opening, monitorUp, commands>>

EnvStep == OpenEnds \/ MonitorSees \/ MonitorLoses \/ PressToggle \/ WatcherSees \/ ReleaseToggle

Exited == gui.at = "exited"

Next ==
  \/ /\ ~Exited
     /\ \/ GuiStep \/ UserEvent \/ EnvStep
        \/ \E g \in Gens : JobStep(g)
        \/ \E t \in Tools, i \in Ids : RunnerEnds(t, i)
  \/ Exited /\ UNCHANGED vars

(***************************************************************************)
(* The GUI thread pumps messages, goroutines are scheduled, a runner asked *)
(* to stop does stop (Lifecycle), the watcher polls and VIIPER answers or  *)
(* times out.  The user and the server are not obliged to anything.        *)
(***************************************************************************)
Fairness ==
  /\ WF_vars(~Exited /\ GuiStep)
  /\ \A g \in Gens : WF_vars(~Exited /\ JobStep(g))
  /\ \A t \in Tools, i \in Ids : WF_vars(~Exited /\ phase[t][i] = "stopping" /\ RunnerEnds(t, i))
  /\ WF_vars(~Exited /\ OpenEnds)
  /\ WF_vars(~Exited /\ WatcherSees)

SafeSpec == Init /\ [][Next]_vars
Spec == SafeSpec /\ Fairness

(***************************************************************************)
(* Properties                                                              *)
(***************************************************************************)
Closures == {"toolsOn", "toolsOff", "stopped", "toggle", "disconnect", "ready", "retry"}

FlagsOK ==
  /\ starting \in BOOLEAN /\ stopping \in BOOLEAN /\ shuttingDown \in BOOLEAN
  /\ generation \in 0 .. MaxCommands
  /\ startupCancel \in 0 .. MaxCommands

SessionsOK == session \in Nat /\ closedSessions \subseteq Nat /\ opened \in Nat

SlotsOK == tools \in [Tools -> Ids \cup {Nil}] /\ lifecycleMu \in Owners \cup {Free}

WidgetsOK ==
  /\ badge \in {"ON", "OFF"}
  /\ startBtn \in BOOLEAN /\ stopBtn \in BOOLEAN /\ viiperBtn \in BOOLEAN
  /\ bound \subseteq ToSet(Others)

GuiOK ==
  /\ queue \in Seq(Closures)
  /\ gui \in [at : {"free", "stop", "disconnect", "syncStop", "syncStart", "syncWait",
                    "shutdown", "closing", "exited"},
              tool : Tools, run : Ids \cup {Nil}, sess : Nat, had : BOOLEAN]

JobsOK ==
  /\ ctxDone \subseteq Gens
  /\ pc \in [Gens -> {"none", "session", "check", "clicker", "recheck", "drop", "await", "gate",
                     "start", "waitOld", "rollback", "rollingBack", "finish", "stop",
                     "disconnect", "done"}]
  /\ at \in [Gens -> 0 .. Len(Others)]
  /\ mine \in [Gens -> Ids \cup {Nil}]
  /\ sess \in [Gens -> Nat]
  /\ snap \in [Gens -> SUBSET ToSet(Others)]
  /\ own \in [Owners -> [Tools -> Ids \cup {Nil}]]

RunnersOK ==
  /\ phase \in [Tools -> [Ids -> {"none", "live", "stopping", "over"}]]
  /\ sessOf \in [Tools -> [Ids -> Nat]]

EnvOK ==
  /\ opening \in BOOLEAN /\ monitorUp \in BOOLEAN
  /\ keyDown \in {"up", "down", "seen"}
  /\ commands \in 0 .. MaxCommands

TypeOK ==
  /\ FlagsOK /\ SessionsOK /\ SlotsOK /\ WidgetsOK /\ GuiOK /\ JobsOK /\ RunnersOK /\ EnvOK

HistoryOK == loose \subseteq Tools \X (Ids \cup {Nil})

\* A teardown, a rollback or the shutdown has taken run i of t and will stop it.
Taken(t, i) == \E o \in Owners : own[o][t] = i
Known(t, i) == tools[t] = i \/ Taken(t, i)
InHand(t) == \A i \in Ids : phase[t][i] = "live" => Known(t, i)

\* A live runner always has an owner that can still reach and stop it: it is
\* published, or somebody who stops it has taken it.
\* tools_host.go:7 "toolsHost owns the four tool runners", main.go:50-52 and 471-473.
NoOrphan == \A t \in Tools : InHand(t)

\* Two runs of one tool never use the session at the same time: replaceRunner and
\* stopping keep them apart.  README.md:44 "A mouse click cannot fire twice in a row".
\* Claimed while no key is rebound (a run that is replaced may be loose) and of the
\* runs that a startup waits for or is refused by.  Three kinds of run are loose and
\* left out: one in the hands of a teardown that still waits for it when another
\* teardown clears stopping (main.go:670), one launched by a startup that is cancelled
\* already (main.go:537-570), and the clicker that a startup whose flag another one
\* has taken drops and then waits for without the lock (main.go:493-504).
OneOfAKind ==
  \A t \in Tools : \A i, j \in Ids :
    Alive(t, i) /\ Alive(t, j) /\ <<t, i>> \notin loose /\ <<t, j>> \notin loose => i = j

\* A session outlives the runners that write to it.
\* main.go:584-586 "Runners must finish before the session is closed".
SessionOutlivesRunners ==
  \A t \in Tools, i \in Ids : Alive(t, i) => sessOf[t][i] \notin closedSessions

\* Nothing is in flight: no closure, no startup, no teardown, no key.
Quiet ==
  /\ gui.at = "free" /\ queue = <<>> /\ keyDown = "up"
  /\ \A g \in Gens : pc[g] \in {"none", "done"}

\* Once things have settled, OFF means that no runner is left, published or not,
\* and so does a session that is gone.
\* README.md: "Stop or close the app to shut everything down."
OffMeansOff ==
  Quiet /\ (badge = "OFF" \/ session = Nil) => \A t \in Tools, i \in Ids : phase[t][i] # "live"

\* Every teardown completes, so that Start works again (main.go:402), and whatever
\* run is published or taken when it begins is over in the end, by whoever took it,
\* also when another teardown clears stopping and a Start gets through in between
\* (main.go:670).  A run that a key change has orphaned (NoOrphan) nobody stops.
StoppingEnds ==
  /\ stopping ~> (~stopping \/ Exited)
  /\ \A t \in Tools, i \in Ids :
       (gui.at \in {"stop", "disconnect", "shutdown"} /\ Alive(t, i) /\ Known(t, i))
         ~> (~Alive(t, i) \/ Exited)

\* Every startup settles: it publishes its tools, fails, or is cancelled.
StartingEnds == starting ~> (~starting \/ Exited)
=============================================================================
