--------------------------- MODULE ToolsHostProofs ---------------------------
(***************************************************************************)
(* What holds of the GUI's startups, teardowns and key changes for any      *)
(* tools and any number of commands.                                       *)
(*                                                                         *)
(* HandInv says in whose hands a live runner is: in its slot, or taken by   *)
(* a goroutine that has yet to stop it (Hands).  It needs to know who may   *)
(* have taken runners (TakenInTime), that a number belongs to one startup   *)
(* or teardown (Numbered), that a slot being replaced stays empty while     *)
(* the lock is held (Locked), and that the one startup that may still start *)
(* the clicker finds its slot free (NoClickerYet).  ShownInv relates what   *)
(* is live to the badge and the session, Held says who waits for a run      *)
(* until it is over, and Clear that a startup finds no old run ahead of it. *)
(***************************************************************************)
EXTENDS ToolsHost, TLAPS

\* The numbers of goroutines, runs and owners.
LEMMA Numbers ==
  /\ MaxCommands \in Nat /\ Gens = 1 .. MaxCommands /\ Ids = 1 .. MaxCommands
  /\ Gui \in Owners /\ Gui \notin Gens /\ Gens \subseteq Owners /\ Nil \notin Gens
  /\ Free \notin Owners
BY ToolsAssumption DEF Gens, Ids, Gui, Owners, Nil, Free

\* Order lists every tool once, the clicker first.
LEMMA OrderIsTools ==
  /\ Others \in Seq(ToSet(Others)) /\ Len(Others) \in Nat
  /\ DOMAIN Others = 1 .. Len(Others)
  /\ \A n \in DOMAIN Others : Others[n] \in ToSet(Others)
  /\ \A n \in DOMAIN Order : Order[n] \in Tools
  /\ \A t \in Tools : \E n \in DOMAIN Order : Order[n] = t
  /\ \A n, m \in DOMAIN Order : Order[n] = Order[m] => n = m
  /\ ToSet(Others) \subseteq Tools /\ Clicker \in Tools
  /\ Clicker \notin ToSet(Others)
  /\ \A n, m \in DOMAIN Others : Others[n] = Others[m] => n = m
<1> DEFINE S == ToSet(Others)
<1>1. Others \in Seq(S) /\ Len(Others) \in Nat /\ DOMAIN Others = 1 .. Len(Others)
  BY ToolsAssumption
<1>2. \A n \in DOMAIN Others : Others[n] \in S
  BY DEF ToSet
<1>3. \A t \in S : \E n \in DOMAIN Others : Others[n] = t
  BY DEF ToSet
<1> HIDE DEF S
<1>4. /\ DOMAIN Order = 1 .. Len(Others) + 1
      /\ Order[1] = Clicker
      /\ \A n \in DOMAIN Others : n + 1 \in DOMAIN Order /\ Order[n + 1] = Others[n]
      /\ \A n \in DOMAIN Order : n # 1 => n - 1 \in DOMAIN Others /\ Order[n] = Others[n - 1]
  BY <1>1 DEF Order
<1>5. \A n, m \in DOMAIN Order : Order[n] = Order[m] => n = m
  BY ToolsAssumption DEF IsInjective
<1>6. Tools = {Clicker} \cup S
  BY DEF Tools, S
<1>7. Clicker \notin S
  <2> SUFFICES ASSUME Clicker \in S PROVE FALSE
    OBVIOUS
  <2>1. PICK n \in DOMAIN Others : Others[n] = Clicker
    BY <1>3
  <2>2. Order[n + 1] = Order[1] /\ n + 1 \in DOMAIN Order /\ 1 \in DOMAIN Order
    BY <1>1, <1>4, <2>1
  <2>3. n + 1 = 1
    BY <1>5, <2>2
  <2> QED
    BY <1>1, <2>3
<1>8. \A n, m \in DOMAIN Others : Others[n] = Others[m] => n = m
  <2> SUFFICES ASSUME NEW n \in DOMAIN Others, NEW m \in DOMAIN Others, Others[n] = Others[m]
               PROVE  n = m
    OBVIOUS
  <2>1. n + 1 = m + 1
    BY <1>4, <1>5
  <2> QED
    BY <2>1, <1>1
<1>9. \A n \in DOMAIN Order : Order[n] \in Tools
  BY <1>2, <1>4, <1>6
<1>10. \A t \in Tools : \E n \in DOMAIN Order : Order[n] = t
  BY <1>1, <1>3, <1>4, <1>6
<1> QED
  BY <1>1, <1>2, <1>5, <1>6, <1>7, <1>8, <1>9, <1>10 DEF S

\* The tools whose runner is always stopped under the lock that it is read under:
\* the clicker, those whose sync function reads the slot again, and all tools
\* while nobody rebinds a key.
Steady == {t \in Tools : t = Clicker \/ t \in Rereaders \/ "rebind" \notin Events}

Leaving == gui.at \in {"closing", "exited"}

\* A startup or teardown is numbered when it begins.
Numbered == \A g \in Gens : pc[g] = "none" <=> g > generation

\* Who has taken runners has yet to stop them.
TakenInTime ==
  /\ \A g \in Gens : own[g] # Nothing => pc[g] \in {"rollingBack", "stop", "disconnect"}
  /\ own[Gui] # Nothing => gui.at = "closing"

\* lifecycleMu is held by who waits for a runner, and a slot whose runner is
\* being replaced stays empty.
Locked ==
  /\ \A g \in Gens :
       /\ pc[g] \in {"start", "waitOld"} => at[g] \in DOMAIN Others
       /\ pc[g] = "rollingBack" => lifecycleMu = g
       /\ pc[g] = "waitOld" => lifecycleMu = g /\ tools[Others[at[g]]] = Nil
  /\ gui.at = "syncWait" => lifecycleMu = Gui /\ tools[gui.tool] = Nil
  /\ gui.at \in {"syncStop", "syncStart", "syncWait"} =>
       gui.tool \in ToSet(Others) /\ "rebind" \in Events

Early == {"session", "check", "clicker"}

\* The startup in progress finds no clicker.
NoClickerYet ==
  \A g \in Gens : Still(g) /\ pc[g] \in Early => ~Alive(Clicker, tools[Clicker])

Hands == \A t \in Steady : InHand(t)

HandInv == Numbered /\ TakenInTime /\ Locked /\ NoClickerYet /\ Hands

\* A startup that is cancelled undoes what it has published.
Undoes(g, t) ==
  /\ ~Still(g)
  /\ \/ pc[g] \in {"gate", "start", "waitOld", "rollback"}
     \/ pc[g] \in {"recheck", "drop"} /\ t = Clicker /\ tools[t] = mine[g]

ShowsOn == badge = "ON" /\ session # Nil

StartingShows == starting => ShowsOn
NoFailure == \A n \in DOMAIN queue : queue[n] # "toolsOff"
SessionAwaits ==
  \A g \in Gens : pc[g] = "session" /\ g \notin ctxDone => startupCancel = g /\ session # Nil
LiveShown ==
  "rebind" \notin Events =>
    \A t \in Tools : tools[t] # Nil /\ phase[t][tools[t]] = "live" =>
      ShowsOn \/ \E g \in Gens : Undoes(g, t)

\* Until the window is closed, the badge shows ON for whatever is live and is
\* not about to be undone.
ShownInv == Leaving \/ (StartingShows /\ NoFailure /\ SessionAwaits /\ LiveShown)

-----------------------------------------------------------------------------
\* What keeps a part of the state well typed.
LEMMA Stay ==
  /\ FlagsOK /\ UNCHANGED flags => FlagsOK'
  /\ SessionsOK /\ UNCHANGED sessions => SessionsOK'
  /\ SlotsOK /\ UNCHANGED <<tools, lifecycleMu>> => SlotsOK'
  /\ WidgetsOK /\ UNCHANGED widgets => WidgetsOK'
  /\ GuiOK /\ UNCHANGED <<queue, gui>> => GuiOK'
  /\ JobsOK /\ UNCHANGED jobs => JobsOK'
  /\ RunnersOK /\ (UNCHANGED runners \/ UNCHANGED <<phase, sessOf>>) => RunnersOK'
  /\ EnvOK /\ UNCHANGED env => EnvOK'
<1>1. FlagsOK /\ UNCHANGED flags => FlagsOK'
  BY DEF FlagsOK, flags
<1>2. SessionsOK /\ UNCHANGED sessions => SessionsOK'
  BY DEF SessionsOK, sessions
<1>3. SlotsOK /\ UNCHANGED <<tools, lifecycleMu>> => SlotsOK'
  BY DEF SlotsOK
<1>4. WidgetsOK /\ UNCHANGED widgets => WidgetsOK'
  BY DEF WidgetsOK, widgets
<1>5. GuiOK /\ UNCHANGED <<queue, gui>> => GuiOK'
  BY DEF GuiOK
<1>6. JobsOK /\ UNCHANGED jobs => JobsOK'
  BY DEF JobsOK, jobs
<1>7. RunnersOK /\ (UNCHANGED runners \/ UNCHANGED <<phase, sessOf>>) => RunnersOK'
  BY DEF RunnersOK, runners
<1>8. EnvOK /\ UNCHANGED env => EnvOK'
  BY DEF EnvOK, env
<1> QED
  BY <1>1, <1>2, <1>3, <1>4, <1>5, <1>6, <1>7, <1>8

\* Stop on a run changes its phase only, and to "stopping".
LEMMA Asking ==
  ASSUME RunnersOK, NEW t \in Tools, NEW i \in Ids \cup {Nil}
  PROVE  /\ Asked(phase, t, i) \in [Tools -> [Ids -> {"none", "live", "stopping", "over"}]]
         /\ \A u \in Tools, j \in Ids :
              Asked(phase, t, i)[u][j] =
                IF u = t /\ j = i /\ phase[t][i] = "live" THEN "stopping" ELSE phase[u][j]
BY Numbers DEF RunnersOK, Asked

\* A launch takes an unused number.
LEMMA Launching ==
  ASSUME RunnersOK, SlotsOK, NEW t \in Tools, NEW s \in Nat, Launch(t, s)
  PROVE  /\ Fresh(t) \in Ids /\ phase[t][Fresh(t)] = "none"
         /\ RunnersOK'
         /\ tools' \in [Tools -> Ids \cup {Nil}]
         /\ tools'[t] = Fresh(t) /\ \A u \in Tools : u # t => tools'[u] = tools[u]
         /\ \A u \in Tools, j \in Ids :
              phase'[u][j] = IF u = t /\ j = Fresh(t) THEN "live" ELSE phase[u][j]
<1>1. Fresh(t) \in Ids /\ phase[t][Fresh(t)] = "none"
  BY DEF Launch, Unused, Fresh
<1> QED
  BY <1>1 DEF Launch, RunnersOK, SlotsOK

\* A step of stopAndWait asks a run to stop, or lets one go that is over.
LEMMA Draining ==
  ASSUME RunnersOK, JobsOK, NEW o \in Owners, DrainStep(o)
  PROVE  /\ phase' \in [Tools -> [Ids -> {"none", "live", "stopping", "over"}]]
         /\ own' \in [Owners -> [Tools -> Ids \cup {Nil}]]
         /\ own[o] # Nothing
         /\ \/ /\ own' = own
               /\ \E t \in Tools : /\ own[o][t] \in Ids /\ phase' = Asked(phase, t, own[o][t])
            \/ /\ phase' = phase
               /\ \E t \in Tools : /\ own[o][t] \in Ids /\ phase[t][own[o][t]] = "over"
                                   /\ own' = [own EXCEPT ![o][t] = Nil]
<1>1. PICK n \in DOMAIN Order :
        /\ own[o][Order[n]] # Nil
        /\ \/ /\ phase[Order[n]][own[o][Order[n]]] = "live"
              /\ phase' = Asked(phase, Order[n], own[o][Order[n]])
              /\ own' = own
           \/ /\ phase[Order[n]][own[o][Order[n]]] = "over"
              /\ own' = [own EXCEPT ![o][Order[n]] = Nil]
              /\ phase' = phase
  BY DEF DrainStep
<1>2. Order[n] \in Tools
  BY OrderIsTools
<1>3. own[o][Order[n]] \in Ids /\ own[o] # Nothing
  BY <1>1, <1>2 DEF JobsOK, Nothing
<1>4. CASE own' = own /\ phase' = Asked(phase, Order[n], own[o][Order[n]])
  BY <1>2, <1>3, <1>4, Asking DEF JobsOK
<1>5. CASE /\ phase[Order[n]][own[o][Order[n]]] = "over"
           /\ own' = [own EXCEPT ![o][Order[n]] = Nil]
           /\ phase' = phase
  <2>1. own' \in [Owners -> [Tools -> Ids \cup {Nil}]]
    BY <1>2, <1>5 DEF JobsOK
  <2> QED
    BY <1>2, <1>3, <1>5, <2>1 DEF RunnersOK
<1> QED
  BY <1>1, <1>4, <1>5

\* A posted closure is one of Closures.
LEMMA Posting ==
  ASSUME GuiOK, NEW c \in Closures, Post(c), UNCHANGED gui PROVE GuiOK'
<1>1. Append(queue, c) \in Seq(Closures)
  BY DEF GuiOK
<1> QED
  BY <1>1 DEF GuiOK, Post

-----------------------------------------------------------------------------
(***************************************************************************)
(* Type correctness                                                        *)
(***************************************************************************)
LEMMA StartTyped ==
  ASSUME FlagsOK, WidgetsOK, JobsOK, OnStart
  PROVE  FlagsOK' /\ WidgetsOK' /\ JobsOK'
<1>1. CASE UNCHANGED <<flags, widgets, jobs>>
  BY <1>1, Stay
<1>2. CASE BeginStartup
  <2>1. generation' \in Gens
    BY <1>2, ToolsAssumption DEF BeginStartup, FlagsOK, Gens
  <2>2. FlagsOK'
    BY <1>2, <2>1 DEF BeginStartup, FlagsOK, Gens
  <2>3. WidgetsOK'
    BY <1>2 DEF BeginStartup, WidgetsOK, SetToolsStarted
  <2>4. Cancelled \subseteq Gens
    BY ToolsAssumption DEF FlagsOK, JobsOK, Cancelled, Gens, Nil
  <2>5. JobsOK'
    BY <1>2, <2>1, <2>4 DEF BeginStartup, JobsOK
  <2> QED
    BY <2>2, <2>3, <2>5
<1> QED
  BY <1>1, <1>2 DEF OnStart

\* A teardown that begins keeps the flags and the GUI thread well typed.
LEMMA BeginTyped ==
  ASSUME FlagsOK, NEW kind \in {"stop", "disconnect"}, BeginTeardown(kind)
  PROVE  /\ FlagsOK'
         /\ gui' \in [at : {"stop", "disconnect"}, tool : Tools, run : Ids \cup {Nil}, sess : Nat,
                      had : BOOLEAN]
<1>1. IsStarted \in BOOLEAN
  BY DEF IsStarted, AnyRunning, FlagsOK
<1>2. FlagsOK'
  BY DEF FlagsOK, BeginTeardown
<1> QED
  BY <1>1, <1>2, OrderIsTools DEF BeginTeardown, Idle, Nil


\* Every step keeps the types, given that a startup that starts a tool is at one.
LEMMA NextTypeOK ==
  ASSUME TypeOK, Next,
         \A g \in Gens : pc[g] \in {"start", "waitOld"} => at[g] \in DOMAIN Others
  PROVE  TypeOK'
<1> USE DEF TypeOK
<1>1. ASSUME RunClosure PROVE TypeOK'
  <2>1. queue' \in Seq(Closures) /\ Head(queue) \in Closures
    BY <1>1 DEF RunClosure, GuiOK
  <2>2. CASE Head(queue) \in {"toolsOn", "toolsOff", "ready", "retry"}
    <3>1. WidgetsOK' /\ UNCHANGED <<flags, jobs, gui>>
      BY <1>1, <2>2 DEF RunClosure, Closure, SetToolsStarted, WidgetsOK
    <3>2. GuiOK'
      BY <2>1, <3>1 DEF GuiOK
    <3> QED
      BY <1>1, <3>1, <3>2, Stay DEF RunClosure
  <2>3. CASE Head(queue) = "stopped"
    <3>1. FlagsOK' /\ UNCHANGED <<widgets, jobs, gui>>
      BY <1>1, <2>3 DEF RunClosure, Closure, FlagsOK
    <3>2. GuiOK'
      BY <2>1, <3>1 DEF GuiOK
    <3> QED
      BY <1>1, <3>1, <3>2, Stay DEF RunClosure
  <2>4. CASE Head(queue) \in {"toggle", "disconnect"}
    <3>1. \/ OnStart /\ UNCHANGED gui
          \/ /\ \E kind \in {"stop", "disconnect"} : BeginTeardown(kind)
             /\ UNCHANGED <<widgets, jobs>>
      BY <1>1, <2>4 DEF RunClosure, Closure
    <3>2. CASE OnStart /\ UNCHANGED gui
      <4>1. GuiOK'
        BY <2>1, <3>2 DEF GuiOK
      <4> QED
        BY <1>1, <3>2, <4>1, StartTyped, Stay DEF RunClosure
    <3>3. CASE /\ \E kind \in {"stop", "disconnect"} : BeginTeardown(kind)
               /\ UNCHANGED <<widgets, jobs>>
      <4>1. /\ FlagsOK' /\ gui' \in [at : {"stop", "disconnect"}, tool : Tools,
                                     run : Ids \cup {Nil}, sess : Nat, had : BOOLEAN]
        BY <3>3, BeginTyped
      <4>2. GuiOK'
        BY <2>1, <4>1 DEF GuiOK
      <4> QED
        BY <1>1, <3>3, <4>1, <4>2, Stay DEF RunClosure
    <3> QED
      BY <3>1, <3>2, <3>3
  <2> QED
    BY <2>1, <2>2, <2>3, <2>4 DEF Closures
<1>2. ASSUME Teardown PROVE TypeOK'
  <2>0. generation' \in Gens /\ Cancelled \subseteq Gens
    BY <1>2, ToolsAssumption DEF FlagsOK, JobsOK, Teardown, Cancelled, Gens, Nil
  <2>a. session' = session \/ session' = Nil
    BY <1>2 DEF Teardown
  <2>b. UNCHANGED <<closedSessions, opened>>
    BY <1>2 DEF Teardown
  <2>1. FlagsOK'
    <3>1. starting' = FALSE /\ startupCancel' = Nil /\ UNCHANGED <<stopping, shuttingDown>>
      BY <1>2 DEF Teardown
    <3>2. generation' \in 0 .. MaxCommands /\ startupCancel' \in 0 .. MaxCommands
      BY <2>0, <3>1, ToolsAssumption DEF Gens, Nil
    <3> QED
      BY <3>1, <3>2 DEF FlagsOK
  <2>2. SessionsOK'
    BY <1>2, <2>a, <2>b DEF SessionsOK, Teardown, Nil
  <2>3. SlotsOK'
    BY <1>2 DEF SlotsOK, Teardown, Nothing
  <2>4. WidgetsOK'
    BY <1>2 DEF WidgetsOK, Teardown, SetToolsStarted
  <2>5. GuiOK'
    BY <1>2, OrderIsTools DEF GuiOK, Teardown, Idle, Nil
  <2>7. own' \in [Owners -> [Tools -> Ids \cup {Nil}]] /\ sess' \in [Gens -> Nat]
    BY <1>2, <2>0, Numbers DEF Teardown, JobsOK, SlotsOK, SessionsOK
  <2>6. JobsOK'
    BY <1>2, <2>0, <2>7 DEF JobsOK, Teardown, Goto
  <2> QED
    BY <1>2, <2>1, <2>2, <2>3, <2>4, <2>5, <2>6, Stay DEF Teardown
<1>3. ASSUME SyncStop PROVE TypeOK'
  <2>1. SlotsOK'
    BY <1>3 DEF SlotsOK, SyncStop
  <2>2. GuiOK'
    BY <1>3, OrderIsTools DEF GuiOK, SyncStop, Idle, Nil
  <2>3. gui.tool \in Tools /\ RunnerToStop \in Ids \cup {Nil}
    BY DEF GuiOK, SlotsOK, RunnerToStop
  <2>4. RunnersOK'
    BY <1>3, <2>3, Asking DEF RunnersOK, SyncStop
  <2> QED
    BY <1>3, <2>1, <2>2, <2>4, Stay DEF SyncStop
<1>4. ASSUME SyncStart PROVE TypeOK'
  <2> DEFINE t == gui.tool
  <2>1. t \in Tools /\ tools[t] \in Ids \cup {Nil} /\ session \in Nat /\ gui.at = "syncStart"
    BY <1>4 DEF GuiOK, SlotsOK, SessionsOK, SyncStart
  <2>2. CASE /\ TakeOld(t, Gui)
             /\ gui' = [gui EXCEPT !.at = "syncWait", !.run = tools[t], !.sess = session]
             /\ UNCHANGED queue
    <3>1. SlotsOK'
      BY <2>1, <2>2, Numbers DEF SlotsOK, TakeOld
    <3>2. RunnersOK'
      BY <2>1, <2>2, Asking DEF RunnersOK, TakeOld
    <3>3. GuiOK'
      BY <2>1, <2>2 DEF GuiOK
    <3> QED
      BY <1>4, <3>1, <3>2, <3>3, Stay DEF SyncStart
  <2>3. CASE Launch(t, session) /\ gui' = Idle /\ UNCHANGED <<queue, lifecycleMu>>
    <3>1. RunnersOK' /\ SlotsOK'
      BY <2>1, <2>3, Launching DEF SlotsOK
    <3>2. GuiOK'
      BY <2>3, OrderIsTools DEF GuiOK, Idle, Nil
    <3> QED
      BY <1>4, <3>1, <3>2, Stay DEF SyncStart
  <2> QED
    BY <1>4, <2>2, <2>3 DEF SyncStart
<1>5. ASSUME SyncWait PROVE TypeOK'
  <2>1. gui.tool \in Tools /\ gui.sess \in Nat
    BY DEF GuiOK
  <2>2. RunnersOK' /\ SlotsOK'
    BY <1>5, <2>1, Launching DEF SlotsOK, SyncWait
  <2>3. GuiOK'
    BY <1>5, OrderIsTools DEF GuiOK, SyncWait, Idle, Nil
  <2> QED
    BY <1>5, <2>2, <2>3, Stay DEF SyncWait
<1>6. ASSUME Shutdown PROVE TypeOK'
  <2>0. Cancelled \subseteq Gens
    BY ToolsAssumption DEF FlagsOK, JobsOK, Cancelled, Gens, Nil
  <2>1. FlagsOK'
    BY <1>6, ToolsAssumption DEF FlagsOK, Shutdown, Nil
  <2>2. SessionsOK'
    BY <1>6 DEF SessionsOK, Shutdown, Nil
  <2>3. SlotsOK'
    BY <1>6 DEF SlotsOK, Shutdown, Nothing
  <2>4. GuiOK'
    BY <1>6, OrderIsTools DEF GuiOK, Shutdown, Idle, Nil, SessionsOK
  <2>5. JobsOK'
    BY <1>6, <2>0, Numbers DEF JobsOK, Shutdown, SlotsOK
  <2>6. EnvOK'
    BY <1>6 DEF EnvOK, Shutdown
  <2> QED
    BY <1>6, <2>1, <2>2, <2>3, <2>4, <2>5, <2>6, Stay DEF Shutdown
<1>7. ASSUME Closing PROVE TypeOK'
  <2>1. gui.sess \in Nat /\ gui.at = "closing"
    BY <1>7 DEF GuiOK, Closing
  <2>2. CASE DrainStep(Gui) /\ UNCHANGED <<closedSessions, gui>>
    <3>1. RunnersOK' /\ JobsOK'
      BY <1>7, <2>2, Draining, Numbers DEF RunnersOK, JobsOK, Closing
    <3> QED
      BY <1>7, <2>2, <3>1, Stay DEF Closing, sessions
  <2>3. CASE /\ closedSessions' = closedSessions \cup ({gui.sess} \ {Nil})
             /\ gui' = [Idle EXCEPT !.at = "exited"]
             /\ UNCHANGED <<own, phase>>
    <3>1. SessionsOK'
      BY <1>7, <2>1, <2>3 DEF SessionsOK, Closing
    <3>2. GuiOK'
      BY <1>7, <2>3, OrderIsTools DEF GuiOK, Closing, Idle, Nil
    <3>3. JobsOK' /\ RunnersOK'
      BY <1>7, <2>3, Stay DEF Closing, jobs, runners
    <3> QED
      BY <1>7, <3>1, <3>2, <3>3, Stay DEF Closing
  <2> QED
    BY <1>7, <2>2, <2>3 DEF Closing
<1>8. ASSUME ClickStart PROVE TypeOK'
  <2>1. EnvOK'
    BY <1>8, ToolsAssumption DEF EnvOK, ClickStart, Command
  <2> QED
    BY <1>8, <2>1, StartTyped, Stay DEF ClickStart
<1>9. ASSUME ClickStop PROVE TypeOK'
  <2>1. EnvOK'
    BY <1>9, ToolsAssumption DEF EnvOK, ClickStop, Command
  <2>2. FlagsOK' /\ GuiOK'
    BY <1>9, BeginTyped DEF ClickStop, GuiOK
  <2> QED
    BY <1>9, <2>1, <2>2, Stay DEF ClickStop
<1>10. ASSUME ClickStartViiper PROVE TypeOK'
  <2>1. WidgetsOK'
    BY <1>10 DEF WidgetsOK, ClickStartViiper
  <2>2. EnvOK'
    BY <1>10 DEF EnvOK, ClickStartViiper
  <2> QED
    BY <1>10, <2>1, <2>2, Stay DEF ClickStartViiper
<1>11. ASSUME CloseWindow PROVE TypeOK'
  <2>1. FlagsOK'
    BY <1>11 DEF FlagsOK, CloseWindow
  <2>2. GuiOK'
    BY <1>11, OrderIsTools DEF GuiOK, CloseWindow, Idle, Nil
  <2> QED
    BY <1>11, <2>1, <2>2, Stay DEF CloseWindow
<1>12. ASSUME NEW t \in ToSet(Others), Rebind(t) PROVE TypeOK'
  <2>0. t \in Tools /\ tools[t] \in Ids \cup {Nil}
    BY OrderIsTools DEF SlotsOK
  <2>1. EnvOK'
    BY <1>12, ToolsAssumption DEF EnvOK, Rebind, Command
  <2>2. WidgetsOK'
    BY <1>12 DEF WidgetsOK, Rebind
  <2>3. \/ gui' = Idle
        \/ gui' = [Idle EXCEPT !.at = "syncStart", !.tool = t]
        \/ gui' = [Idle EXCEPT !.at = "syncStop", !.tool = t, !.run = tools[t]]
    BY <1>12 DEF Rebind
  <2>4. GuiOK'
    BY <1>12, <2>0, <2>3, OrderIsTools DEF GuiOK, Rebind, Idle, Nil
  <2> QED
    BY <1>12, <2>1, <2>2, <2>4, Stay DEF Rebind
<1>13. ASSUME NEW t \in ToSet(Others), ChangeMode(t) PROVE TypeOK'
  <2>1. EnvOK'
    BY <1>13, ToolsAssumption DEF EnvOK, ChangeMode, Command
  <2>2. GuiOK'
    BY <1>13, OrderIsTools DEF GuiOK, ChangeMode, Idle, Nil
  <2> QED
    BY <1>13, <2>1, <2>2, Stay DEF ChangeMode
<1>14. ASSUME NEW g \in Gens, ReadSession(g) PROVE TypeOK'
  <2>1. FlagsOK'
    BY <1>14 DEF FlagsOK, ReadSession
  <2>2. JobsOK'
    BY <1>14 DEF JobsOK, SessionsOK, ReadSession, Goto
  <2>3. GuiOK'
    BY <1>14, Posting, Stay DEF ReadSession, Closures
  <2> QED
    BY <1>14, <2>1, <2>2, <2>3, Stay DEF ReadSession
<1>15. ASSUME NEW g \in Gens, Check(g) PROVE TypeOK'
  <2>1. JobsOK'
    BY <1>15 DEF JobsOK, Check, Goto
  <2> QED
    BY <1>15, <2>1, Stay DEF Check
<1>16. ASSUME NEW g \in Gens, StartClicker(g) PROVE TypeOK'
  <2>1. CASE /\ Launch(Clicker, sess[g])
             /\ mine' = [mine EXCEPT ![g] = Fresh(Clicker)]
             /\ Goto(g, "recheck")
    <3>1. sess[g] \in Nat /\ Clicker \in Tools
      BY OrderIsTools DEF JobsOK
    <3>2. RunnersOK' /\ SlotsOK' /\ Fresh(Clicker) \in Ids
      BY <1>16, <2>1, <3>1, Launching DEF SlotsOK, StartClicker
    <3>3. JobsOK'
      BY <1>16, <2>1, <3>2 DEF JobsOK, StartClicker, Goto
    <3> QED
      BY <1>16, <3>2, <3>3, Stay DEF StartClicker
  <2>2. CASE Goto(g, "done") /\ UNCHANGED <<runners, tools, mine>>
    <3>1. JobsOK'
      BY <1>16, <2>2 DEF JobsOK, StartClicker, Goto
    <3> QED
      BY <1>16, <2>2, <3>1, Stay DEF StartClicker
  <2> QED
    BY <1>16, <2>1, <2>2 DEF StartClicker
<1>17. ASSUME NEW g \in Gens, Recheck(g) PROVE TypeOK'
  <2>1. JobsOK'
    BY <1>17 DEF JobsOK, Recheck, Goto
  <2> QED
    BY <1>17, <2>1, Stay DEF Recheck
<1>18. ASSUME NEW g \in Gens, Drop(g) PROVE TypeOK'
  <2>1. SlotsOK'
    BY <1>18 DEF SlotsOK, Drop, Unpublished
  <2>2. JobsOK'
    BY <1>18 DEF JobsOK, Drop, Goto
  <2>3. mine[g] \in Ids \cup {Nil} /\ Clicker \in Tools
    BY OrderIsTools DEF JobsOK
  <2>4. RunnersOK'
    BY <1>18, <2>3, Asking DEF RunnersOK, Drop
  <2> QED
    BY <1>18, <2>1, <2>2, <2>4, Stay DEF Drop
<1>19. ASSUME NEW g \in Gens, Await(g) PROVE TypeOK'
  <2>1. JobsOK'
    BY <1>19 DEF JobsOK, Await, Goto
  <2> QED
    BY <1>19, <2>1, Stay DEF Await
<1>20. ASSUME NEW g \in Gens, Gate(g) PROVE TypeOK'
  <2>1. at[g] \in 0 .. Len(Others) /\ bound \in SUBSET ToSet(Others)
    BY DEF JobsOK, WidgetsOK
  <2>2. at' \in [Gens -> 0 .. Len(Others)]
    BY <1>20, <2>1, OrderIsTools DEF JobsOK, Gate, AllStarted
  <2>3. JobsOK'
    BY <1>20, <2>1, <2>2 DEF JobsOK, Gate, Goto
  <2> QED
    BY <1>20, <2>3, Stay DEF Gate
<1>21. ASSUME NEW g \in Gens, at[g] \in DOMAIN Others, StartOther(g) PROVE TypeOK'
  <2> DEFINE t == Others[at[g]]
  <2>1. t \in Tools /\ tools[t] \in Ids \cup {Nil} /\ session \in Nat
    BY <1>21, OrderIsTools DEF SlotsOK, SessionsOK
  <2>2. CASE Goto(g, "gate") /\ UNCHANGED <<lifecycleMu, tools, runners, mine, sess>>
    <3>1. JobsOK'
      BY <1>21, <2>2 DEF JobsOK, StartOther, LaunchBy, Goto
    <3> QED
      BY <1>21, <2>2, <3>1, Stay DEF StartOther, LaunchBy
  <2>3. CASE /\ TakeOld(t, g)
             /\ mine' = [mine EXCEPT ![g] = tools[t]]
             /\ sess' = [sess EXCEPT ![g] = session]
             /\ Goto(g, "waitOld")
    <3>1. SlotsOK'
      BY <2>1, <2>3, Numbers DEF SlotsOK, TakeOld
    <3>2. RunnersOK'
      BY <2>1, <2>3, Asking DEF RunnersOK, TakeOld
    <3>3. JobsOK'
      BY <1>21, <2>1, <2>3 DEF JobsOK, StartOther, LaunchBy, Goto
    <3> QED
      BY <1>21, <3>1, <3>2, <3>3, Stay DEF StartOther, LaunchBy
  <2>4. CASE Launch(t, session) /\ Goto(g, "gate") /\ UNCHANGED <<lifecycleMu, mine, sess>>
    <3>1. RunnersOK' /\ SlotsOK'
      BY <2>1, <2>4, Launching DEF SlotsOK
    <3>2. JobsOK'
      BY <1>21, <2>4 DEF JobsOK, StartOther, LaunchBy, Goto
    <3> QED
      BY <1>21, <3>1, <3>2, Stay DEF StartOther, LaunchBy
  <2> QED
    BY <1>21, <2>2, <2>3, <2>4 DEF StartOther, LaunchBy
<1>22. ASSUME NEW g \in Gens, at[g] \in DOMAIN Others, WaitOld(g) PROVE TypeOK'
  <2>1. Others[at[g]] \in Tools /\ sess[g] \in Nat
    BY <1>22, OrderIsTools DEF JobsOK
  <2>2. RunnersOK' /\ SlotsOK'
    BY <1>22, <2>1, Launching DEF SlotsOK, WaitOld, LaunchBy
  <2>3. JobsOK'
    BY <1>22 DEF JobsOK, WaitOld, LaunchBy, Goto
  <2> QED
    BY <1>22, <2>2, <2>3, Stay DEF WaitOld, LaunchBy
<1>23. ASSUME NEW g \in Gens, Rollback(g) PROVE TypeOK'
  <2>1. SlotsOK'
    BY <1>23, Numbers DEF SlotsOK, Rollback, Nothing
  <2>2. JobsOK'
    BY <1>23, Numbers DEF JobsOK, Rollback, Goto, SlotsOK
  <2> QED
    BY <1>23, <2>1, <2>2, Stay DEF Rollback
<1>24. ASSUME NEW g \in Gens, RollingBack(g) PROVE TypeOK'
  <2>1. CASE DrainStep(g) /\ UNCHANGED <<lifecycleMu, pc>>
    <3>1. RunnersOK' /\ JobsOK'
      BY <1>24, <2>1, Draining, Numbers DEF RunnersOK, JobsOK, RollingBack
    <3> QED
      BY <1>24, <2>1, <3>1, Stay DEF RollingBack, sessions
  <2>2. CASE lifecycleMu' = Free /\ Goto(g, "done") /\ UNCHANGED <<own, phase>>
    <3>1. JobsOK' /\ SlotsOK' /\ RunnersOK'
      BY <1>24, <2>2, Numbers DEF JobsOK, SlotsOK, RunnersOK, RollingBack, Goto
    <3> QED
      BY <1>24, <3>1, Stay DEF RollingBack
  <2> QED
    BY <1>24, <2>1, <2>2 DEF RollingBack
<1>25. ASSUME NEW g \in Gens, Finish(g) PROVE TypeOK'
  <2>1. FlagsOK'
    BY <1>25 DEF FlagsOK, Finish
  <2>2. JobsOK'
    BY <1>25 DEF JobsOK, Finish, Goto
  <2>3. GuiOK'
    BY <1>25, Posting, Stay DEF Finish, Closures
  <2> QED
    BY <1>25, <2>1, <2>2, <2>3, Stay DEF Finish
<1>26. ASSUME NEW g \in Gens, FinishTeardown(g) PROVE TypeOK'
  <2>1. CASE DrainStep(g) /\ UNCHANGED <<closedSessions, queue, pc>>
    <3>1. RunnersOK' /\ JobsOK'
      BY <1>26, <2>1, Draining, Numbers DEF RunnersOK, JobsOK, FinishTeardown, Draws
    <3> QED
      BY <1>26, <2>1, <3>1, Stay DEF FinishTeardown, Draws, sessions
  <2>2. CASE /\ closedSessions' = IF pc[g] = "stop" THEN closedSessions
                                  ELSE closedSessions \cup ({sess[g]} \ {Nil})
             /\ Post("stopped") /\ Goto(g, "done") /\ UNCHANGED <<own, phase>>
    <3>1. SessionsOK'
      BY <1>26, <2>2 DEF SessionsOK, JobsOK, FinishTeardown, Draws
    <3>2. JobsOK' /\ RunnersOK'
      BY <1>26, <2>2 DEF JobsOK, RunnersOK, FinishTeardown, Draws, Goto
    <3>3. GuiOK'
      BY <1>26, <2>2, Posting DEF FinishTeardown, Draws, Closures
    <3> QED
      BY <1>26, <3>1, <3>2, <3>3, Stay DEF FinishTeardown, Draws
  <2> QED
    BY <1>26, <2>1, <2>2 DEF FinishTeardown, Draws
<1>27. ASSUME OpenEnds PROVE TypeOK'
  <2>1. SessionsOK'
    <3>1. CASE opened' = opened + 1 /\ session' = opened' /\ closedSessions' = closedSessions \cup ({session} \ {Nil})
      <4>1. opened' \in Nat
        BY <3>1 DEF SessionsOK
      <4> QED
        BY <3>1, <4>1 DEF SessionsOK
    <3>2. CASE UNCHANGED <<session, closedSessions, opened>>
      BY <3>2 DEF SessionsOK
    <3> QED
      BY <1>27, <3>1, <3>2 DEF OpenEnds, sessions
  <2>2. GuiOK'
    BY <1>27, Posting DEF OpenEnds, Closures
  <2>3. EnvOK'
    BY <1>27 DEF EnvOK, OpenEnds
  <2> QED
    BY <1>27, <2>1, <2>2, <2>3, Stay DEF OpenEnds
<1>28. ASSUME MonitorSees PROVE TypeOK'
  <2>1. EnvOK'
    BY <1>28 DEF EnvOK, MonitorSees
  <2> QED
    BY <1>28, <2>1, Stay DEF MonitorSees
<1>29. ASSUME MonitorLoses PROVE TypeOK'
  <2>1. GuiOK'
    BY <1>29, Posting DEF MonitorLoses, Closures
  <2>2. EnvOK'
    <3>1. commands' \in 0 .. MaxCommands
      BY <1>29, ToolsAssumption DEF EnvOK, MonitorLoses, Command
    <3> QED
      BY <1>29, <3>1 DEF EnvOK, MonitorLoses
  <2> QED
    BY <1>29, <2>1, <2>2, Stay DEF MonitorLoses
<1>30. ASSUME PressToggle PROVE TypeOK'
  <2>1. EnvOK'
    BY <1>30, ToolsAssumption DEF EnvOK, PressToggle, Command
  <2> QED
    BY <1>30, <2>1, Stay DEF PressToggle
<1>31. ASSUME WatcherSees PROVE TypeOK'
  <2>1. GuiOK'
    BY <1>31, Posting DEF WatcherSees, Closures
  <2>2. EnvOK'
    BY <1>31 DEF EnvOK, WatcherSees
  <2> QED
    BY <1>31, <2>1, <2>2, Stay DEF WatcherSees
<1>32. ASSUME ReleaseToggle PROVE TypeOK'
  <2>1. EnvOK'
    BY <1>32 DEF EnvOK, ReleaseToggle
  <2> QED
    BY <1>32, <2>1, Stay DEF ReleaseToggle
<1>33. ASSUME NEW t \in Tools, NEW i \in Ids, RunnerEnds(t, i) PROVE TypeOK'
  <2>1. RunnersOK'
    BY <1>33 DEF RunnersOK, RunnerEnds
  <2> QED
    BY <1>33, <2>1, Stay DEF RunnerEnds
<1>34. CASE UNCHANGED vars
  BY <1>34, Stay DEF vars
<1> QED
  BY <1>1, <1>2, <1>3, <1>4, <1>5, <1>6, <1>7, <1>8, <1>9, <1>10, <1>11, <1>12, <1>13, <1>14, <1>15, <1>16, <1>17, <1>18, <1>19, <1>20, <1>21, <1>22, <1>23, <1>24, <1>25, <1>26, <1>27, <1>28, <1>29, <1>30, <1>31, <1>32, <1>33, <1>34
     DEF Next, GuiStep, UserEvent, EnvStep, JobStep, StartOther, WaitOld, LaunchBy

-----------------------------------------------------------------------------
(***************************************************************************)
(* Runners stay in somebody's hands                                        *)
(***************************************************************************)
\* The steps that start, stop or pass on runners.
MovesRunners ==
  \/ Teardown \/ SyncStop \/ SyncStart \/ SyncWait \/ Shutdown \/ Closing
  \/ \E g \in Gens : \/ StartClicker(g) \/ Drop(g) \/ StartOther(g) \/ WaitOld(g)
                     \/ Rollback(g) \/ RollingBack(g) \/ FinishTeardown(g)
  \/ \E t \in Tools, i \in Ids : RunnerEnds(t, i)

\* No other step touches a slot, a taken run or a phase.
LEMMA OthersMoveNone ==
  ASSUME TypeOK, Next PROVE MovesRunners \/ UNCHANGED <<tools, own, phase>>
<1>1. ASSUME GuiStep \/ UserEvent PROVE MovesRunners \/ UNCHANGED <<tools, own, phase>>
  <2>1. ASSUME RunClosure PROVE UNCHANGED <<tools, own, phase>>
    <3>1. Head(queue) \in Closures
      BY <2>1 DEF RunClosure, TypeOK, GuiOK
    <3> QED
      BY <2>1, <3>1 DEF RunClosure, Closure, Closures, OnStart, BeginStartup, jobs, runners
  <2>2. ASSUME UserEvent PROVE UNCHANGED <<tools, own, phase>>
    BY <2>2 DEF UserEvent, ClickStart, OnStart, BeginStartup, ClickStop, ClickStartViiper,
                CloseWindow, Rebind, ChangeMode, jobs, runners
  <2> QED
    BY <1>1, <2>1, <2>2 DEF GuiStep, MovesRunners
<1>2. ASSUME EnvStep \/ UNCHANGED vars PROVE UNCHANGED <<tools, own, phase>>
  BY <1>2 DEF EnvStep, OpenEnds, MonitorSees, MonitorLoses, PressToggle, WatcherSees,
              ReleaseToggle, vars, jobs, runners
<1>3. ASSUME NEW g \in Gens, JobStep(g) PROVE MovesRunners \/ UNCHANGED <<tools, own, phase>>
  BY <1>3 DEF JobStep, ReadSession, Check, Recheck, Await, Gate, Finish, MovesRunners, runners
<1> QED
  BY <1>1, <1>2, <1>3 DEF Next, MovesRunners

\* What every step that moves runners has to do with a live one.
LEMMA HandsKept ==
  ASSUME Hands,
         \A t \in Steady, i \in Ids : phase'[t][i] = "live" =>
           \/ tools'[t] = i
           \/ /\ phase[t][i] = "live"
              /\ tools[t] = i => \E o \in Owners : own'[o][t] = i
              /\ \A o \in Owners : own[o][t] = i => own'[o][t] = i
  PROVE  Hands'
BY DEF Hands, InHand, Known, Taken

\* Whoever takes all runners has taken none before.
LEMMA AllTaken ==
  ASSUME TypeOK, Hands, NEW o \in Owners, own[o] = Nothing,
         own' = [own EXCEPT ![o] = tools], phase' = phase
  PROVE  Hands'
<1>1. ASSUME NEW t \in Steady, NEW i \in Ids, NEW p \in Owners, own[p][t] = i
      PROVE  own'[p][t] = i
  BY <1>1, Numbers DEF TypeOK, JobsOK, Nothing, Steady, Nil
<1>2. ASSUME NEW t \in Steady, NEW i \in Ids, tools[t] = i PROVE own'[o][t] = i
  BY <1>2 DEF TypeOK, JobsOK
<1> QED
  BY <1>1, <1>2, HandsKept

\* stopAndWait lets go of runs that are over.
LEMMA DrainKeepsHands ==
  ASSUME TypeOK, Hands, NEW o \in Owners, DrainStep(o), UNCHANGED tools
  PROVE  Hands'
<1>1. RunnersOK /\ JobsOK
  BY DEF TypeOK
<1>2. CASE own' = own /\ \E t \in Tools : own[o][t] \in Ids /\ phase' = Asked(phase, t, own[o][t])
  <2>1. ASSUME NEW t \in Tools, NEW i \in Ids, phase'[t][i] = "live" PROVE phase[t][i] = "live"
    BY <1>1, <1>2, <2>1, Asking
  <2> QED
    BY <1>2, <2>1, HandsKept DEF Steady, Hands, InHand, Known, Taken
<1>3. CASE /\ phase' = phase
           /\ \E t \in Tools : /\ own[o][t] \in Ids /\ phase[t][own[o][t]] = "over"
                               /\ own' = [own EXCEPT ![o][t] = Nil]
  <2>1. ASSUME NEW t \in Tools, NEW i \in Ids, NEW p \in Owners, phase[t][i] = "live", own[p][t] = i
        PROVE  own'[p][t] = i
    BY <1>1, <1>3, <2>1 DEF JobsOK
  <2> QED
    BY <1>3, <2>1, HandsKept DEF Steady, Hands, InHand, Known, Taken
<1> QED
  BY <1>1, <1>2, <1>3, Draining

\* Stop on the run that is in the slot being emptied, or on one that is not live.
LEMMA EmptiedSlotKeepsHands ==
  ASSUME TypeOK, Hands, NEW t \in Tools, NEW i \in Ids \cup {Nil},
         phase' = Asked(phase, t, i), UNCHANGED own,
         \/ tools' = tools
         \/ tools' = [tools EXCEPT ![t] = Nil] /\ (t \in Steady => i = tools[t])
  PROVE  Hands'
<1>1. /\ RunnersOK
      /\ \A u \in Tools, j \in Ids :
           phase'[u][j] = "live" => phase[u][j] = "live" /\ ~(u = t /\ j = i)
  BY Asking DEF TypeOK
<1>2. ASSUME NEW u \in Steady, NEW j \in Ids, phase'[u][j] = "live", tools[u] = j
      PROVE  tools'[u] = j
  BY <1>1, <1>2 DEF TypeOK, SlotsOK, Steady
<1> QED
  BY <1>1, <1>2, HandsKept DEF Steady, Hands, InHand, Known, Taken

\* A launch fills a slot that no live run is in.
LEMMA LaunchKeepsHands ==
  ASSUME TypeOK, Hands, NEW t \in Tools, NEW s \in Nat, Launch(t, s), UNCHANGED own,
         ~Alive(t, tools[t])
  PROVE  Hands'
<1>1. /\ tools'[t] = Fresh(t) /\ \A u \in Tools : u # t => tools'[u] = tools[u]
      /\ \A u \in Tools, j \in Ids :
           phase'[u][j] = IF u = t /\ j = Fresh(t) THEN "live" ELSE phase[u][j]
  BY Launching DEF TypeOK
<1>2. ASSUME NEW u \in Steady, NEW j \in Ids, phase'[u][j] = "live", tools'[u] # j
      PROVE  phase[u][j] = "live" /\ tools[u] # j
  BY <1>1, <1>2, Numbers DEF Steady, Alive, Nil
<1> QED
  BY <1>1, <1>2, HandsKept DEF Steady, Hands, InHand, Known, Taken

\* No step lets go of a live run of a steady tool.
LEMMA NextHands ==
  ASSUME TypeOK, HandInv, Next PROVE Hands'
<1> USE DEF HandInv
<1>1. CASE UNCHANGED <<tools, own, phase>>
  BY <1>1 DEF Hands, InHand, Known, Taken
<1>2. CASE Teardown
  <2>1. generation' \in Gens /\ own[generation'] = Nothing
    <3>1. generation' \in Gens /\ generation' > generation
      BY <1>2, ToolsAssumption DEF Teardown, TypeOK, FlagsOK, Gens
    <3>2. pc[generation'] = "none"
      BY <3>1 DEF Numbered
    <3> QED
      BY <3>1, <3>2 DEF TakenInTime
  <2>2. own' = [own EXCEPT ![generation'] = tools] /\ phase' = phase
    BY <1>2 DEF Teardown, runners
  <2> QED
    BY <2>1, <2>2, AllTaken, Numbers
<1>3. CASE SyncStop
  <2>1. gui.tool \in Tools /\ RunnerToStop \in Ids \cup {Nil} /\ UNCHANGED own
    BY <1>3 DEF TypeOK, GuiOK, SlotsOK, RunnerToStop, SyncStop, jobs
  <2>2. gui.tool \in Steady => RunnerToStop = tools[gui.tool]
    BY <1>3, OrderIsTools DEF Locked, Steady, RunnerToStop, SyncStop
  <2> QED
    BY <1>3, <2>1, <2>2, EmptiedSlotKeepsHands DEF SyncStop
<1>4. CASE SyncStart
  <2>1. /\ gui.tool \in Tools /\ tools[gui.tool] \in Ids \cup {Nil} /\ session \in Nat
        /\ UNCHANGED own
    BY <1>4 DEF TypeOK, GuiOK, SlotsOK, SessionsOK, SyncStart, jobs
  <2>2. CASE TakeOld(gui.tool, Gui)
    BY <2>1, <2>2, EmptiedSlotKeepsHands DEF TakeOld
  <2>3. CASE Launch(gui.tool, session) /\ ~Alive(gui.tool, tools[gui.tool])
    BY <2>1, <2>3, LaunchKeepsHands
  <2> QED
    BY <1>4, <2>2, <2>3 DEF SyncStart
<1>5. CASE SyncWait
  <2>1. gui.tool \in Tools /\ gui.sess \in Nat /\ tools[gui.tool] = Nil /\ UNCHANGED own
    BY <1>5 DEF TypeOK, GuiOK, SyncWait, Locked, jobs
  <2> QED
    BY <1>5, <2>1, LaunchKeepsHands DEF SyncWait, Alive
<1>6. CASE Shutdown
  <2>1. own[Gui] = Nothing /\ own' = [own EXCEPT ![Gui] = tools] /\ phase' = phase
    BY <1>6 DEF Shutdown, TakenInTime, runners
  <2> QED
    BY <2>1, AllTaken, Numbers
<1>7. CASE Closing
  BY <1>1, <1>7, DrainKeepsHands, Numbers DEF Closing
<1>8. ASSUME NEW g \in Gens, StartClicker(g) PROVE Hands'
  <2>1. CASE Launch(Clicker, sess[g]) /\ Still(g)
    <3>1. sess[g] \in Nat /\ Clicker \in Tools /\ UNCHANGED own /\ pc[g] \in Early
      BY <1>8, OrderIsTools DEF TypeOK, JobsOK, StartClicker, Early
    <3> QED
      BY <2>1, <3>1, LaunchKeepsHands DEF NoClickerYet
  <2> QED
    BY <1>1, <1>8, <2>1 DEF StartClicker, runners
<1>9. ASSUME NEW g \in Gens, Drop(g) PROVE Hands'
  <2>1. mine[g] \in Ids \cup {Nil} /\ Clicker \in Tools /\ UNCHANGED own
    BY <1>9, OrderIsTools DEF TypeOK, JobsOK, Drop
  <2>2. \/ tools' = tools
        \/ tools' = [tools EXCEPT ![Clicker] = Nil] /\ mine[g] = tools[Clicker]
    BY <1>9 DEF Drop, Unpublished
  <2>3. phase' = Asked(phase, Clicker, mine[g])
    BY <1>9 DEF Drop
  <2> QED
    <3>1. CASE tools' = tools
      <4>1. \A u \in Tools, j \in Ids : phase'[u][j] = "live" => phase[u][j] = "live"
        BY <2>1, <2>3, Asking DEF TypeOK
      <4> QED
        BY <2>1, <3>1, <4>1 DEF Hands, InHand, Known, Taken, Steady
    <3>2. CASE tools' = [tools EXCEPT ![Clicker] = Nil] /\ mine[g] = tools[Clicker]
      BY <2>1, <2>3, <3>2, EmptiedSlotKeepsHands
    <3> QED
      BY <2>2, <3>1, <3>2
<1>10. ASSUME NEW g \in Gens, StartOther(g) PROVE Hands'
  <2> DEFINE t == Others[at[g]]
  <2>1. t \in Tools /\ tools[t] \in Ids \cup {Nil} /\ session \in Nat /\ UNCHANGED own
    BY <1>10, OrderIsTools DEF TypeOK, SlotsOK, SessionsOK, StartOther, LaunchBy, Locked
  <2>2. CASE TakeOld(t, g)
    BY <2>1, <2>2, EmptiedSlotKeepsHands DEF TakeOld
  <2>3. CASE Launch(t, session) /\ ~Alive(t, tools[t])
    BY <2>1, <2>3, LaunchKeepsHands
  <2>4. CASE UNCHANGED <<tools, runners>>
    BY <1>1, <2>1, <2>4 DEF runners
  <2> QED
    BY <1>10, <2>2, <2>3, <2>4 DEF StartOther, LaunchBy
<1>11. ASSUME NEW g \in Gens, WaitOld(g) PROVE Hands'
  <2>1. /\ Others[at[g]] \in Tools /\ sess[g] \in Nat /\ tools[Others[at[g]]] = Nil
        /\ UNCHANGED own
    BY <1>11, OrderIsTools DEF TypeOK, JobsOK, WaitOld, LaunchBy, Locked
  <2> QED
    BY <1>11, <2>1, LaunchKeepsHands DEF WaitOld, LaunchBy, Alive
<1>12. ASSUME NEW g \in Gens, Rollback(g) PROVE Hands'
  <2>1. own[g] = Nothing /\ own' = [own EXCEPT ![g] = tools] /\ phase' = phase
    BY <1>12 DEF Rollback, TakenInTime, runners
  <2> QED
    BY <2>1, AllTaken, Numbers
<1>13. ASSUME NEW g \in Gens, RollingBack(g) \/ FinishTeardown(g) PROVE Hands'
  BY <1>1, <1>13, DrainKeepsHands, Numbers DEF RollingBack, FinishTeardown, Draws
<1>14. ASSUME NEW t \in Tools, NEW i \in Ids, RunnerEnds(t, i) PROVE Hands'
  <2>1. /\ UNCHANGED <<tools, own>>
        /\ \A u \in Tools, j \in Ids : phase'[u][j] = "live" => phase[u][j] = "live"
    BY <1>14 DEF RunnerEnds, jobs, TypeOK, RunnersOK
  <2> QED
    BY <2>1 DEF Steady, Hands, InHand, Known, Taken
<1> QED
  BY <1>1, <1>2, <1>3, <1>4, <1>5, <1>6, <1>7, <1>8, <1>9, <1>10, <1>11, <1>12, <1>13, <1>14,
     OthersMoveNone DEF MovesRunners

-----------------------------------------------------------------------------
(***************************************************************************)
(* What holds the hands together                                           *)
(***************************************************************************)

-----------------------------------------------------------------------------
\* A goroutine moves itself, and only once it has begun.
LEMMA JobMovesItself ==
  ASSUME TypeOK, NEW g \in Gens, JobStep(g)
  PROVE  /\ UNCHANGED <<generation, gui>>
         /\ pc[g] # "none" /\ pc'[g] # "none" /\ \A h \in Gens \ {g} : pc'[h] = pc[h]
<1>1. UNCHANGED <<generation, gui>> /\ pc[g] # "none"
  BY DEF JobStep, ReadSession, Check, StartClicker, Recheck, Drop, Await, Gate, StartOther,
         WaitOld, LaunchBy, Rollback, RollingBack, Finish, FinishTeardown, Draws, flags
<1>2. DOMAIN pc = Gens
  BY DEF TypeOK, JobsOK
<1>3. ASSUME NEW x, x # "none", Goto(g, x)
      PROVE  pc'[g] # "none" /\ \A h \in Gens \ {g} : pc'[h] = pc[h]
  BY <1>2, <1>3 DEF Goto
<1>4. ASSUME UNCHANGED pc PROVE pc'[g] # "none" /\ \A h \in Gens \ {g} : pc'[h] = pc[h]
  BY <1>1, <1>4
<1>5. CASE ReadSession(g) \/ Check(g) \/ StartClicker(g) \/ Recheck(g) \/ Drop(g) \/ Await(g)
  BY <1>1, <1>3, <1>5 DEF ReadSession, Check, StartClicker, Recheck, Drop, Await
<1>6. CASE Gate(g) \/ StartOther(g) \/ WaitOld(g) \/ Rollback(g) \/ Finish(g)
  BY <1>1, <1>3, <1>6 DEF Gate, StartOther, WaitOld, LaunchBy, Rollback, Finish
<1>7. CASE RollingBack(g) \/ FinishTeardown(g)
  BY <1>1, <1>3, <1>4, <1>7 DEF RollingBack, FinishTeardown, Draws
<1> QED
  BY <1>1, <1>5, <1>6, <1>7 DEF JobStep

\* A startup or teardown begins with the next number, and others keep theirs.
LEMMA NextNumbered ==
  ASSUME TypeOK, HandInv, Next PROVE Numbered'
<1> USE DEF HandInv, Numbered
<1>1. CASE UNCHANGED <<pc, generation>>
  BY <1>1
<1>2. ASSUME generation' = generation + 1, NEW x, x # "none",
             pc' = [pc EXCEPT ![generation'] = x]
      PROVE  Numbered'
  BY <1>2, ToolsAssumption DEF TypeOK, FlagsOK, JobsOK, Gens
<1>3. ASSUME NEW g \in Gens, JobStep(g) PROVE Numbered'
  BY <1>3, JobMovesItself
<1>4. ASSUME GuiStep \/ UserEvent PROVE Numbered'
  <2>1. CASE OnStart
    <3>1. CASE BeginStartup
      BY <1>2, <3>1 DEF BeginStartup
    <3> QED
      BY <1>1, <2>1, <3>1 DEF OnStart, flags, jobs
  <2>2. CASE Teardown
    <3>1. /\ generation' = generation + 1 /\ pc' = [pc EXCEPT ![generation'] = gui.at]
          /\ gui.at # "none"
      BY <2>2 DEF Teardown, Goto
    <3> QED
      BY <1>2, <3>1
  <2>3. CASE RunClosure
    <3>1. Head(queue) \in Closures
      BY <2>3 DEF RunClosure, TypeOK, GuiOK
    <3> QED
      BY <1>1, <2>1, <2>3, <3>1 DEF RunClosure, Closure, Closures, BeginTeardown, flags, jobs
  <2> QED
    BY <1>1, <1>4, <2>1, <2>2, <2>3
       DEF GuiStep, SyncStop, SyncStart, SyncWait, Shutdown, Closing, UserEvent, ClickStart,
           ClickStop, BeginTeardown, ClickStartViiper, CloseWindow, Rebind, ChangeMode, flags, jobs
<1>5. ASSUME EnvStep \/ UNCHANGED vars \/ \E t \in Tools, i \in Ids : RunnerEnds(t, i)
      PROVE  Numbered'
  BY <1>1, <1>5 DEF EnvStep, OpenEnds, MonitorSees, MonitorLoses, PressToggle, WatcherSees,
                    ReleaseToggle, RunnerEnds, vars, flags, jobs
<1> QED
  BY <1>3, <1>4, <1>5 DEF Next

\* The next number has neither begun nor taken anything.
LEMMA NextNumberIsNew ==
  ASSUME TypeOK, HandInv, generation < MaxCommands
  PROVE  /\ generation + 1 \in Gens
         /\ pc[generation + 1] = "none" /\ own[generation + 1] = Nothing
<1>1. generation + 1 \in Gens /\ generation + 1 > generation
  BY ToolsAssumption DEF TypeOK, FlagsOK, Gens
<1>2. pc[generation + 1] = "none"
  BY <1>1 DEF HandInv, Numbered
<1> QED
  BY <1>1, <1>2 DEF HandInv, TakenInTime

\* Who has taken runners goes on until it has let go of them.
LEMMA NextTakenInTime ==
  ASSUME TypeOK, HandInv, Next PROVE TakenInTime'
<1> USE DEF HandInv, TakenInTime
<1>0. JobsOK /\ RunnersOK /\ SlotsOK
  BY DEF TypeOK
<1>1. ASSUME NEW g \in Gens, JobStep(g) PROVE TakenInTime'
  <2>1. UNCHANGED gui /\ \A h \in Gens \ {g} : pc'[h] = pc[h]
    BY <1>1, JobMovesItself
  <2>2. CASE RollingBack(g) \/ FinishTeardown(g)
    <3>1. CASE DrainStep(g) /\ UNCHANGED pc
      <4>1. own' = own \/ \E t \in Tools : own' = [own EXCEPT ![g][t] = Nil]
        BY <1>0, <3>1, Draining, Numbers
      <4>2. own[g] # Nothing
        BY <1>0, <3>1, Draining, Numbers
      <4>3. \A o \in Owners : o # g => own'[o] = own[o]
        BY <1>0, <4>1 DEF JobsOK
      <4> QED
        BY <2>1, <3>1, <4>2, <4>3, Numbers
    <3>2. CASE Drained(g) /\ UNCHANGED own
      BY <2>1, <3>2 DEF Drained
    <3> QED
      BY <2>2, <3>1, <3>2 DEF RollingBack, FinishTeardown, Draws
  <2>3. CASE Rollback(g)
    <3>1. pc'[g] = "rollingBack" /\ \A o \in Owners : o # g => own'[o] = own[o]
      BY <1>0, <2>3, Numbers DEF Rollback, Goto, JobsOK
    <3> QED
      BY <2>1, <3>1, Numbers
  <2>4. CASE UNCHANGED own /\ pc[g] \notin {"rollingBack", "stop", "disconnect"}
    BY <2>1, <2>4
  <2> QED
    BY <1>1, <2>2, <2>3, <2>4
       DEF JobStep, ReadSession, Check, StartClicker, Recheck, Drop, Await, Gate, StartOther,
           WaitOld, LaunchBy, Finish
<1>2. CASE Teardown
  <2>1. /\ own' = [own EXCEPT ![generation + 1] = tools]
        /\ pc' = [pc EXCEPT ![generation + 1] = gui.at]
        /\ gui.at \in {"stop", "disconnect"} /\ generation < MaxCommands
    BY <1>2 DEF Teardown, Goto
  <2> QED
    BY <1>0, <2>1, NextNumberIsNew, Numbers DEF JobsOK
<1>3. CASE Shutdown
  <2>1. gui'.at = "closing" /\ \A g \in Gens : own'[g] = own[g] /\ pc'[g] = pc[g]
    BY <1>0, <1>3, Numbers DEF Shutdown, JobsOK, Idle
  <2> QED
    BY <2>1
<1>4. CASE Closing
  <2>1. UNCHANGED pc
    BY <1>4 DEF Closing
  <2>2. CASE DrainStep(Gui) /\ UNCHANGED gui
    <3>1. own' = own \/ \E t \in Tools : own' = [own EXCEPT ![Gui][t] = Nil]
      BY <1>0, <2>2, Draining, Numbers
    <3>2. \A g \in Gens : own'[g] = own[g]
      BY <1>0, <3>1, Numbers DEF JobsOK
    <3> QED
      BY <1>4, <2>1, <2>2, <3>2 DEF Closing
  <2>3. CASE Drained(Gui) /\ UNCHANGED own
    BY <2>1, <2>3 DEF Drained
  <2> QED
    BY <1>4, <2>2, <2>3 DEF Closing
<1>5. CASE UNCHANGED <<own, pc>> /\ (gui.at # "closing" \/ UNCHANGED gui)
  BY <1>5
<1>6. CASE UserEvent \/ RunClosure
  <2>1. gui.at = "free"
    BY <1>6 DEF UserEvent, RunClosure, ClickStart, ClickStop, ClickStartViiper, CloseWindow, Rebind,
                ChangeMode
  <2>2. OnStart \/ UNCHANGED <<own, pc>>
    <3>1. RunClosure => Head(queue) \in Closures
      BY DEF RunClosure, TypeOK, GuiOK
    <3> QED
      BY <1>6, <3>1 DEF UserEvent, RunClosure, Closure, Closures, ClickStart, ClickStop,
                        ClickStartViiper, CloseWindow, Rebind, ChangeMode, jobs
  <2>3. CASE BeginStartup
    BY <1>0, <2>1, <2>3, NextNumberIsNew DEF BeginStartup, JobsOK
  <2> QED
    BY <1>5, <2>1, <2>2, <2>3 DEF OnStart, jobs
<1>7. CASE SyncStop \/ SyncStart \/ SyncWait
  BY <1>5, <1>7 DEF SyncStop, SyncStart, SyncWait, jobs
<1>8. CASE EnvStep \/ UNCHANGED vars \/ \E t \in Tools, i \in Ids : RunnerEnds(t, i)
  BY <1>5, <1>8 DEF EnvStep, OpenEnds, MonitorSees, MonitorLoses, PressToggle, WatcherSees,
                    ReleaseToggle, RunnerEnds, vars, jobs
<1> QED
  BY <1>1, <1>2, <1>3, <1>4, <1>6, <1>7, <1>8 DEF Next, GuiStep

\* A goroutine changes the slots and the lock only when the lock is free or its own,
\* and holds it from the step that takes it on.
LEMMA JobsKeepTheLock ==
  ASSUME TypeOK, HandInv, NEW g \in Gens, JobStep(g)
  PROVE  /\ lifecycleMu \in {Free, g} \/ UNCHANGED <<lifecycleMu, tools>>
         /\ \A h \in Gens \ {g} : at'[h] = at[h]
         /\ pc'[g] \in {"start", "waitOld"} => at'[g] \in DOMAIN Others
         /\ pc'[g] = "rollingBack" => lifecycleMu' = g
         /\ pc'[g] = "waitOld" => lifecycleMu' = g /\ tools'[Others[at'[g]]] = Nil
<1> USE DEF HandInv, Locked
<1>0. JobsOK /\ SlotsOK
  BY DEF TypeOK
<1>1. CASE ReadSession(g) \/ Check(g) \/ Recheck(g) \/ Await(g) \/ Finish(g)
  BY <1>0, <1>1 DEF ReadSession, Check, Recheck, Await, Finish, Goto, JobsOK
<1>2. CASE StartClicker(g) \/ Drop(g)
  BY <1>0, <1>2 DEF StartClicker, Drop, Goto, JobsOK
<1>3. CASE Gate(g)
  <2>1. CASE UNCHANGED at /\ (Goto(g, "rollback") \/ Goto(g, "finish"))
    BY <1>0, <1>3, <2>1 DEF Gate, Goto, JobsOK
  <2>2. CASE Goto(g, "start") /\ at' = [at EXCEPT ![g] = @ + 1] /\ at[g] # Len(Others)
    BY <1>0, <1>3, <2>2, OrderIsTools DEF Gate, Goto, JobsOK
  <2> QED
    BY <1>3, <2>1, <2>2 DEF Gate, AllStarted
<1>4. CASE StartOther(g)
  <2>1. pc[g] = "start" /\ lifecycleMu = Free /\ UNCHANGED at /\ Others[at[g]] \in Tools
    BY <1>4, OrderIsTools DEF StartOther, LaunchBy
  <2>2. CASE Goto(g, "gate")
    BY <1>0, <2>1, <2>2 DEF Goto, JobsOK
  <2>3. CASE TakeOld(Others[at[g]], g) /\ Goto(g, "waitOld")
    BY <1>0, <2>1, <2>3 DEF TakeOld, Goto, JobsOK, SlotsOK
  <2> QED
    BY <1>4, <2>2, <2>3 DEF StartOther, LaunchBy
<1>5. CASE WaitOld(g)
  BY <1>0, <1>5 DEF WaitOld, LaunchBy, Goto, JobsOK
<1>6. CASE Rollback(g)
  BY <1>0, <1>6 DEF Rollback, Goto, JobsOK
<1>7. CASE RollingBack(g)
  <2>1. UNCHANGED <<at, tools>> /\ lifecycleMu = g
    BY <1>7 DEF RollingBack
  <2> QED
    BY <1>0, <1>7, <2>1 DEF RollingBack, Goto, JobsOK
<1>8. CASE FinishTeardown(g)
  <2>1. UNCHANGED <<at, tools, lifecycleMu>> /\ pc[g] \in {"stop", "disconnect"}
    BY <1>8 DEF FinishTeardown, Draws
  <2> QED
    BY <1>0, <1>8, <2>1 DEF FinishTeardown, Draws, Goto, JobsOK
<1> QED
  BY <1>1, <1>2, <1>3, <1>4, <1>5, <1>6, <1>7, <1>8 DEF JobStep

\* The lock stays with who waits for a run, and the slot stays empty.
LEMMA NextLocked ==
  ASSUME TypeOK, HandInv, Next PROVE Locked'
<1> USE DEF HandInv, Locked
<1>0. JobsOK /\ SlotsOK /\ GuiOK
  BY DEF TypeOK
<1>1. ASSUME NEW g \in Gens, JobStep(g) PROVE Locked'
  <2>1. /\ UNCHANGED gui /\ \A h \in Gens \ {g} : pc'[h] = pc[h] /\ at'[h] = at[h]
        /\ lifecycleMu \in {Free, g} \/ UNCHANGED <<lifecycleMu, tools>>
    BY <1>1, JobMovesItself, JobsKeepTheLock
  <2>2. gui.at = "syncWait" => UNCHANGED <<lifecycleMu, tools>>
    BY <2>1, Numbers
  <2>3. \A h \in Gens \ {g} :
          /\ pc'[h] \in {"start", "waitOld"} => at'[h] \in DOMAIN Others
          /\ pc'[h] = "rollingBack" => lifecycleMu' = h
          /\ pc'[h] = "waitOld" => lifecycleMu' = h /\ tools'[Others[at'[h]]] = Nil
    BY <2>1, Numbers
  <2> QED
    BY <1>1, <2>1, <2>2, <2>3, JobsKeepTheLock
\* The GUI thread leaves the goroutines where they are, or finds the lock free or its own.
<1>2. ASSUME UNCHANGED <<pc, at>> \/ OnStart \/ Teardown,
             lifecycleMu \in {Free, Gui} \/ UNCHANGED <<lifecycleMu, tools>>,
             gui'.at = "syncWait" => lifecycleMu' = Gui /\ tools'[gui'.tool] = Nil,
             gui'.at \in {"syncStop", "syncStart", "syncWait"} =>
               gui'.tool \in ToSet(Others) /\ "rebind" \in Events
      PROVE  Locked'
  <2>1. \A g \in Gens : /\ pc'[g] = pc[g] \/ pc'[g] \in {"session", "stop", "disconnect"}
                        /\ at'[g] = at[g]
    <3>1. CASE BeginStartup
      BY <1>0, <3>1 DEF BeginStartup, JobsOK
    <3>2. CASE Teardown
      <4>1. pc' = [pc EXCEPT ![generation'] = gui.at] /\ gui.at \in {"stop", "disconnect"}
            /\ UNCHANGED at
        BY <3>2 DEF Teardown, Goto
      <4> QED
        BY <1>0, <4>1 DEF JobsOK
    <3> QED
      BY <1>2, <3>1, <3>2 DEF OnStart, jobs
  <2>2. \A g \in Gens : pc[g] \in {"waitOld", "rollingBack"} => UNCHANGED <<lifecycleMu, tools>>
    BY <1>2, Numbers
  <2> QED
    BY <1>2, <2>1, <2>2
<1>3. CASE UserEvent
  <2>1. /\ UNCHANGED <<lifecycleMu, tools>> /\ gui.at = "free"
        /\ UNCHANGED <<pc, at>> \/ OnStart
    BY <1>3 DEF UserEvent, ClickStart, ClickStop, ClickStartViiper, CloseWindow, Rebind, ChangeMode,
                jobs
  <2>2. CASE ClickStart \/ ClickStop \/ ClickStartViiper \/ CloseWindow
    <3>1. gui'.at \notin {"syncStop", "syncStart", "syncWait"}
      BY <2>1, <2>2 DEF ClickStart, ClickStop, ClickStartViiper, CloseWindow, BeginTeardown, Idle
    <3> QED
      BY <1>2, <2>1, <3>1
  <2>3. ASSUME NEW t \in ToSet(Others), Rebind(t) \/ ChangeMode(t) PROVE Locked'
    <3>1. \/ gui' = Idle
          \/ gui' = [Idle EXCEPT !.at = "syncStart", !.tool = t]
          \/ gui' = [Idle EXCEPT !.at = "syncStop", !.tool = t, !.run = tools[t]]
      BY <2>3 DEF Rebind, ChangeMode
    <3>2. "rebind" \in Events
      BY <2>3 DEF Rebind, ChangeMode
    <3>3. /\ gui'.at # "syncWait"
          /\ gui'.at \in {"syncStop", "syncStart"} => gui'.tool = t
      <4>1. CASE gui' = Idle
        BY <4>1 DEF Idle
      <4>2. CASE gui' = [Idle EXCEPT !.at = "syncStart", !.tool = t]
        BY <4>2 DEF Idle
      <4>3. CASE gui' = [Idle EXCEPT !.at = "syncStop", !.tool = t, !.run = tools[t]]
        BY <4>3 DEF Idle
      <4> QED
        BY <3>1, <4>1, <4>2, <4>3
    <3> QED
      BY <1>2, <2>1, <3>2, <3>3
  <2> QED
    BY <1>3, <2>2, <2>3 DEF UserEvent
<1>4. CASE RunClosure
  <2>1. UNCHANGED <<lifecycleMu, tools>> /\ gui.at = "free" /\ Head(queue) \in Closures
    BY <1>0, <1>4 DEF RunClosure, GuiOK
  <2>2. UNCHANGED <<pc, at>> \/ OnStart
    BY <1>4, <2>1 DEF RunClosure, Closure, Closures, jobs
  <2>3. gui'.at \notin {"syncStop", "syncStart", "syncWait"}
    BY <1>4, <2>1 DEF RunClosure, Closure, Closures, BeginTeardown, Idle
  <2> QED
    BY <1>2, <2>1, <2>2, <2>3
<1>5. CASE Teardown \/ SyncStop \/ Shutdown \/ Closing
  <2>1. lifecycleMu = Free \/ UNCHANGED <<lifecycleMu, tools>>
    BY <1>5 DEF Teardown, SyncStop, Shutdown, Closing
  <2>2. UNCHANGED <<pc, at>> \/ Teardown
    BY <1>5 DEF SyncStop, Shutdown, Closing, jobs
  <2>3. gui'.at \in {"free", "closing", "exited"}
    <3>1. CASE Teardown \/ SyncStop
      <4>1. gui' = Idle
        BY <3>1 DEF Teardown, SyncStop
      <4> QED
        BY <4>1 DEF Idle
    <3>2. CASE Shutdown \/ Closing
      BY <3>2 DEF Shutdown, Closing, Idle
    <3> QED
      BY <1>5, <3>1, <3>2
  <2> QED
    BY <1>2, <2>1, <2>2, <2>3
<1>6. CASE SyncStart
  <2>1. lifecycleMu = Free /\ UNCHANGED <<pc, at>> /\ gui.at = "syncStart"
    BY <1>6 DEF SyncStart, jobs
  <2>2. CASE TakeOld(gui.tool, Gui) /\ gui' = [gui EXCEPT !.at = "syncWait", !.run = tools[gui.tool],
                                                         !.sess = session]
    <3>1. gui'.at = "syncWait" /\ gui'.tool = gui.tool /\ gui.tool \in Tools
      BY <1>0, <2>2 DEF GuiOK
    <3>2. lifecycleMu' = Gui /\ tools'[gui.tool] = Nil
      BY <1>0, <2>2, <3>1 DEF TakeOld, SlotsOK
    <3> QED
      BY <1>2, <2>1, <3>1, <3>2
  <2>3. CASE gui' = Idle
    BY <1>2, <2>1, <2>3 DEF Idle
  <2> QED
    BY <1>6, <2>2, <2>3 DEF SyncStart
<1>7. CASE SyncWait
  BY <1>2, <1>7 DEF SyncWait, Idle, jobs
<1>8. CASE EnvStep \/ UNCHANGED vars \/ \E t \in Tools, i \in Ids : RunnerEnds(t, i)
  <2>1. UNCHANGED <<lifecycleMu, tools, gui, pc, at>>
    BY <1>8 DEF EnvStep, OpenEnds, MonitorSees, MonitorLoses, PressToggle, WatcherSees,
                ReleaseToggle, RunnerEnds, vars, jobs
  <2> QED
    BY <2>1
<1> QED
  BY <1>1, <1>3, <1>4, <1>5, <1>6, <1>7, <1>8 DEF Next, GuiStep

\* Only onStart raises starting; else it falls, and a new number or a cancelled
\* context is the end of a startup.
LEMMA StartupsOnlyBegin ==
  ASSUME TypeOK, Next
  PROVE  \/ BeginStartup /\ UNCHANGED <<tools, own, phase, session, mine, gui>> /\ gui.at = "free"
         \/ /\ starting' => starting /\ generation' = generation
            /\ ctxDone \subseteq ctxDone'
<1>1. CASE UserEvent
  BY <1>1 DEF UserEvent, ClickStart, OnStart, BeginStartup, ClickStop, BeginTeardown,
              ClickStartViiper, CloseWindow, Rebind, ChangeMode, flags, jobs, runners, sessions
<1>2. CASE RunClosure
  <2>1. Head(queue) \in Closures
    BY <1>2 DEF RunClosure, TypeOK, GuiOK
  <2>2. \/ UNCHANGED <<flags, jobs>>
        \/ OnStart /\ UNCHANGED gui
        \/ UNCHANGED <<starting, generation, jobs>>
    BY <1>2, <2>1 DEF RunClosure, Closure, Closures, BeginTeardown
  <2> QED
    BY <1>2, <2>2 DEF RunClosure, OnStart, BeginStartup, flags, jobs, runners, sessions
<1>3. CASE Teardown
  <2>1. starting' = FALSE /\ ctxDone' = Cancelled
    BY <1>3 DEF Teardown
  <2> QED
    BY <2>1 DEF Cancelled
<1>4. CASE Shutdown
  BY <1>4 DEF Shutdown, Cancelled
<1>5. CASE SyncStop \/ SyncStart \/ SyncWait \/ Closing
  BY <1>5 DEF SyncStop, SyncStart, SyncWait, Closing, flags, jobs
<1>6. ASSUME NEW g \in Gens, JobStep(g)
      PROVE  (starting' => starting /\ generation' = generation) /\ ctxDone \subseteq ctxDone'
  BY <1>6 DEF JobStep, ReadSession, Check, StartClicker, Recheck, Drop, Await, Gate, StartOther,
              WaitOld, LaunchBy, Rollback, RollingBack, Finish, FinishTeardown, Draws, flags
<1>7. CASE EnvStep \/ UNCHANGED vars \/ \E t \in Tools, i \in Ids : RunnerEnds(t, i)
  BY <1>7 DEF EnvStep, OpenEnds, MonitorSees, MonitorLoses, PressToggle, WatcherSees,
              ReleaseToggle, RunnerEnds, vars, flags, jobs
<1> QED
  BY <1>1, <1>2, <1>3, <1>4, <1>5, <1>6, <1>7 DEF Next, GuiStep

\* A startup that has yet to start the clicker got no further with this step.
LEMMA EarlyBefore ==
  ASSUME TypeOK, HandInv, Next, ~BeginStartup, NEW g \in Gens, pc'[g] \in Early
  PROVE  pc[g] \in Early
<1>0. JobsOK
  BY DEF TypeOK
<1>1. CASE UNCHANGED pc
  BY <1>1
<1>2. ASSUME NEW h \in Gens, JobStep(h) PROVE pc[g] \in Early
  <2>1. CASE g # h
    BY <1>2, <2>1, JobMovesItself
  <2>2. CASE g = h
    BY <1>0, <1>2, <2>2
       DEF JobStep, ReadSession, Check, StartClicker, Recheck, Drop, Await, Gate, StartOther,
           WaitOld, LaunchBy, Rollback, RollingBack, Finish, FinishTeardown, Draws, Goto, JobsOK, Early
  <2> QED
    BY <2>1, <2>2
<1>3. CASE Teardown
  <2>1. pc' = [pc EXCEPT ![generation'] = gui.at] /\ gui.at \in {"stop", "disconnect"}
    BY <1>3 DEF Teardown, Goto
  <2> QED
    BY <1>0, <2>1 DEF Early, JobsOK
<1>4. CASE RunClosure
  <2>1. Head(queue) \in Closures /\ Closure(Head(queue))
    BY <1>4 DEF RunClosure, TypeOK, GuiOK
  <2>2. UNCHANGED pc
    BY <2>1 DEF Closure, Closures, OnStart, jobs
  <2> QED
    BY <1>1, <2>2
<1>5. CASE UserEvent
  BY <1>1, <1>5 DEF UserEvent, ClickStart, OnStart, ClickStop, ClickStartViiper, CloseWindow,
                    Rebind, ChangeMode, jobs
<1>6. CASE SyncStop \/ SyncStart \/ SyncWait \/ Shutdown \/ Closing
  BY <1>1, <1>6 DEF SyncStop, SyncStart, SyncWait, Shutdown, Closing, jobs
<1>7. CASE EnvStep \/ UNCHANGED vars \/ \E t \in Tools, i \in Ids : RunnerEnds(t, i)
  BY <1>1, <1>7 DEF EnvStep, OpenEnds, MonitorSees, MonitorLoses, PressToggle, WatcherSees,
                    ReleaseToggle, RunnerEnds, vars, jobs
<1> QED
  BY <1>2, <1>3, <1>4, <1>5, <1>6, <1>7 DEF Next, GuiStep

Going(t, i) == phase[t][i] \in {"live", "stopping"}

\* A run comes to life, and a slot is filled, by a launch only: of the clicker in
\* StartClicker, of another tool under the lock.
Calm ==
  /\ \A t \in Tools, i \in Ids :
       (Going(t, i)' => Going(t, i)) /\ (phase'[t][i] = "live" => phase[t][i] = "live")
  /\ \A t \in Tools : tools'[t] \in {tools[t], Nil}
Starts(t, s) == Launch(t, s) /\ UNCHANGED own /\ ~Alive(t, tools[t])
OtherStarts(t) ==
  \/ "rebind" \in Events
  \/ \E g \in Gens : /\ StartOther(g) \/ WaitOld(g)
                     /\ at[g] \in DOMAIN Others /\ t = Others[at[g]]

\* What each step may bring to life.
LEMMA LifeBeginsWithLaunch ==
  ASSUME TypeOK, HandInv, Next
  PROVE  \/ Calm
         \/ \E g \in Gens : StartClicker(g) /\ Still(g) /\ Starts(Clicker, sess[g])
         \/ \E t \in ToSet(Others), s \in Nat : Starts(t, s) /\ OtherStarts(t)
<1> USE DEF HandInv
<1>0. RunnersOK /\ JobsOK /\ SlotsOK /\ GuiOK /\ SessionsOK
  BY DEF TypeOK
<1> DEFINE Slots == \A u \in Tools : tools'[u] \in {tools[u], Nil}
<1>1. ASSUME tools' = tools, phase' = phase PROVE Calm
  BY <1>1 DEF Calm, Going
<1>2. ASSUME NEW t \in Tools, NEW i \in Ids \cup {Nil}, phase' = Asked(phase, t, i),
             tools' = tools \/ tools' = [tools EXCEPT ![t] = Nil]
      PROVE  Calm
  <2>1. \A u \in Tools, j \in Ids :
         (Going(u, j)' => Going(u, j)) /\ (phase'[u][j] = "live" => phase[u][j] = "live")
    BY <1>0, <1>2, Asking DEF Going
  <2>2. Slots
    BY <1>0, <1>2 DEF SlotsOK
  <2> QED
    BY <2>1, <2>2 DEF Calm
<1>3. ASSUME NEW o \in Owners, DrainStep(o), UNCHANGED tools PROVE Calm
  <2>1. CASE \E t \in Tools : own[o][t] \in Ids /\ phase' = Asked(phase, t, own[o][t])
    <3>1. PICK t \in Tools : own[o][t] \in Ids /\ phase' = Asked(phase, t, own[o][t])
      BY <2>1
    <3> QED
      BY <1>2, <1>3, <3>1
  <2>2. CASE phase' = phase
    BY <1>1, <1>3, <2>2
  <2> QED
    BY <1>0, <1>3, <2>1, <2>2, Draining
<1>4. CASE SyncStop
  <2>1. gui.tool \in Tools /\ RunnerToStop \in Ids \cup {Nil}
    BY <1>0 DEF GuiOK, SlotsOK, RunnerToStop
  <2> QED
    BY <1>2, <1>4, <2>1 DEF SyncStop
<1>5. CASE SyncStart
  <2>1. /\ gui.tool \in ToSet(Others) /\ gui.tool \in Tools /\ tools[gui.tool] \in Ids \cup {Nil}
        /\ session \in Nat /\ UNCHANGED own /\ "rebind" \in Events
    BY <1>0, <1>5 DEF SyncStart, Locked, GuiOK, SlotsOK, SessionsOK, jobs
  <2> QED
    BY <1>2, <1>5, <2>1 DEF SyncStart, TakeOld, Starts, OtherStarts
<1>6. CASE SyncWait
  <2>1. /\ gui.tool \in ToSet(Others) /\ tools[gui.tool] = Nil /\ gui.sess \in Nat
        /\ UNCHANGED own /\ "rebind" \in Events
    BY <1>0, <1>6 DEF SyncWait, Locked, GuiOK, jobs
  <2> QED
    BY <1>6, <2>1 DEF SyncWait, Starts, Alive, OtherStarts
<1>7. ASSUME NEW g \in Gens, StartClicker(g) PROVE Calm \/ (Still(g) /\ Starts(Clicker, sess[g]))
  <2>1. CASE Still(g) /\ Launch(Clicker, sess[g])
    BY <1>7, <2>1 DEF StartClicker, NoClickerYet, Early, Starts
  <2>2. CASE UNCHANGED <<runners, tools>>
    <3>1. phase' = phase /\ tools' = tools
      BY <2>2 DEF runners
    <3> QED
      BY <1>1, <3>1
  <2> QED
    BY <1>7, <2>1, <2>2 DEF StartClicker
<1>8. ASSUME NEW g \in Gens, StartOther(g) \/ WaitOld(g)
      PROVE  Calm \/ \E t \in ToSet(Others), s \in Nat : Starts(t, s) /\ OtherStarts(t)
  <2> DEFINE t == Others[at[g]]
  <2>0. at[g] \in DOMAIN Others
    BY <1>8 DEF StartOther, WaitOld, LaunchBy, Locked
  <2>1. /\ t \in ToSet(Others) /\ t \in Tools /\ tools[t] \in Ids \cup {Nil} /\ session \in Nat
        /\ sess[g] \in Nat /\ UNCHANGED own
    BY <1>0, <1>8, OrderIsTools DEF StartOther, WaitOld, LaunchBy, Locked, SlotsOK, SessionsOK, JobsOK
  <2>2. CASE StartOther(g)
    <3>1. CASE Launch(t, session) /\ ~Alive(t, tools[t])
      BY <1>8, <2>0, <2>1, <3>1 DEF Starts, OtherStarts
    <3>2. CASE TakeOld(t, g)
      BY <1>2, <2>1, <3>2 DEF TakeOld
    <3>3. CASE UNCHANGED <<tools, runners>>
      <4>1. phase' = phase /\ tools' = tools
        BY <3>3 DEF runners
      <4> QED
        BY <1>1, <4>1
    <3> QED
      BY <2>2, <3>1, <3>2, <3>3 DEF StartOther, LaunchBy
  <2>3. CASE WaitOld(g)
    <3>1. Launch(t, sess[g]) /\ tools[t] = Nil
      BY <2>3 DEF WaitOld, LaunchBy, Locked
    <3> QED
      BY <1>8, <2>0, <2>1, <3>1 DEF Starts, Alive, OtherStarts
  <2> QED
    BY <1>8, <2>2, <2>3
<1>9. ASSUME NEW g \in Gens, Drop(g) PROVE Calm
  BY <1>0, <1>2, <1>9, OrderIsTools DEF Drop, Unpublished, JobsOK
<1>10. CASE Teardown \/ Shutdown \/ \E g \in Gens : Rollback(g)
  <2>1. UNCHANGED phase /\ tools' = Nothing
    BY <1>10 DEF Teardown, Shutdown, Rollback, runners
  <2> QED
    BY <2>1 DEF Calm, Going, Nothing
<1>11. CASE Closing \/ \E g \in Gens : RollingBack(g) \/ FinishTeardown(g)
  BY <1>1, <1>3, <1>11, Numbers DEF Closing, RollingBack, FinishTeardown, Draws
<1>12. ASSUME NEW t \in Tools, NEW i \in Ids, RunnerEnds(t, i) PROVE Calm
  <2>1. \A u \in Tools, j \in Ids :
         (Going(u, j)' => Going(u, j)) /\ (phase'[u][j] = "live" => phase[u][j] = "live")
    BY <1>0, <1>12 DEF RunnerEnds, RunnersOK, Going
  <2> QED
    BY <1>12, <2>1 DEF RunnerEnds, Calm
<1> QED
  BY <1>1, <1>4, <1>5, <1>6, <1>7, <1>8, <1>9, <1>10, <1>11, <1>12, OthersMoveNone DEF MovesRunners

\* The startup in progress still finds no clicker: only it starts one.
LEMMA NextNoClickerYet ==
  ASSUME TypeOK, HandInv, Next PROVE NoClickerYet'
<1> USE DEF HandInv
<1> SUFFICES ASSUME NEW g \in Gens, Still(g)', pc'[g] \in Early PROVE ~Alive(Clicker, tools[Clicker])'
  BY DEF NoClickerYet
<1>0. Clicker \in Tools /\ tools \in [Tools -> Ids \cup {Nil}]
  BY OrderIsTools DEF TypeOK, SlotsOK
<1>1. CASE BeginStartup /\ UNCHANGED <<tools, phase>>
  <2>1. ~Alive(Clicker, tools[Clicker])
    BY <1>0, <1>1 DEF BeginStartup, Busy, AnyRunning
  <2> QED
    BY <1>1, <2>1 DEF Alive
<1>2. CASE (starting' => starting /\ generation' = generation) /\ ctxDone \subseteq ctxDone'
  <2>0. starting' /\ generation' = generation /\ Still(g)
    BY <1>2 DEF Still
  <2>1. Still(g) /\ pc[g] \in Early
    <3>1. ASSUME BeginStartup PROVE FALSE
      <4>1. generation' = generation + 1
        BY <3>1 DEF BeginStartup
      <4>2. generation \in Nat
        BY Numbers DEF TypeOK, FlagsOK
      <4> QED
        BY <2>0, <4>1, <4>2
    <3> QED
      BY <2>0, <3>1, EarlyBefore
  <2>2. ~Alive(Clicker, tools[Clicker])
    BY <2>1 DEF NoClickerYet
  <2>3. CASE Calm
    BY <1>0, <2>2, <2>3 DEF Calm, Alive, Going
  <2>4. CASE \E h \in Gens : StartClicker(h) /\ Still(h) /\ Starts(Clicker, sess[h])
    <3>1. StartClicker(g) /\ Still(g)
      BY <2>1, <2>4 DEF Still
    <3>2. pc'[g] \in {"recheck", "done"}
      BY <3>1 DEF StartClicker, Goto, TypeOK, JobsOK
    <3> QED
      BY <3>2 DEF Early
  <2>5. CASE \E t \in ToSet(Others), s \in Nat : Starts(t, s)
    <3>1. PICK t \in ToSet(Others), s \in Nat : Starts(t, s)
      BY <2>5
    <3>2. /\ t \in Tools /\ t # Clicker
          /\ tools'[Clicker] = tools[Clicker]
          /\ \A i \in Ids : phase'[Clicker][i] = phase[Clicker][i]
      BY <1>0, <3>1, OrderIsTools, Launching DEF Starts, TypeOK
    <3> QED
      BY <1>0, <2>2, <3>2 DEF Alive
  <2> QED
    BY <2>3, <2>4, <2>5, LifeBeginsWithLaunch
<1> QED
  BY <1>1, <1>2, StartupsOnlyBegin

-----------------------------------------------------------------------------
\* The first state is well typed.
LEMMA InitTypeOK == Init => TypeOK
<1> SUFFICES ASSUME Init PROVE TypeOK
  OBVIOUS
<1>0. 0 \in 0 .. MaxCommands
  BY Numbers
<1>1. FlagsOK
  <2>1. /\ starting = FALSE /\ stopping = FALSE /\ shuttingDown = FALSE
        /\ generation = 0 /\ startupCancel = 0
    BY DEF Init, Nil
  <2> QED
    BY <1>0, <2>1 DEF FlagsOK
<1>5. SessionsOK
  BY DEF Init, SessionsOK, Nil
<1>6. WidgetsOK
  <2>1. /\ bound \in SUBSET ToSet(Others)
        /\ badge = "OFF" /\ startBtn = FALSE /\ stopBtn = FALSE /\ viiperBtn = FALSE
    BY DEF Init
  <2> QED
    BY <2>1 DEF WidgetsOK
<1>7. EnvOK
  <2>1. opening = TRUE /\ monitorUp = FALSE /\ keyDown = "up" /\ commands = 0
    BY DEF Init
  <2> QED
    BY <1>0, <2>1 DEF EnvOK
<1>2. SlotsOK /\ RunnersOK
  BY Numbers DEF Init, SlotsOK, RunnersOK, Nothing, Nil
<1>3. GuiOK
  <2>1. queue \in Seq(Closures)
    BY DEF Init
  <2>2. gui = Idle
    BY DEF Init
  <2> QED
    BY <2>1, <2>2, OrderIsTools DEF GuiOK, Idle, Nil
<1>4. JobsOK
  BY OrderIsTools DEF Init, JobsOK, Nothing, Nil
<1> QED
  BY <1>1, <1>2, <1>3, <1>4, <1>5, <1>6, <1>7 DEF TypeOK

\* In the first state there is no run and nobody has taken one.
LEMMA InitHandInv == Init => HandInv
<1> SUFFICES ASSUME Init PROVE HandInv
  OBVIOUS
<1>1. Numbered
  BY Numbers DEF Init, Numbered
<1>2. gui.at = "free"
  BY DEF Init, Idle
<1>3. TakenInTime
  BY Numbers DEF Init, TakenInTime
<1>4. Locked
  BY <1>2 DEF Init, Locked
<1>5. NoClickerYet
  BY DEF Init, NoClickerYet, Early
<1>6. Hands
  BY DEF Init, Hands, InHand, Steady
<1> QED
  BY <1>1, <1>3, <1>4, <1>5, <1>6 DEF HandInv

\* A step that changes nothing keeps both invariants.
LEMMA Stutters == TypeOK /\ HandInv /\ UNCHANGED vars => TypeOK' /\ HandInv'
<1> SUFFICES ASSUME TypeOK, HandInv, UNCHANGED vars PROVE TypeOK' /\ HandInv'
  OBVIOUS
<1>1. TypeOK'
  BY Stay DEF TypeOK, vars
<1>2. Numbered' /\ TakenInTime'
  BY DEF HandInv, Numbered, TakenInTime, vars, flags, jobs
<1>3. Locked'
  BY DEF HandInv, Locked, vars, jobs
<1>4. NoClickerYet' /\ Hands'
  BY DEF HandInv, NoClickerYet, Still, Alive, Hands, InHand, Known, Taken, vars, flags, jobs, runners
<1> QED
  BY <1>1, <1>2, <1>3, <1>4 DEF HandInv

\* Every step keeps both invariants.
LEMMA NextHandInv == TypeOK /\ HandInv /\ Next => TypeOK' /\ HandInv'
<1> SUFFICES ASSUME TypeOK, HandInv, Next PROVE TypeOK' /\ HandInv'
  OBVIOUS
<1>1. TypeOK'
  BY NextTypeOK DEF HandInv, Locked
<1> QED
  BY <1>1, NextNumbered, NextTakenInTime, NextLocked, NextNoClickerYet, NextHands DEF HandInv

\* The inductive invariant of the module.
LEMMA Invariance == SafeSpec => [](TypeOK /\ HandInv)
<1>1. TypeOK /\ HandInv /\ [Next]_vars => (TypeOK /\ HandInv)'
  BY NextHandInv, Stutters
<1> QED
  BY <1>1, InitTypeOK, InitHandInv, PTL DEF SafeSpec

\* The history only grows, and well typed.
LEMMA LooseForGood ==
  ASSUME TypeOK, HandInv, Next
  PROVE  loose \subseteq loose' /\ (HistoryOK => HistoryOK')
<1>0. JobsOK /\ RunnersOK
  BY DEF TypeOK
<1>1. CASE UNCHANGED loose
  BY <1>1 DEF HistoryOK
<1>2. CASE RunClosure
  BY <1>2 DEF RunClosure, Drawn, HistoryOK
<1>3. ASSUME NEW g \in Gens, Drop(g) PROVE loose \subseteq loose' /\ (HistoryOK => HistoryOK')
  BY <1>0, <1>3, OrderIsTools DEF Drop, JobsOK, HistoryOK
<1>4. ASSUME NEW g \in Gens, NEW t \in ToSet(Others), NEW s, LaunchBy(g, t, s)
      PROVE  loose \subseteq loose' /\ (HistoryOK => HistoryOK')
  BY <1>4, OrderIsTools DEF LaunchBy, Launch, Unused, Fresh, HistoryOK
<1>5. ASSUME NEW g \in Gens, StartOther(g) \/ WaitOld(g)
      PROVE  loose \subseteq loose' /\ (HistoryOK => HistoryOK')
  <2>1. Others[at[g]] \in ToSet(Others)
    BY <1>5, OrderIsTools DEF StartOther, WaitOld, HandInv, Locked
  <2> QED
    BY <1>1, <1>4, <1>5, <2>1 DEF StartOther, WaitOld, TakeOld, runners
<1>6. ASSUME NEW g \in Gens, JobStep(g), ~Drop(g), ~StartOther(g), ~WaitOld(g) PROVE UNCHANGED loose
  BY <1>6 DEF JobStep, ReadSession, Check, StartClicker, Recheck, Await, Gate, Rollback,
              RollingBack, Finish, FinishTeardown, runners
<1>7. ASSUME GuiStep \/ UserEvent, ~RunClosure PROVE UNCHANGED loose
  BY <1>7 DEF GuiStep, UserEvent, Teardown, SyncStop, SyncStart, TakeOld, SyncWait, Shutdown,
              Closing, ClickStart, ClickStop, ClickStartViiper, CloseWindow, Rebind, ChangeMode, runners
<1>8. CASE EnvStep \/ UNCHANGED vars \/ \E t \in Tools, i \in Ids : RunnerEnds(t, i)
  BY <1>1, <1>8 DEF EnvStep, OpenEnds, MonitorSees, MonitorLoses, PressToggle, WatcherSees,
                    ReleaseToggle, RunnerEnds, vars, runners
<1> QED
  BY <1>1, <1>2, <1>3, <1>5, <1>6, <1>7, <1>8 DEF Next

\* Every variable of the GUI and of its goroutines keeps its type, whichever
\* tools there are, however many commands come and in whatever order they meet.
THEOREM HostTypeCorrect == SafeSpec => [](TypeOK /\ HistoryOK)
<1>1. Init => HistoryOK
  BY DEF Init, HistoryOK
<1>2. TypeOK /\ HandInv /\ HistoryOK /\ [Next]_vars => HistoryOK'
  <2>1. HistoryOK /\ UNCHANGED vars => HistoryOK'
    BY DEF HistoryOK, vars, runners
  <2> QED
    BY <2>1, LooseForGood
<1> QED
  BY <1>1, <1>2, Invariance, PTL DEF SafeSpec

\* main.go:50-52, main.go:513: a live runner of a steady tool is in its slot or in
\* the hands of a teardown, rollback or shutdown that will stop it, whatever starts,
\* stops, disconnects, rebinds and closes overlap.
THEOREM SteadyToolsAreInHand == SafeSpec => [](\A t \in Steady : InHand(t))
<1>1. HandInv => \A t \in Steady : InHand(t)
  BY DEF HandInv, Hands
<1> QED
  BY <1>1, Invariance, PTL

\* So no runner is ever orphaned, unless a key is rebound for a tool whose sync
\* function does not read its slot again under the lock (timer_key_tab.go:216).
THEOREM NobodyIsOrphaned ==
  ASSUME "rebind" \notin Events \/ ToSet(Others) \subseteq Rereaders
  PROVE  SafeSpec => []NoOrphan
<1>1. Steady = Tools
  BY DEF Steady, Tools
<1>2. HandInv => NoOrphan
  BY <1>1 DEF HandInv, Hands, NoOrphan
<1> QED
  BY <1>2, Invariance, PTL

-----------------------------------------------------------------------------
(***************************************************************************)
(* What is live is shown, or about to be undone                            *)
(***************************************************************************)
\* The place of a goroutine.
Put(g) == pc'[g] = pc[g] /\ mine'[g] = mine[g] /\ at'[g] = at[g]
\* A goroutine is where it was, unless it makes the step or begins with it.
LEMMA OthersStayPut ==
  ASSUME TypeOK, HandInv, Next, NEW g \in Gens
  PROVE  JobStep(g) \/ Put(g) \/ (pc[g] = "none" /\ pc'[g] \in {"session", "stop", "disconnect"})
<1> DEFINE Begun == pc[g] = "none" /\ pc'[g] \in {"session", "stop", "disconnect"}
<1>0. JobsOK /\ generation \in Nat /\ (pc[g] = "none" <=> g > generation)
  BY Numbers DEF HandInv, Numbered, TypeOK, FlagsOK
<1>1. CASE UNCHANGED <<pc, mine, at>>
  BY <1>1 DEF Put
<1>2. ASSUME NEW h \in Gens, JobStep(h), h # g PROVE Put(g)
  <2>1. pc'[g] = pc[g]
    BY <1>2, JobMovesItself
  <2>2. CASE StartClicker(h) \/ StartOther(h) \/ Gate(h)
    BY <1>0, <1>2, <2>1, <2>2 DEF StartClicker, StartOther, LaunchBy, Gate, JobsOK, Put
  <2>3. CASE ~(StartClicker(h) \/ StartOther(h) \/ Gate(h))
    BY <1>2, <2>1, <2>3 DEF JobStep, ReadSession, Check, Recheck, Drop, Await, Gate, WaitOld, LaunchBy, Rollback,
                      RollingBack, Finish, FinishTeardown, Draws, Put
  <2> QED
    BY <2>1, <2>2, <2>3
<1>3. ASSUME NEW x \in {"session", "stop", "disconnect"}, generation' = generation + 1, pc' = [pc EXCEPT ![generation'] = x],
             UNCHANGED <<mine, at>>
      PROVE  Put(g) \/ Begun
  BY <1>0, <1>3, Numbers DEF JobsOK, Put
<1>4. CASE Teardown
  BY <1>3, <1>4 DEF Teardown, Goto
<1>5. CASE RunClosure
  <2>1. Head(queue) \in Closures
    BY <1>5 DEF RunClosure, TypeOK, GuiOK
  <2>2. UNCHANGED jobs \/ BeginStartup
    BY <1>5, <2>1 DEF RunClosure, Closure, Closures, OnStart
  <2> QED
    BY <1>1, <1>3, <2>2 DEF BeginStartup, jobs
<1>6. CASE UserEvent
  <2>1. UNCHANGED jobs \/ BeginStartup
    BY <1>6 DEF UserEvent, ClickStart, OnStart, ClickStop, ClickStartViiper, CloseWindow,
                Rebind, ChangeMode
  <2> QED
    BY <1>1, <1>3, <2>1 DEF BeginStartup, jobs
<1>7. CASE SyncStop \/ SyncStart \/ SyncWait \/ Shutdown \/ Closing
  BY <1>1, <1>7 DEF SyncStop, SyncStart, SyncWait, Shutdown, Closing, jobs
<1>8. CASE EnvStep \/ UNCHANGED vars \/ \E t \in Tools, i \in Ids : RunnerEnds(t, i)
  BY <1>1, <1>8 DEF EnvStep, OpenEnds, MonitorSees, MonitorLoses, PressToggle, WatcherSees,
                    ReleaseToggle, RunnerEnds, vars, jobs
<1> QED
  BY <1>2, <1>4, <1>5, <1>6, <1>7, <1>8 DEF Next, GuiStep

\* A cancelled startup stays cancelled: no later one has its number.
LEMMA CancelledForGood ==
  ASSUME TypeOK, HandInv, Next, NEW g \in Gens, pc[g] # "none", ~Still(g)
  PROVE  ~Still(g)'
<1>1. generation \in Nat /\ g <= generation
  BY Numbers DEF HandInv, Numbered, TypeOK, FlagsOK
<1>2. CASE BeginStartup
  <2>1. generation' = generation + 1
    BY <1>2 DEF BeginStartup
  <2>2. generation' # g
    BY <1>1, <2>1
  <2> QED
    BY <2>2 DEF Still
<1>3. CASE (starting' => starting /\ generation' = generation) /\ ctxDone \subseteq ctxDone'
  BY <1>3 DEF Still
<1> QED
  BY <1>2, <1>3, StartupsOnlyBegin

\* A startup that is to undo a tool does so, or is still to.
LEMMA UndoesUntilDone ==
  ASSUME TypeOK, HandInv, Next, NEW t \in Tools, NEW g \in Gens, Undoes(g, t),
         tools'[t] = tools[t], tools[t] # Nil
  PROVE  Undoes(g, t)'
<1>0. JobsOK /\ SlotsOK
  BY DEF TypeOK
<1>1. pc[g] # "none" /\ ~Still(g)'
  BY CancelledForGood DEF Undoes
<1>2. CASE pc'[g] = pc[g] /\ mine'[g] = mine[g]
  BY <1>1, <1>2 DEF Undoes
<1>3. CASE JobStep(g)
  <2>1. CASE pc[g] = "gate"
    <3>1. pc' = [pc EXCEPT ![g] = "rollback"]
      BY <1>3, <2>1 DEF Undoes, JobStep, ReadSession, Check, StartClicker, Recheck, Drop, Await,
                        Gate, StartOther, WaitOld, LaunchBy, Rollback, RollingBack, Finish, FinishTeardown, Draws, Goto
    <3> QED
      BY <1>0, <1>1, <3>1 DEF Undoes, JobsOK
  <2>2. CASE pc[g] \in {"start", "waitOld"}
    <3>1. pc' = [pc EXCEPT ![g] = "gate"] \/ pc' = [pc EXCEPT ![g] = "waitOld"]
      BY <1>3, <2>2 DEF JobStep, ReadSession, Check, StartClicker, Recheck, Drop, Await,
                        Gate, StartOther, WaitOld, LaunchBy, Rollback, RollingBack, Finish, FinishTeardown, Draws, Goto
    <3> QED
      BY <1>0, <1>1, <3>1 DEF Undoes, JobsOK
  <2>3. CASE pc[g] = "rollback"
    <3>1. tools' = Nothing
      BY <1>3, <2>3 DEF JobStep, ReadSession, Check, StartClicker, Recheck, Drop, Await,
                        Gate, StartOther, WaitOld, LaunchBy, Rollback, RollingBack, Finish, FinishTeardown, Draws
    <3> QED
      BY <3>1 DEF Nothing
  <2>4. CASE pc[g] = "recheck"
    <3>1. pc' = [pc EXCEPT ![g] = "drop"] /\ mine' = mine
      BY <1>3, <2>4 DEF Undoes, JobStep, ReadSession, Check, StartClicker, Recheck, Drop, Await,
                        Gate, StartOther, WaitOld, LaunchBy, Rollback, RollingBack, Finish, FinishTeardown, Draws, Goto
    <3> QED
      BY <1>0, <1>1, <2>4, <3>1 DEF Undoes, JobsOK
  <2>5. CASE pc[g] = "drop"
    <3>1. tools' = Unpublished(g)
      BY <1>3, <2>5 DEF JobStep, ReadSession, Check, StartClicker, Recheck, Drop, Await,
                        Gate, StartOther, WaitOld, LaunchBy, Rollback, RollingBack, Finish, FinishTeardown, Draws
    <3>2. t = Clicker /\ tools[Clicker] = mine[g]
      BY <2>5 DEF Undoes
    <3> QED
      BY <1>0, <3>1, <3>2 DEF Unpublished, SlotsOK
  <2> QED
    BY <2>1, <2>2, <2>3, <2>4, <2>5 DEF Undoes
<1> QED
  BY <1>1, <1>2, <1>3, OthersStayPut DEF Put

\* The badge goes OFF and the session goes away only where all tools are taken.
LEMMA ShownUntilTaken ==
  ASSUME TypeOK, HandInv, Next, NoFailure, ~Leaving', ShowsOn
  PROVE  ShowsOn' \/ (tools' = Nothing /\ starting' = FALSE)
<1>1. CASE RunClosure
  <2>1. Head(queue) \in Closures /\ Head(queue) # "toolsOff" /\ Closure(Head(queue))
    BY <1>1 DEF RunClosure, TypeOK, GuiOK, NoFailure
  <2>2. session' = session
    BY <1>1 DEF RunClosure, sessions
  <2>3. badge' = badge \/ badge' = "ON"
    BY <2>1 DEF Closure, Closures, OnStart, BeginStartup, SetToolsStarted, widgets
  <2> QED
    BY <2>2, <2>3 DEF ShowsOn
<1>2. CASE Teardown
  BY <1>2 DEF Teardown
<1>3. CASE Shutdown \/ Closing
  <2>2. CASE Shutdown
    BY <2>2 DEF Shutdown, Leaving, Idle
  <2>3. CASE Closing
    BY <2>3 DEF Closing, Leaving, Idle
  <2> QED
    BY <1>3, <2>2, <2>3
<1>4. CASE UserEvent
  <2>1. session' = session
    BY <1>4 DEF UserEvent, ClickStart, ClickStop, ClickStartViiper, CloseWindow, Rebind,
                ChangeMode, sessions
  <2>2. badge' = badge \/ badge' = "ON"
    BY <1>4 DEF UserEvent, ClickStart, OnStart, BeginStartup, ClickStop, ClickStartViiper,
                CloseWindow, Rebind, ChangeMode, SetToolsStarted, widgets
  <2> QED
    BY <2>1, <2>2 DEF ShowsOn
<1>5. CASE OpenEnds
  <2>1. badge' = badge /\ (session' = opened + 1 \/ session' = session)
    BY <1>5 DEF OpenEnds, widgets, sessions
  <2> QED
    BY <2>1 DEF ShowsOn, TypeOK, SessionsOK, Nil
<1>6. CASE UNCHANGED <<badge, session>>
  BY <1>6 DEF ShowsOn
<1>7. CASE SyncStop \/ SyncStart \/ SyncWait \/ \E g \in Gens : JobStep(g)
  BY <1>6, <1>7 DEF SyncStop, SyncStart, SyncWait, widgets, sessions,
                    JobStep, ReadSession, Check, StartClicker, Recheck, Drop, Await,
                    Gate, StartOther, WaitOld, LaunchBy, Rollback, RollingBack, Finish, FinishTeardown, Draws
<1>8. CASE MonitorSees \/ MonitorLoses \/ PressToggle \/ WatcherSees \/ ReleaseToggle
           \/ UNCHANGED vars \/ \E t \in Tools, i \in Ids : RunnerEnds(t, i)
  BY <1>6, <1>8 DEF MonitorSees, MonitorLoses, PressToggle, WatcherSees, widgets, sessions,
                    ReleaseToggle, RunnerEnds, vars
<1> QED
  BY <1>1, <1>2, <1>3, <1>4, <1>5, <1>7, <1>8 DEF Next, GuiStep, EnvStep

\* What is left of ShownInv while the window is open.
Shown == StartingShows /\ NoFailure /\ SessionAwaits /\ LiveShown

\* Starting shows ON with a session, until a teardown clears both.
LEMMA NextStartingShows ==
  ASSUME TypeOK, HandInv, Shown, Next, ~Leaving' PROVE StartingShows'
<1> SUFFICES ASSUME starting' PROVE ShowsOn'
  BY DEF StartingShows
<1>1. CASE BeginStartup /\ session' = session
  BY <1>1 DEF BeginStartup, SetToolsStarted, ShowsOn
<1>2. CASE starting
  BY <1>2, ShownUntilTaken DEF Shown, StartingShows
<1> QED
  BY <1>1, <1>2, StartupsOnlyBegin

\* No startup fails for want of a session unless it was cancelled first.
LEMMA NextNoFailure ==
  ASSUME TypeOK, HandInv, Shown, Next PROVE NoFailure'
<1> USE DEF Shown
<1>0. queue \in Seq(Closures) /\ NoFailure
  BY DEF TypeOK, GuiOK
<1>1. CASE queue' = queue
  BY <1>0, <1>1 DEF NoFailure
<1>2. ASSUME NEW c, c # "toolsOff", Post(c) PROVE NoFailure'
  BY <1>0, <1>2 DEF Post, NoFailure
<1>3. CASE RunClosure
  <2>1. queue # <<>> /\ queue' = Tail(queue)
    BY <1>3 DEF RunClosure
  <2>2. \A n \in DOMAIN Tail(queue) : n + 1 \in DOMAIN queue /\ Tail(queue)[n] = queue[n + 1]
    BY <1>0, <2>1
  <2> QED
    BY <1>0, <2>1, <2>2 DEF NoFailure
<1>4. CASE UserEvent
  BY <1>1, <1>4 DEF UserEvent, ClickStart, ClickStop, ClickStartViiper, CloseWindow, Rebind, ChangeMode
<1>5. CASE Teardown \/ SyncStop \/ SyncStart \/ SyncWait \/ Shutdown \/ Closing
  BY <1>1, <1>5 DEF Teardown, SyncStop, SyncStart, SyncWait, Shutdown, Closing
<1>6. ASSUME NEW g \in Gens, ReadSession(g) PROVE NoFailure'
  <2>1. session # Nil \/ g \in ctxDone
    BY <1>6 DEF ReadSession, SessionAwaits
  <2> QED
    BY <1>1, <1>6, <2>1 DEF ReadSession
<1>7. ASSUME NEW g \in Gens, Finish(g) \/ FinishTeardown(g) PROVE NoFailure'
  BY <1>1, <1>2, <1>7 DEF Finish, FinishTeardown, Draws
<1>8. ASSUME NEW g \in Gens, JobStep(g), ~ReadSession(g), ~(Finish(g) \/ FinishTeardown(g))
      PROVE  NoFailure'
  BY <1>1, <1>8 DEF JobStep, Check, StartClicker, Recheck, Drop, Await, Gate, StartOther, WaitOld, LaunchBy,
                    Rollback, RollingBack
<1>9. CASE EnvStep
  BY <1>1, <1>2, <1>9 DEF EnvStep, OpenEnds, MonitorSees, MonitorLoses, PressToggle, WatcherSees,
                          ReleaseToggle
<1>10. CASE UNCHANGED vars \/ \E t \in Tools, i \in Ids : RunnerEnds(t, i)
  BY <1>1, <1>10 DEF RunnerEnds, vars
<1> QED
  BY <1>3, <1>4, <1>5, <1>6, <1>7, <1>8, <1>9, <1>10 DEF Next, GuiStep

\* The cancel function and the session change in few places only.
LEMMA CancelKept ==
  ASSUME TypeOK, Next, ~BeginStartup, ~Teardown, ~Shutdown
  PROVE  UNCHANGED <<startupCancel, session>> \/ OpenEnds
<1>1. CASE RunClosure
  <2>1. Head(queue) \in Closures
    BY <1>1 DEF RunClosure, TypeOK, GuiOK
  <2>2. UNCHANGED startupCancel
    BY <1>1, <2>1 DEF RunClosure, Closure, Closures, OnStart, BeginTeardown, flags
  <2> QED
    BY <1>1, <2>2 DEF RunClosure, sessions
<1>2. CASE UserEvent
  BY <1>2 DEF UserEvent, ClickStart, OnStart, ClickStop, BeginTeardown, ClickStartViiper,
              CloseWindow, Rebind, ChangeMode, flags, sessions
<1>3. CASE SyncStop \/ SyncStart \/ SyncWait \/ Closing
  BY <1>3 DEF SyncStop, SyncStart, SyncWait, Closing, flags, sessions
<1>4. CASE \E g \in Gens : JobStep(g)
  BY <1>4 DEF JobStep, ReadSession, Check, StartClicker, Recheck, Drop, Await, Gate, StartOther,
              WaitOld, LaunchBy, Rollback, RollingBack, Finish, FinishTeardown, Draws, flags, sessions
<1>5. CASE EnvStep
  BY <1>5 DEF EnvStep, MonitorSees, MonitorLoses, PressToggle, WatcherSees, ReleaseToggle,
              flags, sessions
<1>6. CASE UNCHANGED vars \/ \E t \in Tools, i \in Ids : RunnerEnds(t, i)
  BY <1>6 DEF RunnerEnds, vars, flags, sessions
<1> QED
  BY <1>1, <1>2, <1>3, <1>4, <1>5, <1>6 DEF Next, GuiStep

\* A startup that is not cancelled finds the session that onStart saw.
LEMMA NextSessionAwaits ==
  ASSUME TypeOK, HandInv, Shown, Next, ~Leaving' PROVE SessionAwaits'
<1> SUFFICES ASSUME NEW g \in Gens, pc'[g] = "session", g \notin ctxDone'
             PROVE  startupCancel' = g /\ session' # Nil
  BY DEF SessionAwaits
<1>0. JobsOK /\ startupCancel \in Nat /\ generation \in Nat
  BY Numbers DEF TypeOK, FlagsOK
<1>1. CASE BeginStartup /\ session' = session
  <2>1. generation' = generation + 1 /\ pc' = [pc EXCEPT ![generation'] = "session"]
        /\ ctxDone' = Cancelled /\ startupCancel' = generation' /\ session # Nil
    BY <1>1 DEF BeginStartup
  <2>2. CASE g = generation'
    BY <1>1, <2>1, <2>2
  <2>3. CASE g # generation'
    <3>1. pc[g] = "session"
      BY <1>0, <2>1, <2>3 DEF JobsOK
    <3>2. g \notin ctxDone /\ startupCancel # g
      BY <2>1, Numbers DEF Cancelled
    <3> QED
      BY <3>1, <3>2 DEF Shown, SessionAwaits
  <2> QED
    BY <2>2, <2>3
<1>2. ASSUME ~BeginStartup, g \notin ctxDone, ~Teardown, ~Shutdown PROVE startupCancel' = g /\ session' # Nil
  <2>1. pc[g] = "session"
    <3>1. pc[g] \in Early /\ pc[g] # "none"
      BY <1>2, EarlyBefore DEF Early
    <3>2. ~JobStep(g)
      <4> SUFFICES ASSUME JobStep(g) PROVE pc'[g] # "session"
        OBVIOUS
      <4>1. \E x \in {"check", "done", "clicker", "recheck"} : Goto(g, x)
        BY <3>1 DEF Early, JobStep, ReadSession, Check, StartClicker, Recheck, Drop, Await, Gate,
                    StartOther, WaitOld, LaunchBy, Rollback, RollingBack, Finish, FinishTeardown, Draws
      <4> QED
        BY <1>0, <4>1 DEF Goto, JobsOK
    <3> QED
      BY <3>1, <3>2, OthersStayPut DEF Put
  <2>2. startupCancel = g /\ session # Nil
    BY <1>2, <2>1 DEF Shown, SessionAwaits
  <2>3. UNCHANGED <<startupCancel, session>> \/ OpenEnds
    BY <1>2, CancelKept
  <2>4. CASE OpenEnds
    <3>1. startupCancel' = startupCancel /\ (session' = opened + 1 \/ session' = session)
      BY <2>4 DEF OpenEnds, flags, sessions
    <3> QED
      BY <2>2, <3>1 DEF TypeOK, SessionsOK, Nil
  <2> QED
    BY <2>2, <2>3, <2>4
<1>3. CASE Teardown
  <2>1. ctxDone' = Cancelled /\ UNCHANGED at
    BY <1>3 DEF Teardown
  <2>2. g \notin ctxDone /\ startupCancel # g
    BY <2>1, Numbers DEF Cancelled
  <2>3. pc' = [pc EXCEPT ![generation'] = gui.at] /\ gui.at # "session"
    BY <1>3 DEF Teardown, Goto
  <2>4. pc[g] = "session"
    BY <1>0, <2>3 DEF JobsOK
  <2> QED
    BY <2>2, <2>4 DEF Shown, SessionAwaits
<1>4. CASE Shutdown
  BY <1>4 DEF Shutdown, Leaving, Idle
<1>5. CASE (starting' => starting /\ generation' = generation) /\ ctxDone \subseteq ctxDone'
  <2>1. ASSUME BeginStartup PROVE FALSE
    <3>1. starting' = TRUE /\ generation' = generation + 1
      BY <2>1 DEF BeginStartup
    <3> QED
      BY <1>0, <1>5, <3>1
  <2> QED
    BY <1>2, <1>3, <1>4, <1>5, <2>1
<1> QED
  BY <1>1, <1>5, StartupsOnlyBegin

\* What is live stays shown, or about to be undone.
LEMMA NextLiveShown ==
  ASSUME TypeOK, HandInv, Shown, Next, ~Leaving' PROVE LiveShown'
<1> DEFINE Covered(t) == ShowsOn \/ \E g \in Gens : Undoes(g, t)
<1> SUFFICES ASSUME "rebind" \notin Events, NEW t \in Tools, tools'[t] # Nil,
                    phase'[t][tools'[t]] = "live"
             PROVE  Covered(t)'
  BY DEF LiveShown
<1>0. SlotsOK /\ RunnersOK /\ JobsOK
  BY DEF TypeOK
<1>1. tools' # Nothing
  BY DEF Nothing
<1>2. CASE ShowsOn
  BY <1>1, <1>2, ShownUntilTaken DEF Shown
<1>3. ASSUME tools'[t] = tools[t], phase[t][tools[t]] = "live" PROVE Covered(t)'
  <2>1. Covered(t)
    BY <1>3 DEF Shown, LiveShown
  <2>2. ASSUME NEW g \in Gens, Undoes(g, t) PROVE Undoes(g, t)'
    BY <1>3, <2>2, UndoesUntilDone
  <2> QED
    BY <1>2, <2>1, <2>2
<1>4. CASE Calm
  <2>1. tools'[t] = tools[t] /\ tools[t] \in Ids
    BY <1>0, <1>4 DEF Calm, SlotsOK
  <2> QED
    BY <1>3, <1>4, <2>1 DEF Calm
<1>5. ASSUME NEW g \in Gens, StartClicker(g), Still(g), Starts(Clicker, sess[g]) PROVE Covered(t)'
  BY <1>2, <1>5 DEF Still, Shown, StartingShows
<1>6. ASSUME NEW u \in ToSet(Others), NEW s \in Nat, Starts(u, s), OtherStarts(u) PROVE Covered(t)'
  <2>1. PICK g \in Gens : StartOther(g) \/ WaitOld(g)
    BY <1>6 DEF OtherStarts
  <2>2. CASE Still(g)
    BY <1>2, <2>2 DEF Still, Shown, StartingShows
  <2>3. CASE ~Still(g)
    <3>1. pc[g] \in {"start", "waitOld"}
      BY <2>1 DEF StartOther, WaitOld, LaunchBy
    <3>2. \E x \in {"gate", "waitOld"} : Goto(g, x)
      BY <2>1 DEF StartOther, WaitOld, LaunchBy
    <3>3. pc'[g] \in {"gate", "waitOld"}
      BY <1>0, <3>2 DEF Goto, JobsOK
    <3>4. ~Still(g)'
      BY <2>3, <3>1, CancelledForGood
    <3> QED
      BY <3>3, <3>4 DEF Undoes
  <2> QED
    BY <2>2, <2>3
<1> QED
  BY <1>4, <1>5, <1>6, LifeBeginsWithLaunch

\* The window stays closed.
LEMMA LeavingForGood ==
  ASSUME TypeOK, Next, Leaving PROVE Leaving'
<1>1. CASE UNCHANGED gui
  BY <1>1 DEF Leaving
<1>2. CASE Closing
  BY <1>2 DEF Closing, Leaving, Idle
<1>3. ~RunClosure /\ ~Teardown /\ ~SyncStop /\ ~SyncStart /\ ~SyncWait /\ ~Shutdown
  BY DEF Leaving, RunClosure, Teardown, SyncStop, SyncStart, SyncWait, Shutdown
<1>4. ~UserEvent \/ UNCHANGED gui
  BY DEF Leaving, UserEvent, ClickStart, ClickStop, ClickStartViiper, CloseWindow, Rebind, ChangeMode
<1>5. CASE \E g \in Gens : JobStep(g)
  BY <1>1, <1>5, JobMovesItself
<1>6. CASE EnvStep \/ UNCHANGED vars \/ \E t \in Tools, i \in Ids : RunnerEnds(t, i)
  BY <1>1, <1>6 DEF EnvStep, OpenEnds, MonitorSees, MonitorLoses, PressToggle, WatcherSees,
                    ReleaseToggle, RunnerEnds, vars
<1> QED
  BY <1>1, <1>2, <1>3, <1>4, <1>5, <1>6 DEF Next, GuiStep

\* Every step keeps ShownInv.
LEMMA NextShownInv ==
  TypeOK /\ HandInv /\ ShownInv /\ [Next]_vars => ShownInv'
<1> SUFFICES ASSUME TypeOK, HandInv, ShownInv, [Next]_vars, ~Leaving' PROVE Shown'
  BY DEF ShownInv, Shown
<1>1. CASE UNCHANGED vars
  <2>1. ~Leaving /\ Shown
    BY <1>1 DEF vars, Leaving, ShownInv, Shown
  <2>2. StartingShows' /\ NoFailure' /\ SessionAwaits'
    BY <1>1, <2>1 DEF vars, flags, jobs, sessions, widgets, Shown, StartingShows, ShowsOn,
                      NoFailure, SessionAwaits
  <2>3. LiveShown'
    BY <1>1, <2>1 DEF vars, flags, jobs, runners, sessions, widgets, Shown, LiveShown, ShowsOn,
                      Undoes, Still
  <2> QED
    BY <2>2, <2>3 DEF Shown
<1>2. CASE Next
  <2>1. Shown
    BY <1>2, LeavingForGood DEF ShownInv, Shown
  <2> QED
    BY <1>2, <2>1, NextStartingShows, NextNoFailure, NextSessionAwaits, NextLiveShown DEF Shown
<1> QED
  BY <1>1, <1>2

\* README.md "Stop or close the app to shut everything down", as long as no key is
\* rebound: once things have settled, OFF or a lost session means that nothing is
\* live.  What is live and published shows ON or is about to be undone (ShownInv);
\* what is live and not published is in the hands of somebody who is not done.
THEOREM OffIsOff ==
  ASSUME "rebind" \notin Events
  PROVE  SafeSpec => []OffMeansOff
<1>1. Init => ShownInv
  <2> SUFFICES ASSUME Init PROVE Shown
    BY DEF ShownInv, Shown
  <2>1. StartingShows /\ NoFailure /\ SessionAwaits
    BY DEF Init, StartingShows, NoFailure, SessionAwaits
  <2>2. LiveShown
    BY DEF Init, LiveShown, Nothing
  <2> QED
    BY <2>1, <2>2 DEF Shown
<1>2. TypeOK /\ HandInv /\ ShownInv => OffMeansOff
  <2> SUFFICES ASSUME TypeOK, HandInv, ShownInv, Quiet, ~ShowsOn,
                      NEW t \in Tools, NEW i \in Ids, phase[t][i] = "live"
               PROVE  FALSE
    BY DEF OffMeansOff, ShowsOn, TypeOK, WidgetsOK
  <2>1. \A o \in Owners : own[o] = Nothing
    BY Numbers DEF HandInv, TakenInTime, Quiet, Owners
  <2>2. tools[t] = i
    BY <2>1, Numbers DEF HandInv, Hands, Steady, InHand, Known, Taken, Nothing
  <2>3. \A g \in Gens : ~Undoes(g, t)
    BY DEF Quiet, Undoes
  <2>4. LiveShown
    BY DEF ShownInv, Leaving, Quiet
  <2> QED
    BY <2>2, <2>3, <2>4, Numbers DEF LiveShown
<1> QED
  BY <1>1, <1>2, Invariance, NextShownInv, PTL DEF SafeSpec

-----------------------------------------------------------------------------
(***************************************************************************)
(* One runner of a tool at a time                                          *)
(***************************************************************************)
\* Who can still reach a run that is not over: its slot, who has taken it, or the
\* startup that waits for it.
Reach(t, i) ==
  \/ tools[t] = i
  \/ Taken(t, i)
  \/ \E g \in Gens : pc[g] = "await" /\ t = Clicker /\ mine[g] = i /\ <<t, i>> \in loose
  \/ \E g \in Gens : pc[g] = "waitOld" /\ t = Others[at[g]] /\ mine[g] = i

Held ==
  "rebind" \notin Events => \A t \in Tools, i \in Ids : Going(t, i) => Reach(t, i)

\* Who has taken a run keeps it until it is over.
LEMMA TakenUntilOver ==
  ASSUME TypeOK, HandInv, Next, NEW o \in Owners, NEW t \in Tools, NEW i \in Ids,
         own[o][t] = i, Going(t, i)
  PROVE  own'[o][t] = i
<1>0. RunnersOK /\ JobsOK /\ i # Nil
  BY Numbers DEF TypeOK
<1>1. CASE own' = own
  BY <1>1
<1>2. ASSUME NEW p \in Owners, own[p] = Nothing, own' = [own EXCEPT ![p] = tools] PROVE own'[o][t] = i
  <2>1. o # p
    BY <1>0, <1>2 DEF Nothing
  <2> QED
    BY <1>0, <1>2, <2>1 DEF JobsOK
<1>3. ASSUME NEW p \in Owners, DrainStep(p) PROVE own'[o][t] = i
  <2>1. CASE own' = own
    BY <2>1
  <2>2. CASE \E u \in Tools : /\ own[p][u] \in Ids /\ phase[u][own[p][u]] = "over"
                              /\ own' = [own EXCEPT ![p][u] = Nil]
    <3>1. PICK u \in Tools : /\ phase[u][own[p][u]] = "over"
                             /\ own' = [own EXCEPT ![p][u] = Nil]
      BY <2>2
    <3>2. ~(o = p /\ t = u)
      BY <3>1 DEF Going
    <3> QED
      BY <1>0, <3>1, <3>2 DEF JobsOK
  <2> QED
    BY <1>0, <1>3, <2>1, <2>2, Draining
<1>4. CASE Teardown
  <2>1. generation' \in Gens /\ pc[generation'] = "none"
    BY <1>4, Numbers DEF Teardown, HandInv, Numbered, TypeOK, FlagsOK
  <2>2. own[generation'] = Nothing
    BY <2>1 DEF HandInv, TakenInTime
  <2>3. own' = [own EXCEPT ![generation'] = tools]
    BY <1>4 DEF Teardown
  <2> QED
    BY <1>2, <2>1, <2>2, <2>3, Numbers
<1>5. CASE Shutdown
  BY <1>2, <1>5, Numbers DEF Shutdown, HandInv, TakenInTime
<1>6. ASSUME NEW g \in Gens, Rollback(g) PROVE own'[o][t] = i
  BY <1>2, <1>6, Numbers DEF Rollback, HandInv, TakenInTime
<1>7. CASE Closing
  BY <1>1, <1>3, <1>7, Numbers DEF Closing
<1>8. ASSUME NEW g \in Gens, RollingBack(g) \/ FinishTeardown(g) PROVE own'[o][t] = i
  BY <1>1, <1>3, <1>8, Numbers DEF RollingBack, FinishTeardown, Draws
<1>9. CASE SyncStop \/ SyncStart \/ SyncWait
  BY <1>1, <1>9 DEF SyncStop, SyncStart, SyncWait, jobs
<1>10. ASSUME NEW g \in Gens, StartClicker(g) \/ Drop(g) \/ StartOther(g) \/ WaitOld(g)
       PROVE  own'[o][t] = i
  BY <1>1, <1>10 DEF StartClicker, Drop, StartOther, WaitOld, LaunchBy
<1>11. CASE \E u \in Tools, j \in Ids : RunnerEnds(u, j)
  BY <1>1, <1>11 DEF RunnerEnds, jobs
<1> QED
  BY <1>1, <1>4, <1>5, <1>6, <1>7, <1>8, <1>9, <1>10, <1>11, OthersMoveNone DEF MovesRunners

\* Who empties a slot takes the run, or waits for it.
LEMMA SlotPassedOn ==
  ASSUME TypeOK, HandInv, Next, "rebind" \notin Events, NEW t \in Tools, NEW i \in Ids,
         tools[t] = i, Going(t, i)
  PROVE  Reach(t, i)'
<1>0. RunnersOK /\ JobsOK /\ SlotsOK /\ i # Nil /\ Alive(t, tools[t])
  BY Numbers DEF TypeOK, Going, Alive
<1>1. CASE tools'[t] = i
  BY <1>1 DEF Reach
<1>2. ASSUME NEW o \in Owners, own' = [own EXCEPT ![o] = tools] PROVE Reach(t, i)'
  <2>1. own'[o][t] = i
    BY <1>0, <1>2 DEF JobsOK
  <2> QED
    BY <2>1 DEF Reach, Taken
<1>3. CASE Teardown
  <2>1. own' = [own EXCEPT ![generation'] = tools] /\ generation' \in Gens
    BY <1>3, Numbers DEF Teardown, TypeOK, FlagsOK
  <2> QED
    BY <1>2, <2>1, Numbers
<1>4. CASE Shutdown
  BY <1>2, <1>4, Numbers DEF Shutdown
<1>5. ASSUME NEW g \in Gens, Rollback(g) PROVE Reach(t, i)'
  BY <1>2, <1>5, Numbers DEF Rollback
<1>6. ASSUME NEW g \in Gens, Drop(g) PROVE Reach(t, i)'
  <2>1. CASE t = Clicker /\ mine[g] = i
    <3>1. pc'[g] = "await" /\ mine' = mine /\ <<t, i>> \in loose'
      BY <1>0, <1>6, <2>1 DEF Drop, Goto, JobsOK
    <3> QED
      BY <2>1, <3>1 DEF Reach
  <2>2. CASE ~(t = Clicker /\ mine[g] = i)
    <3>1. tools'[t] = i
      BY <1>0, <1>6, <2>2 DEF Drop, Unpublished, SlotsOK
    <3> QED
      BY <1>1, <3>1
  <2> QED
    BY <2>1, <2>2
<1>7. ASSUME NEW g \in Gens, StartOther(g), TakeOld(Others[at[g]], g) PROVE Reach(t, i)'
  <2> DEFINE u == Others[at[g]]
  <2>1. u \in Tools
    BY <1>7, OrderIsTools DEF StartOther, LaunchBy, HandInv, Locked
  <2>2. CASE t # u
    BY <1>0, <1>1, <1>7, <2>1, <2>2 DEF TakeOld, SlotsOK
  <2>3. CASE t = u
    <3>1. /\ mine' = [mine EXCEPT ![g] = tools[u]] \/ ~Alive(u, tools[u]) \/ tools' = tools
          /\ pc' = [pc EXCEPT ![g] = "waitOld"] \/ ~Alive(u, tools[u]) \/ tools' = tools
          /\ at' = at
      BY <1>7 DEF StartOther, LaunchBy, Goto
    <3> QED
      BY <1>0, <1>1, <2>3, <3>1 DEF Reach, JobsOK
  <2> QED
    BY <2>2, <2>3
<1>8. ASSUME Calm, tools'[t] # i, ~Teardown, ~Shutdown,
             ~\E g \in Gens : \/ Rollback(g) \/ Drop(g)
                              \/ StartOther(g) /\ TakeOld(Others[at[g]], g)
      PROVE  FALSE
  <2>1. tools' # tools
    BY <1>8
  <2>2. ~SyncStop /\ ~SyncStart /\ ~SyncWait
    BY DEF SyncStop, SyncStart, SyncWait, HandInv, Locked
  <2>3. ASSUME NEW g \in Gens, StartClicker(g) \/ StartOther(g) \/ WaitOld(g) PROVE FALSE
    <3>1. tools'[t] = Nil
      BY <1>0, <1>8 DEF Calm
    <3>2. \E u \in Tools : \E s : Launch(u, s)
      <4>1. Others[at[g]] \in Tools \/ StartClicker(g)
        BY <2>3, OrderIsTools DEF StartOther, WaitOld, LaunchBy, HandInv, Locked
      <4> QED
        BY <1>8, <2>1, <2>3, <4>1, OrderIsTools DEF StartClicker, StartOther, WaitOld, LaunchBy
    <3>3. PICK u \in Tools : \E s : Launch(u, s)
      BY <3>2
    <3>4. Fresh(u) \in Ids /\ tools' = [tools EXCEPT ![u] = Fresh(u)] /\ phase[u][Fresh(u)] = "none"
          /\ phase' = [phase EXCEPT ![u][Fresh(u)] = "live"]
      BY <3>3 DEF Launch, Unused, Fresh
    <3> QED
      BY <1>0, <1>8, <3>4 DEF Calm, Going, RunnersOK
  <2> QED
    BY <1>8, <2>1, <2>2, <2>3, OthersMoveNone
       DEF MovesRunners, Closing, RollingBack, FinishTeardown, Draws, RunnerEnds
<1>9. ASSUME NEW u \in Tools, NEW s \in Nat, Starts(u, s) PROVE Reach(t, i)'
  <2>1. u # t
    BY <1>0, <1>9 DEF Starts
  <2>2. tools'[t] = tools[t]
    BY <1>0, <1>9, <2>1, Launching DEF Starts
  <2> QED
    BY <1>1, <2>2
<1>10. ASSUME NEW g \in Gens, Starts(Clicker, sess[g]) PROVE Reach(t, i)'
  BY <1>0, <1>9, <1>10, OrderIsTools DEF JobsOK
<1>11. CASE \E u \in ToSet(Others), s \in Nat : Starts(u, s)
  BY <1>9, <1>11, OrderIsTools
<1> QED
  BY <1>1, <1>3, <1>4, <1>5, <1>6, <1>7, <1>8, <1>10, <1>11, LifeBeginsWithLaunch

\* Every step keeps Held.
LEMMA NextHeld ==
  ASSUME TypeOK, HandInv, Held, Next PROVE Held'
<1> SUFFICES ASSUME "rebind" \notin Events, NEW t \in Tools, NEW i \in Ids, Going(t, i)'
             PROVE  Reach(t, i)'
  BY DEF Held
<1>0. RunnersOK /\ JobsOK /\ SlotsOK /\ i # Nil
  BY Numbers DEF TypeOK
<1>1. ASSUME Going(t, i) PROVE Reach(t, i)'
  <2>1. CASE tools[t] = i
    BY <1>1, <2>1, SlotPassedOn
  <2>2. CASE Taken(t, i)
    BY <1>1, <2>2, TakenUntilOver DEF Reach, Taken
  <2>3. ASSUME NEW g \in Gens, pc[g] = "await", t = Clicker, mine[g] = i, <<t, i>> \in loose
        PROVE  Reach(t, i)'
    <3>1. ~JobStep(g)
      BY <1>0, <1>1, <2>3 DEF JobStep, ReadSession, Check, StartClicker, Recheck, Drop, Await, Gate,
           StartOther, WaitOld, LaunchBy, Rollback, RollingBack, Finish, FinishTeardown, Draws, Going, Alive
    <3> QED
      BY <2>3, <3>1, OthersStayPut, LooseForGood DEF Put, Reach
  <2>4. ASSUME NEW g \in Gens, pc[g] = "waitOld", t = Others[at[g]], mine[g] = i PROVE Reach(t, i)'
    <3>1. ~JobStep(g)
      BY <1>0, <1>1, <2>4 DEF JobStep, ReadSession, Check, StartClicker, Recheck, Drop, Await, Gate,
           StartOther, WaitOld, LaunchBy, Rollback, RollingBack, Finish, FinishTeardown, Draws, Going, Alive
    <3> QED
      BY <2>4, <3>1, OthersStayPut DEF Put, Reach
  <2> QED
    BY <1>1, <2>1, <2>2, <2>3, <2>4 DEF Held, Reach
<1>2. ASSUME NEW u \in Tools, NEW s \in Nat, Starts(u, s), ~Going(t, i) PROVE Reach(t, i)'
  <2>1. u = t /\ i = Fresh(t) /\ tools'[t] = Fresh(t)
    BY <1>0, <1>2, Launching DEF Starts, Going
  <2> QED
    BY <2>1 DEF Reach
<1>3. CASE Calm
  BY <1>1, <1>3 DEF Calm
<1>4. ASSUME NEW g \in Gens, Starts(Clicker, sess[g]) PROVE Reach(t, i)'
  BY <1>0, <1>1, <1>2, <1>4, OrderIsTools DEF JobsOK
<1>5. CASE \E u \in ToSet(Others), s \in Nat : Starts(u, s)
  BY <1>1, <1>2, <1>5, OrderIsTools
<1> QED
  BY <1>3, <1>4, <1>5, LifeBeginsWithLaunch

\* stopping is up from the click until a teardown is done: whatever is drawn while it
\* is down was drawn when an earlier teardown cleared it.
Flagged ==
  /\ gui.at \in {"stop", "disconnect"} => stopping
  /\ ~stopping => Drawn \subseteq loose

\* Every step keeps Flagged.
LEMMA NextFlagged ==
  ASSUME TypeOK, HandInv, Flagged, Next PROVE Flagged'
<1>0. JobsOK /\ RunnersOK /\ loose \subseteq loose'
  BY LooseForGood DEF TypeOK
<1>1. ASSUME UNCHANGED <<stopping, gui>>, Drawn' \subseteq Drawn PROVE Flagged'
  BY <1>0, <1>1 DEF Flagged
<1>2. ASSUME UNCHANGED <<stopping, gui, own>>, \A g \in Gens : Draws(g)' => Draws(g) PROVE Flagged'
  BY <1>1, <1>2 DEF Drawn
<1>3. CASE BeginStartup /\ UNCHANGED <<own, gui>>
  <2>1. stopping' = stopping /\ pc' = [pc EXCEPT ![generation'] = "session"]
    BY <1>3 DEF BeginStartup
  <2> QED
    BY <1>0, <1>2, <1>3, <2>1 DEF Draws, JobsOK
<1>4. CASE stopping'
  BY <1>4 DEF Flagged
<1>5. CASE RunClosure
  <2>1. /\ Head(queue) \in Closures /\ Closure(Head(queue)) /\ gui.at = "free"
        /\ Head(queue) = "stopped" => loose' = loose \cup Drawn
    BY <1>5 DEF RunClosure, TypeOK, GuiOK
  <2>2. CASE Head(queue) = "stopped"
    <3>1. UNCHANGED <<own, pc, gui>>
      BY <2>1, <2>2 DEF Closure, jobs
    <3>2. Drawn' = Drawn
      BY <3>1 DEF Drawn, Draws
    <3> QED
      BY <2>1, <2>2, <3>1, <3>2 DEF Flagged
  <2>3. CASE Head(queue) # "stopped"
    <3>1. stopping' \/ UNCHANGED <<stopping, gui, own, pc>> \/ (BeginStartup /\ UNCHANGED gui)
      BY <2>1, <2>3 DEF Closure, Closures, OnStart, BeginTeardown, flags, jobs
    <3>2. ASSUME UNCHANGED <<stopping, gui, own, pc>> PROVE Flagged'
      BY <1>2, <3>2 DEF Draws
    <3> QED
      BY <1>3, <1>4, <3>1, <3>2 DEF BeginStartup
  <2> QED
    BY <2>2, <2>3
<1>6. CASE UserEvent
  <2>1. stopping' \/ (UNCHANGED <<stopping, own, pc>> /\ gui'.at \notin {"stop", "disconnect"})
          \/ (BeginStartup /\ UNCHANGED gui)
    <3>1. CASE ClickStart \/ ClickStop \/ ClickStartViiper \/ CloseWindow
      BY <3>1 DEF ClickStart, OnStart, ClickStop, BeginTeardown, ClickStartViiper, CloseWindow,
                  Idle, flags, jobs
    <3>2. ASSUME NEW t \in ToSet(Others), Rebind(t) \/ ChangeMode(t)
          PROVE  UNCHANGED <<stopping, own, pc>> /\ gui'.at \notin {"stop", "disconnect"}
      <4>1. UNCHANGED <<stopping, own, pc>>
        BY <3>2 DEF Rebind, ChangeMode, flags, jobs
      <4>2. \/ gui' = Idle
            \/ gui' = [Idle EXCEPT !.at = "syncStart", !.tool = t]
            \/ gui' = [Idle EXCEPT !.at = "syncStop", !.tool = t, !.run = tools[t]]
        BY <3>2 DEF Rebind, ChangeMode
      <4>3. gui'.at \in {"free", "syncStart", "syncStop"}
        <5>1. CASE gui' = Idle
          BY <5>1 DEF Idle
        <5>2. CASE gui' = [Idle EXCEPT !.at = "syncStart", !.tool = t]
          BY <5>2 DEF Idle
        <5>3. CASE gui' = [Idle EXCEPT !.at = "syncStop", !.tool = t, !.run = tools[t]]
          BY <5>3 DEF Idle
        <5> QED
          BY <4>2, <5>1, <5>2, <5>3
      <4> QED
        BY <4>1, <4>3
    <3> QED
      BY <1>6, <3>1, <3>2 DEF UserEvent
  <2>2. ASSUME UNCHANGED <<stopping, own, pc>>, gui'.at \notin {"stop", "disconnect"} PROVE Flagged'
    <3>1. Drawn' = Drawn
      BY <2>2 DEF Drawn, Draws
    <3> QED
      BY <1>0, <2>2, <3>1 DEF Flagged
  <2> QED
    BY <1>3, <1>4, <2>1, <2>2 DEF BeginStartup
<1>7. CASE Teardown
  BY <1>4, <1>7 DEF Teardown, Flagged
<1>8. CASE SyncStop \/ SyncStart \/ SyncWait \/ Shutdown \/ Closing
  <2>1. UNCHANGED <<stopping, pc>> /\ gui'.at \notin {"stop", "disconnect"}
        /\ \A g \in Gens : own'[g] = own[g]
    <3>1. CASE SyncStop \/ SyncStart \/ SyncWait
      <4>1. UNCHANGED <<stopping, pc, own>>
        BY <3>1 DEF SyncStop, SyncStart, SyncWait, flags, jobs
      <4>2. gui' = Idle \/ gui' = [gui EXCEPT !.at = "syncWait", !.run = tools[gui.tool], !.sess = session]
        BY <3>1 DEF SyncStop, SyncStart, SyncWait
      <4>3. gui'.at \in {"free", "syncWait"}
        <5>1. CASE gui' = Idle
          BY <5>1 DEF Idle
        <5>2. CASE gui' = [gui EXCEPT !.at = "syncWait", !.run = tools[gui.tool], !.sess = session]
          BY <5>2 DEF TypeOK, GuiOK
        <5> QED
          BY <4>2, <5>1, <5>2
      <4> QED
        BY <4>1, <4>3
    <3>2. CASE Shutdown
      BY <1>0, <3>2, Numbers DEF Shutdown, Idle, JobsOK
    <3>3. CASE Closing
      <4>1. own' = own \/ \E t \in Tools : own' = [own EXCEPT ![Gui][t] = Nil]
        BY <1>0, <3>3, Draining, Numbers DEF Closing
      <4> QED
        BY <1>0, <3>3, <4>1, Numbers DEF Closing, Idle, flags, JobsOK
    <3> QED
      BY <1>8, <3>1, <3>2, <3>3
  <2>2. Drawn' = Drawn
    BY <2>1 DEF Drawn, Draws
  <2> QED
    BY <1>0, <2>1, <2>2 DEF Flagged
<1>9. ASSUME NEW g \in Gens, JobStep(g) PROVE Flagged'
  <2>0. UNCHANGED gui /\ \A h \in Gens \ {g} : pc'[h] = pc[h]
    BY <1>9, JobMovesItself
  <2>1. CASE FinishTeardown(g)
    <3>1. UNCHANGED stopping /\ Draws(g)
      BY <2>1 DEF FinishTeardown, flags
    <3>2. CASE DrainStep(g)
      <4>1. own' = own \/ \E t \in Tools : own' = [own EXCEPT ![g][t] = Nil]
        BY <1>0, <3>2, Draining, Numbers
      <4>2. \A h \in Gens, t \in Tools : own'[h][t] \in {own[h][t], Nil}
        <5>1. CASE own' = own
          BY <5>1
        <5>2. ASSUME NEW u \in Tools, own' = [own EXCEPT ![g][u] = Nil],
                     NEW h \in Gens, NEW t \in Tools
              PROVE  own'[h][t] \in {own[h][t], Nil}
          BY <1>0, <5>2, Numbers DEF JobsOK
        <5> QED
          BY <4>1, <5>1, <5>2
      <4>3. Drawn' \subseteq Drawn
        BY <2>0, <3>1, <4>2, Numbers DEF Drawn, Draws
      <4> QED
        BY <1>1, <2>0, <3>1, <4>3
    <3>3. CASE UNCHANGED own
      BY <1>2, <2>0, <3>1, <3>3 DEF Draws
    <3> QED
      BY <2>1, <3>2, <3>3 DEF FinishTeardown
  <2>2. CASE ~FinishTeardown(g)
    <3>1. UNCHANGED stopping /\ ~Draws(g) /\ ~Draws(g)'
      BY <1>0, <1>9, <2>2
         DEF JobStep, ReadSession, Check, StartClicker, Recheck, Drop, Await, Gate, StartOther,
             WaitOld, Rollback, RollingBack, Finish, Draws, Goto, JobsOK, flags
    <3>2. \A h \in Gens : h # g => own'[h] = own[h]
      <4>1. own' = own \/ own' = [own EXCEPT ![g] = tools]
              \/ \E t \in Tools : own' = [own EXCEPT ![g][t] = Nil]
        BY <1>0, <1>9, <2>2, Draining, Numbers
           DEF JobStep, ReadSession, Check, StartClicker, Recheck, Drop, Await, Gate, StartOther,
               WaitOld, Rollback, RollingBack, Finish
      <4> QED
        BY <1>0, <4>1, Numbers DEF JobsOK
    <3>3. Drawn' = Drawn
      BY <2>0, <3>1, <3>2 DEF Drawn, Draws
    <3> QED
      BY <1>1, <2>0, <3>1, <3>3
  <2> QED
    BY <2>1, <2>2
<1>10. CASE EnvStep \/ UNCHANGED vars \/ \E t \in Tools, i \in Ids : RunnerEnds(t, i)
  <2>1. UNCHANGED <<stopping, gui, own, pc>>
    BY <1>10 DEF EnvStep, OpenEnds, MonitorSees, MonitorLoses, PressToggle, WatcherSees,
                 ReleaseToggle, RunnerEnds, vars, flags, jobs
  <2> QED
    BY <1>2, <2>1 DEF Draws
<1> QED
  BY <1>5, <1>6, <1>7, <1>8, <1>9, <1>10 DEF Next, GuiStep

\* The tools that startup g has yet to start.
Ahead(g, t) ==
  \/ pc[g] \in Early
  \/ /\ pc[g] \in {"recheck", "gate", "start", "waitOld"}
     /\ \E n \in DOMAIN Others :
          t = Others[n] /\ (n > at[g] \/ (pc[g] \in {"start", "waitOld"} /\ n = at[g]))

\* Whoever waits for run i of t holds lifecycleMu until it is over.
LockedAway(t, i) ==
  \E h \in Gens : \/ pc[h] = "rollingBack" /\ own[h][t] = i
                  \/ pc[h] = "waitOld" /\ t = Others[at[h]] /\ mine[h] = i

\* What the startup in progress has yet to start has no run left over, except those
\* that are loose and those that it cannot pass before they are over.
Clear ==
  \A g \in Gens : \A t \in Tools, i \in Ids :
    Still(g) /\ Ahead(g, t) /\ Going(t, i) => <<t, i>> \in loose \/ LockedAway(t, i)

\* A startup in progress only ever has fewer tools ahead of it.
LEMMA AheadBefore ==
  ASSUME TypeOK, HandInv, Next, ~BeginStartup, NEW g \in Gens, NEW t \in Tools, Ahead(g, t)'
  PROVE  Ahead(g, t)
<1>0. JobsOK /\ at[g] \in Nat
  BY OrderIsTools DEF TypeOK, JobsOK
<1>1. CASE pc'[g] \in Early
  BY <1>1, EarlyBefore DEF Ahead
<1>2. CASE pc'[g] \in {"recheck", "gate", "start", "waitOld"}
  <2>1. PICK n \in DOMAIN Others :
          t = Others[n] /\ (n > at'[g] \/ (pc'[g] \in {"start", "waitOld"} /\ n = at'[g]))
    BY <1>2 DEF Ahead, Early
  <2>3. CASE Put(g)
    BY <1>2, <2>1, <2>3 DEF Put, Ahead
  <2>4. CASE JobStep(g)
    <3>1. CASE StartClicker(g)
      BY <3>1 DEF StartClicker, Ahead, Early
    <3>2. CASE Recheck(g)
      <4>1. at' = at /\ pc[g] = "recheck" /\ pc'[g] \notin {"start", "waitOld"}
        BY <1>0, <3>2 DEF Recheck, Goto, JobsOK
      <4> QED
        BY <2>1, <4>1 DEF Ahead
    <3>3. CASE Gate(g)
      <4>1. CASE pc' = [pc EXCEPT ![g] = "start"] /\ at' = [at EXCEPT ![g] = @ + 1]
        <5>1. at'[g] = at[g] + 1 /\ n \in Nat
          BY <1>0, <4>1, OrderIsTools DEF JobsOK
        <5> QED
          BY <1>0, <2>1, <3>3, <5>1 DEF Gate, Ahead
      <4>2. CASE pc' = [pc EXCEPT ![g] = "rollback"] \/ pc' = [pc EXCEPT ![g] = "finish"]
        BY <1>0, <1>2, <4>2 DEF JobsOK
      <4> QED
        BY <3>3, <4>1, <4>2 DEF Gate, Goto
    <3>4. CASE StartOther(g)
      <4>1. at' = at /\ pc[g] = "start"
        BY <3>4 DEF StartOther
      <4> QED
        BY <2>1, <4>1 DEF Ahead
    <3>5. CASE WaitOld(g)
      <4>1. at' = at /\ pc[g] = "waitOld"
        BY <3>5 DEF WaitOld
      <4> QED
        BY <2>1, <4>1 DEF Ahead
    <3>6. CASE ReadSession(g) \/ Check(g) \/ Drop(g) \/ Await(g) \/ Rollback(g) \/ Finish(g)
      <4>1. \E x \in {"done", "check", "clicker", "await", "rollingBack"} : Goto(g, x)
        BY <3>6 DEF ReadSession, Check, Drop, Await, Rollback, Finish
      <4> QED
        BY <1>0, <1>2, <4>1 DEF Goto, JobsOK
    <3>7. CASE RollingBack(g) \/ FinishTeardown(g)
      <4>1. pc' = pc \/ Goto(g, "done")
        BY <3>7 DEF RollingBack, FinishTeardown
      <4>2. pc[g] \notin {"recheck", "gate", "start", "waitOld"}
        BY <3>7 DEF RollingBack, FinishTeardown, Draws
      <4> QED
        BY <1>0, <1>2, <4>1, <4>2 DEF Goto, JobsOK
    <3> QED
      BY <2>4, <3>1, <3>2, <3>3, <3>4, <3>5, <3>6, <3>7 DEF JobStep
  <2> QED
    BY <1>2, <2>3, <2>4, OthersStayPut
<1> QED
  BY <1>1, <1>2 DEF Ahead

\* Who waits with the lock held waits until the run is over.
LEMMA LockedAwayUntilOver ==
  ASSUME TypeOK, HandInv, Next, NEW t \in Tools, NEW i \in Ids, Going(t, i), LockedAway(t, i)
  PROVE  LockedAway(t, i)'
<1>0. JobsOK /\ i # Nil
  BY Numbers DEF TypeOK
<1>1. PICK h \in Gens : \/ pc[h] = "rollingBack" /\ own[h][t] = i
                        \/ pc[h] = "waitOld" /\ t = Others[at[h]] /\ mine[h] = i
  BY DEF LockedAway
<1>2. CASE pc[h] = "rollingBack" /\ own[h][t] = i
  <2>1. own'[h][t] = i
    BY <1>2, TakenUntilOver, Numbers
  <2>2. ~Drained(h)
    BY <1>0, <1>2 DEF Drained, Nothing
  <2>3. pc'[h] = "rollingBack"
    <3>1. CASE JobStep(h)
      <4>1. RollingBack(h)
        BY <1>2, <3>1 DEF JobStep, ReadSession, Check, StartClicker, Recheck, Drop, Await, Gate,
             StartOther, WaitOld, Rollback, Finish, FinishTeardown, Draws
      <4> QED
        BY <1>2, <2>2, <4>1 DEF RollingBack
    <3> QED
      BY <1>2, <3>1, OthersStayPut DEF Put
  <2> QED
    BY <2>1, <2>3 DEF LockedAway
<1>3. CASE pc[h] = "waitOld" /\ t = Others[at[h]] /\ mine[h] = i
  <2>1. ~JobStep(h)
    BY <1>0, <1>3 DEF JobStep, ReadSession, Check, StartClicker, Recheck, Drop, Await, Gate,
         StartOther, WaitOld, Rollback, RollingBack, Finish, FinishTeardown, Draws, Going, Alive
  <2> QED
    BY <1>3, <2>1, OthersStayPut DEF Put, LockedAway
<1> QED
  BY <1>1, <1>2, <1>3

\* When a startup begins, what is left over is loose or is waited for with the lock
\* held: onStart is refused when a run is published or a teardown is known of.
LEMMA BeginsWithNothing ==
  ASSUME TypeOK, HandInv, Held, Flagged, "rebind" \notin Events, BeginStartup,
         gui.at = "free", NEW t \in Tools, NEW i \in Ids, Going(t, i)
  PROVE  <<t, i>> \in loose \/ LockedAway(t, i)
<1>0. JobsOK /\ RunnersOK /\ i # Nil
  BY Numbers DEF TypeOK
<1>1. ~stopping /\ ~AnyRunning
  BY DEF BeginStartup, Busy
<1>2. tools[t] # i
  BY <1>0, <1>1 DEF AnyRunning, Alive, Going
<1>3. ASSUME NEW o \in Owners, own[o][t] = i PROVE <<t, i>> \in loose \/ LockedAway(t, i)
  <2>1. own[o] # Nothing
    BY <1>0, <1>3 DEF Nothing
  <2>2. o \in Gens /\ (pc[o] = "rollingBack" \/ Draws(o))
    BY <2>1, Numbers DEF HandInv, TakenInTime, Owners, Draws
  <2>3. CASE pc[o] = "rollingBack"
    BY <1>3, <2>2, <2>3 DEF LockedAway
  <2>4. CASE Draws(o)
    <3>1. <<t, i>> \in Drawn
      BY <1>3, <2>2, <2>4 DEF Drawn
    <3> QED
      BY <1>1, <3>1 DEF Flagged
  <2> QED
    BY <2>2, <2>3, <2>4
<1>4. Reach(t, i)
  BY DEF Held
<1> QED
  BY <1>2, <1>3, <1>4 DEF Reach, Taken, LockedAway

\* Only a startup starts a tool: the one in progress the next tool ahead of it, with
\* the lock its own or free, and a cancelled one a loose run.
LEMMA StartsWhatIsAhead ==
  ASSUME TypeOK, HandInv, "rebind" \notin Events, Next
  PROVE  \/ Calm
         \/ \E g \in Gens, t \in Tools, s \in Nat :
              /\ Starts(t, s)
              /\ \/ ~Still(g) /\ <<t, Fresh(t)>> \in loose'
                 \/ /\ Still(g) /\ Ahead(g, t) /\ ~Ahead(g, t)'
                    /\ \A i \in Ids : Going(t, i) => ~LockedAway(t, i)
<1>0. JobsOK
  BY DEF TypeOK
<1>1. ASSUME NEW t \in Tools, NEW i \in Ids, LockedAway(t, i), lifecycleMu = Free PROVE FALSE
  BY <1>1, Numbers DEF LockedAway, HandInv, Locked
<1>2. ASSUME NEW g \in Gens, StartClicker(g), Still(g), Starts(Clicker, sess[g])
      PROVE  /\ Ahead(g, Clicker) /\ ~Ahead(g, Clicker)' /\ sess[g] \in Nat
             /\ \A i \in Ids : ~LockedAway(Clicker, i)
  <2>1. pc[g] = "clicker" /\ lifecycleMu = Free
    BY <1>2 DEF StartClicker
  <2>2. pc'[g] \in {"recheck", "done"}
    BY <1>0, <1>2 DEF StartClicker, Goto, JobsOK
  <2>3. \A n \in DOMAIN Others : Others[n] # Clicker
    BY OrderIsTools
  <2>4. \A i \in Ids : ~LockedAway(Clicker, i)
    BY <1>1, <2>1, OrderIsTools
  <2> QED
    BY <1>0, <2>1, <2>2, <2>3, <2>4 DEF Ahead, Early, JobsOK
<1>3. ASSUME NEW t \in ToSet(Others), NEW s \in Nat, Starts(t, s), OtherStarts(t)
      PROVE  \E g \in Gens :
               \/ ~Still(g) /\ <<t, Fresh(t)>> \in loose'
               \/ /\ Still(g) /\ Ahead(g, t) /\ ~Ahead(g, t)'
                  /\ \A i \in Ids : Going(t, i) => ~LockedAway(t, i)
  <2>1. PICK g \in Gens : /\ StartOther(g) \/ WaitOld(g)
                          /\ at[g] \in DOMAIN Others /\ t = Others[at[g]]
    BY <1>3 DEF OtherStarts
  <2>2. t \in Tools /\ SlotsOK /\ RunnersOK
    BY OrderIsTools DEF TypeOK
  <2>3. tools'[t] = Fresh(t) /\ Fresh(t) \in Ids
    BY <1>3, <2>2, Launching DEF Starts
  <2>4. pc[g] \in {"start", "waitOld"} /\ at' = at /\ \E s2 : LaunchBy(g, t, s2) /\ Goto(g, "gate")
    <3>1. CASE StartOther(g)
      <4>1. ~Alive(t, tools[t]) /\ phase'[t][Fresh(t)] = "live" /\ phase[t][Fresh(t)] = "none"
        BY <1>3, <2>2, <2>3, Launching DEF Starts
      <4>2. pc[g] = "start" /\ at' = at /\ phase' # phase
        BY <3>1, <4>1 DEF StartOther
      <4>3. LaunchBy(g, t, session) /\ Goto(g, "gate")
        BY <2>1, <3>1, <4>1, <4>2 DEF StartOther, runners
      <4> QED
        BY <4>2, <4>3
    <3>2. CASE WaitOld(g)
      BY <2>1, <3>2 DEF WaitOld
    <3> QED
      BY <2>1, <3>1, <3>2
  <2>5. ~Still(g) => <<t, Fresh(t)>> \in loose'
    BY <2>4 DEF LaunchBy
  <2>6. Ahead(g, t)
    BY <2>1, <2>4 DEF Ahead
  <2>7. \A n \in DOMAIN Others : t = Others[n] => ~(n > at[g])
    <3>1. at[g] \in Nat /\ t = Others[at[g]] /\ at[g] \in DOMAIN Others
      BY <2>1, OrderIsTools
    <3>2. \A n, m \in DOMAIN Others : Others[n] = Others[m] => n = m
      BY OrderIsTools
    <3> SUFFICES ASSUME NEW n \in DOMAIN Others, t = Others[n] PROVE ~(n > at[g])
      OBVIOUS
    <3>3. n = at[g]
      BY <3>1, <3>2
    <3> QED
      BY <3>1, <3>3
  <2>8. pc'[g] = "gate"
    BY <1>0, <2>4 DEF Goto, JobsOK
  <2>9. ~Ahead(g, t)'
    BY <2>4, <2>7, <2>8 DEF Ahead, Early
  <2>10. ASSUME NEW i \in Ids, Going(t, i), LockedAway(t, i) PROVE FALSE
    <3>1. WaitOld(g) /\ pc[g] = "waitOld" /\ lifecycleMu = g
      BY <1>1, <2>1, <2>2, <2>10 DEF StartOther, WaitOld, HandInv, Locked
    <3>2. PICK h \in Gens : \/ pc[h] = "rollingBack" /\ own[h][t] = i
                            \/ pc[h] = "waitOld" /\ t = Others[at[h]] /\ mine[h] = i
      BY <2>10 DEF LockedAway
    <3>3. h = g
      BY <3>1, <3>2 DEF HandInv, Locked
    <3>4. mine[g] = i /\ ~Alive(t, mine[g])
      BY <2>1, <3>1, <3>2, <3>3 DEF WaitOld
    <3> QED
      BY <2>10, <3>4, Numbers DEF Alive, Going
  <2> QED
    BY <2>5, <2>6, <2>9, <2>10
<1> QED
  BY <1>2, <1>3, LifeBeginsWithLaunch, OrderIsTools

\* Nothing but the startup in progress starts what is ahead of it, except loose runs.
LEMMA NextClear ==
  ASSUME TypeOK, HandInv, Held, Flagged, Clear, "rebind" \notin Events, Next
  PROVE  Clear'
<1>0. JobsOK /\ RunnersOK /\ SlotsOK /\ loose \subseteq loose'
  BY LooseForGood DEF TypeOK
<1> SUFFICES ASSUME NEW g \in Gens, NEW t \in Tools, NEW i \in Ids,
                    Still(g)', Ahead(g, t)', Going(t, i)'
             PROVE  <<t, i>> \in loose' \/ LockedAway(t, i)'
  BY DEF Clear
<1>1. CASE BeginStartup /\ phase' = phase /\ gui.at = "free"
  <2>1. Going(t, i)
    BY <1>1 DEF Going
  <2> QED
    BY <1>0, <1>1, <2>1, BeginsWithNothing, LockedAwayUntilOver
<1>2. CASE ~BeginStartup /\ (starting' => starting /\ generation' = generation)
           /\ ctxDone \subseteq ctxDone'
  <2>1. Still(g) /\ Ahead(g, t) /\ generation' = generation
    BY <1>2, AheadBefore DEF Still
  <2>2. CASE Going(t, i)
    BY <1>0, <2>1, <2>2, LockedAwayUntilOver DEF Clear
  <2>3. CASE ~Going(t, i)
    <3>1. CASE Calm
      BY <2>3, <3>1 DEF Calm
    <3>2. ASSUME NEW h \in Gens, NEW u \in Tools, NEW s \in Nat, Starts(u, s),
                 \/ ~Still(h) /\ <<u, Fresh(u)>> \in loose'
                 \/ Still(h) /\ ~Ahead(h, u)'
          PROVE  <<t, i>> \in loose'
      <4>1. u = t /\ i = Fresh(t)
        BY <1>0, <2>3, <3>2, Launching DEF Starts, Going
      <4>2. Still(h) => h = g
        BY <2>1 DEF Still
      <4> QED
        BY <3>2, <4>1, <4>2
    <3> QED
      BY <3>1, <3>2, StartsWhatIsAhead
  <2> QED
    BY <2>2, <2>3
<1>3. ASSUME BeginStartup, starting' => generation' = generation PROVE FALSE
  <2>1. starting' = TRUE /\ generation' = generation + 1 /\ generation \in Nat
    BY <1>3, Numbers DEF BeginStartup, TypeOK, FlagsOK
  <2> QED
    BY <1>3, <2>1
<1> QED
  BY <1>1, <1>2, <1>3, StartupsOnlyBegin

\* A run begins where no other one of its tool is left, or is loose.
LEMMA NextOneOfAKind ==
  ASSUME TypeOK, HandInv, Clear, "rebind" \notin Events, OneOfAKind, Next PROVE OneOfAKind'
<1>0. RunnersOK /\ SlotsOK /\ loose \subseteq loose'
  BY LooseForGood DEF TypeOK
<1> SUFFICES ASSUME NEW t \in Tools, NEW i \in Ids, NEW j \in Ids, Going(t, i)', Going(t, j)',
                    <<t, i>> \notin loose', <<t, j>> \notin loose'
             PROVE  i = j
  BY DEF OneOfAKind, Alive, Going
<1>1. Going(t, i) /\ Going(t, j) => i = j
  BY <1>0, Numbers DEF OneOfAKind, Alive, Going
<1>2. CASE Calm
  BY <1>1, <1>2 DEF Calm
<1>3. ASSUME NEW g \in Gens, NEW u \in Tools, NEW s \in Nat, Starts(u, s),
             \/ ~Still(g) /\ <<u, Fresh(u)>> \in loose'
             \/ /\ Still(g) /\ Ahead(g, u)
                /\ \A k \in Ids : Going(u, k) => ~LockedAway(u, k)
      PROVE  i = j
  <2>1. \A v \in Tools, k \in Ids :
          phase'[v][k] = IF v = u /\ k = Fresh(u) THEN "live" ELSE phase[v][k]
    BY <1>0, <1>3, Launching DEF Starts
  <2>2. CASE t # u
    BY <1>1, <2>1, <2>2 DEF Going
  <2>3. CASE t = u
    <3>1. \A k \in {i, j} : k # Fresh(u) => Going(u, k) /\ <<u, k>> \notin loose
      BY <1>0, <2>1, <2>3 DEF Going
    <3>2. CASE <<u, Fresh(u)>> \in loose'
      BY <1>1, <2>3, <3>1, <3>2
    <3>3. CASE Still(g) /\ Ahead(g, u) /\ \A k \in Ids : Going(u, k) => ~LockedAway(u, k)
      BY <3>1, <3>3 DEF Clear
    <3> QED
      BY <1>3, <3>2, <3>3
  <2> QED
    BY <2>2, <2>3
<1> QED
  BY <1>2, <1>3, StartsWhatIsAhead

\* runner_control.go:26 and main.go:401: while no key is rebound, a run that is not
\* loose never meets another one of its tool, however startups and teardowns overlap.
\* The loose ones are named with OneOfAKind; two Stops and a Start give two clickers.
THEOREM OneRunOfATool ==
  ASSUME "rebind" \notin Events
  PROVE  SafeSpec => []OneOfAKind
<1> DEFINE Inv == TypeOK /\ HandInv /\ Held /\ Flagged /\ Clear /\ OneOfAKind
<1>1. Init => Held /\ Flagged /\ Clear /\ OneOfAKind
  BY DEF Init, Held, Flagged, Drawn, Draws, Clear, OneOfAKind, Going, Alive, Idle
<1>2. ASSUME Inv, [Next]_vars PROVE Held' /\ Flagged' /\ Clear' /\ OneOfAKind'
  <2>1. ASSUME UNCHANGED vars PROVE Held' /\ Flagged' /\ Clear' /\ OneOfAKind'
    <3>1. UNCHANGED <<stopping, starting, generation, ctxDone, tools, gui, pc, at, mine, own,
                      phase, loose>>
      BY <2>1 DEF vars, flags, jobs, runners
    <3>2. Held' /\ Flagged'
      BY <1>2, <3>1 DEF Held, Going, Reach, Taken, Flagged, Drawn, Draws
    <3>3. Clear' /\ OneOfAKind'
      BY <1>2, <3>1 DEF Clear, OneOfAKind, Going, Ahead, LockedAway, Still, Alive
    <3> QED
      BY <3>2, <3>3
  <2> QED
    BY <1>2, <2>1, NextHeld, NextFlagged, NextClear, NextOneOfAKind
<1> QED
  BY <1>1, <1>2, Invariance, PTL DEF SafeSpec
=============================================================================
