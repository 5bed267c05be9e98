------------------------------ MODULE ToolTabs ------------------------------
(***************************************************************************)
(* What the tabs of the window hold and what they hand to the tools: the   *)
(* keys and the number of every row (app/gui/clicker_tab.go,               *)
(* timer_key_tab.go, autopot_tab.go, keychain_tab.go), the binding of a    *)
(* key (runner_control.go:71, main.go:716), the tool profiles              *)
(* (tool_profiles.go) and the startup that reads the tabs while the user   *)
(* goes on editing (main.go:446 and 533).                                  *)
(*                                                                         *)
(* The GUI thread runs one handler at a time, so a handler is an action.   *)
(* A bind waits for its key, and the startup runs, between handlers.       *)
(***************************************************************************)
EXTENDS Naturals, Sequences, FiniteSets, FiniteSetsExt

CONSTANTS
  Keys, NoKey,                \* virtual-key codes, and 0
  Values, Default,            \* what a number field holds; 0: nothing usable
  ClickerSlotCount, ClickerKeysPerBind, TimerKeySlotCount,
  KeyChainCount, KeyChainSlotCount,
  Names,                      \* names of profiles
  Unbound, Pressed,           \* no bind under way; its key has been handled
  FirstFiles,                 \* what the profile file may hold at first
  MaxSteps                    \* bound: clicks and edits of the user

Tabs == {"clicker", "timer", "autopot", "keychain"}
RowCount == [clicker |-> ClickerSlotCount, timer |-> TimerKeySlotCount,
             autopot |-> 2, keychain |-> KeyChainCount]
SlotCount == [clicker |-> ClickerKeysPerBind, timer |-> 1,
              autopot |-> 1, keychain |-> KeyChainSlotCount]

Row == UNION {{t} \X (1 .. RowCount[t]) : t \in Tabs}
Place == UNION {{t} \X (1 .. RowCount[t]) \X (1 .. SlotCount[t]) : t \in Tabs}

ASSUME ToolTabsAssumption ==
  /\ {ClickerSlotCount, ClickerKeysPerBind, TimerKeySlotCount, KeyChainCount, KeyChainSlotCount}
       \subseteq Nat \ {0}
  /\ NoKey \notin Keys
  /\ Values \subseteq Nat /\ 0 \in Values /\ Default \in Values \ {0}
  /\ Unbound # Pressed /\ {Unbound, Pressed} \cap Place = {}

VARIABLES
  key, delay, visible,                     \* the tabs
  bind,                                    \* the place a bind waits for
  running, startup, pending,               \* tools; the startup and what it read
  template, saved, listed, active,         \* profiles, the combo box
  file,                                    \* profiles.json
  hiddenBind, stale, ioFailed,             \* what the properties remember:
                                           \* stale, the tools that are behind
  steps

tabs == <<key, delay, visible>>
tools == <<running, startup, pending, stale>>
shelf == <<template, saved, listed, active, file, ioFailed>>
vars == <<tabs, bind, hiddenBind, tools, shelf, steps>>

UserActs == steps < MaxSteps /\ steps' = steps + 1

(***************************************************************************)
(* The rows as the tools see them                                          *)
(***************************************************************************)
Shown(v) == {p \in Place : p[2] <= v[p[1]]}

\* delayMs, intervalMs; a chain may well have a delay of 0.
ReadValue(t, n) == IF n = 0 /\ t \in {"clicker", "timer"} THEN Default ELSE n

Config(t, k, d, v) ==
  [p \in {q \in Shown(v) : q[1] = t /\ k[q] # NoKey} |-> <<k[p], ReadValue(t, d[<<t, p[2]>>])>>]
Now(t) == Config(t, key, delay, visible)

Wanted(t, c) ==
  CASE t = "clicker" -> TRUE
    [] t = "keychain" -> \E p \in DOMAIN c : p[3] = 1       \* a trigger
    [] OTHER -> DOMAIN c # {}

isStarted == startup # "no" \/ DOMAIN running # {}

\* The tools after the tabs in ts have been synced: a running one takes the
\* settings or, with nothing left to do, stops; the others start when wanted,
\* but for the clicker, which only the startup starts.
Synced(ts, k, d, v) ==
  LET new(t) == Config(t, k, d, v)
      Runs(t) == IF t \notin ts THEN t \in DOMAIN running
                 ELSE /\ Wanted(t, new(t))
                      /\ t \in DOMAIN running \/ (isStarted /\ t # "clicker")
  IN [t \in {u \in Tabs : Runs(u)} |-> IF t \in ts THEN new(t) ELSE running[t]]

Sync(ts) ==
  /\ running' = Synced(ts, key', delay', visible')
  /\ stale' = stale \ ts
  /\ UNCHANGED <<startup, pending>>

(***************************************************************************)
(* Rows                                                                    *)
(***************************************************************************)
\* The tools are not told of a row that appears: it is empty, but for a key
\* that has landed in it unseen.
AddRow(t) ==
  /\ UserActs
  /\ visible[t] < RowCount[t]
  /\ visible' = [visible EXCEPT ![t] = @ + 1]
  /\ stale' = IF isStarted /\ Config(t, key, delay, visible') # Now(t) THEN stale \cup {t} ELSE stale
  /\ UNCHANGED <<key, delay, bind, hiddenBind, running, startup, pending, shelf>>

onAddClicker == AddRow("clicker")
onAddTimer == AddRow("timer")
onAddKeyChainSwitch == AddRow("keychain")

Clear(t, r, d) ==
  /\ UserActs
  /\ r \in 1 .. visible[t]
  /\ key' = [p \in Place |-> IF p[1] = t /\ p[2] = r THEN NoKey ELSE key[p]]
  /\ delay' = [delay EXCEPT ![<<t, r>>] = d]
  /\ UNCHANGED visible
  /\ Sync({t})
  /\ UNCHANGED <<bind, hiddenBind, shelf>>

clearClickerKey(r) == Clear("clicker", r, delay[<<"clicker", r>>])
clearTimerKey(r) == Clear("timer", r, delay[<<"timer", r>>])
onClearPotionKey(r) == Clear("autopot", r, delay[<<"autopot", r>>])
clearKeyChainSwitch(r) == Clear("keychain", r, 0)

\* The row a row takes its content from when row r goes: the next one, and
\* the last one is reset.
Source(t, r, i) == IF i < r \/ i > visible[t] THEN i ELSE i + 1
Remove(t, r, empty) ==
  /\ UserActs
  /\ visible[t] > 1 /\ r \in 1 .. visible[t]
  /\ key' = [p \in Place |->
               IF p[1] # t THEN key[p]
               ELSE IF p[2] = visible[t] THEN NoKey
               ELSE key[<<t, Source(t, r, p[2]), p[3]>>]]
  /\ delay' = [w \in Row |->
                 IF w[1] # t THEN delay[w]
                 ELSE IF w[2] = visible[t] THEN empty
                 ELSE delay[<<t, Source(t, r, w[2])>>]]
  /\ visible' = [visible EXCEPT ![t] = @ - 1]
  /\ Sync({t})
  /\ UNCHANGED <<bind, hiddenBind, shelf>>

removeClicker(r) == Remove("clicker", r, Default)
removeKeyChainSwitch(r) == Remove("keychain", r, 0)

SetValue(t, r, n) ==
  /\ UserActs
  /\ r \in 1 .. visible[t] /\ n # delay[<<t, r>>]
  /\ delay' = [delay EXCEPT ![<<t, r>>] = n]
  /\ UNCHANGED <<key, visible>>
  /\ Sync({t})
  /\ UNCHANGED <<bind, hiddenBind, shelf>>

SetDelay(r, n) == SetValue("clicker", r, n)
SetInterval(r, n) == SetValue("timer", r, n)
SetChainDelay(r, n) == SetValue("keychain", r, n)
\* A threshold that is no number from 1 to 99 is put back.
commitThresholdEdit(r, n) == n # 0 /\ SetValue("autopot", r, n)

(***************************************************************************)
(* Binding a key                                                           *)
(***************************************************************************)
FreeSlots(k, r, vk) == {s \in 1 .. ClickerKeysPerBind : k[<<"clicker", r, s>>] \in {vk, NoKey}}

keyCount(r) == Cardinality({s \in 1 .. ClickerKeysPerBind : key[<<"clicker", r, s>>] # NoKey})

BindStart(p) ==
  /\ UserActs
  /\ bind = Unbound
  /\ p \in Shown(visible)
  /\ bind' = p
  /\ UNCHANGED <<tabs, hiddenBind, tools, shelf>>

bindClickerKey(r) == keyCount(r) < ClickerKeysPerBind /\ BindStart(<<"clicker", r, 1>>)
bindTimerKey(r) == BindStart(<<"timer", r, 1>>)
bindAutoPotKey(r) == BindStart(<<"autopot", r, 1>>)
bindKeyChainKey(r, s) == BindStart(<<"keychain", r, s>>)

Holding(t, vk) == {r \in 1 .. visible[t] : \E s \in 1 .. SlotCount[t] : key[<<t, r, s>>] = vk}
Forgotten(vk, keep) == {}                                    \* faulty variant
Others(vk, keep) == Holding("keychain", vk) \ {keep}

LeftEmpty(p, vk) == IF key[p] = vk THEN NoKey ELSE key[p]     \* faulty variant
\* removeKey: the keys behind the one removed move up.
MovedUp(p, vk) ==
  LET at == Min({s \in 1 .. ClickerKeysPerBind : key[<<"clicker", p[2], s>>] = vk})
  IN IF p[3] < at THEN key[p]
     ELSE IF p[3] < ClickerKeysPerBind THEN key[<<"clicker", p[2], p[3] + 1>>] ELSE NoKey

\* The tab unsetKeyBinding finds the key in, in the order it looks.
Finder(vk, keep) ==
  CASE Holding("clicker", vk) # {} -> "clicker"
    [] Holding("clicker", vk) = {} /\ Holding("timer", vk) # {} -> "timer"
    [] Holding("clicker", vk) \cup Holding("timer", vk) = {} /\ Holding("autopot", vk) # {} -> "autopot"
    [] Holding("clicker", vk) \cup Holding("timer", vk) \cup Holding("autopot", vk) = {}
         /\ Others(vk, keep) # {} -> "keychain"
    [] OTHER -> "none"

Unset(vk, keep) ==
  LET t == Finder(vk, keep)
  IN CASE t = "none" -> key
       [] t = "keychain" ->
            [p \in Place |-> IF p[1] = t /\ p[2] \in Others(vk, keep) /\ key[p] = vk
                             THEN NoKey ELSE key[p]]
       [] OTHER ->
            [p \in Place |-> IF p[1] # t \/ p[2] # Min(Holding(t, vk)) THEN key[p]
                             ELSE IF t = "clicker" THEN MovedUp(p, vk) ELSE NoKey]

\* Where the key goes: the slot clicked or, in the clicker, the first free one.
Slot(k, target, vk) ==
  IF target[1] # "clicker" THEN target
  ELSE <<"clicker", target[2], Min(FreeSlots(k, target[2], vk))>>

\* The tabs to sync: where the key was, and where it is now.
OnlyTarget(vk, keep, full) == {bind[1]}                       \* faulty variant
Concerned(vk, keep, full) == ({Finder(vk, keep)} \cup (IF full THEN {} ELSE {bind[1]})) \ {"none"}

KeyPressed(vk) ==
  /\ bind \in Place
  /\ LET keep == IF bind[1] = "keychain" THEN bind[2] ELSE 0
         before == Unset(vk, keep)
         full == bind[1] = "clicker" /\ FreeSlots(before, bind[2], vk) = {}
         place == Slot(before, bind, vk)
     IN /\ key' = IF full THEN before ELSE [before EXCEPT ![place] = vk]
        /\ UNCHANGED <<delay, visible>>
        /\ Sync(Concerned(vk, keep, full))
  /\ hiddenBind' = (hiddenBind \/ bind \notin Shown(visible))
  /\ bind' = Pressed
  /\ UNCHANGED <<shelf, steps>>

\* The clean-up is posted on its own; a bind that timed out has only that.
BindEnds ==
  /\ bind # Unbound /\ bind' = Unbound
  /\ UNCHANGED <<tabs, hiddenBind, tools, shelf, steps>>

(***************************************************************************)
(* Profiles                                                                *)
(***************************************************************************)
Captured ==
  [key |-> key, visible |-> visible,
   delay |-> [w \in Row |-> IF w[1] \in {"clicker", "timer"} /\ w[2] > visible[w[1]]
                            THEN Default ELSE ReadValue(w[1], delay[w])]]

Normalized(p) ==
  [p EXCEPT !.visible = [t \in Tabs |-> IF p.visible[t] \in 1 .. RowCount[t] THEN p.visible[t] ELSE 1],
            !.delay = [w \in Row |-> IF p.delay[w] = 0 /\ w[1] # "keychain" THEN Default ELSE p.delay[w]]]

Apply(p) ==
  /\ key' = p.key /\ visible' = Normalized(p).visible /\ delay' = Normalized(p).delay
  /\ Sync(Tabs)

NamesOf(list) == [i \in DOMAIN list |-> list[i].name]
Entry(n) == [name |-> n, tabs |-> Captured]

\* Entry 0 of the combo box is "New Profile", the tabs as they were at first.
Select(i) ==
  /\ UserActs
  /\ i # active /\ i \in 0 .. Len(listed)
  /\ active' = i
  /\ Apply(IF i = 0 THEN template ELSE saved[i].tabs)
  /\ UNCHANGED <<bind, hiddenBind, template, saved, listed, file, ioFailed>>

Written(list) == file' = [ok |-> TRUE, list |-> list] /\ saved' = list
FileAfterError == {file, [ok |-> FALSE, list |-> <<>>]}   \* untouched, or cut off

\* A new profile goes to the end of the list.  When the write fails the list
\* keeps it, the combo box does not show it and its name is taken.
Save(n) ==
  /\ UserActs
  /\ \A i \in DOMAIN saved : saved[i].name = n => i = active
  /\ LET at == IF active = 0 THEN Len(saved) + 1 ELSE active
         list == IF active = 0 THEN Append(saved, Entry(n)) ELSE [saved EXCEPT ![active] = Entry(n)]
     IN \/ /\ Written(list)
           /\ listed' = NamesOf(list) /\ active' = at
           /\ UNCHANGED ioFailed
        \/ /\ saved' = list /\ file' \in FileAfterError
           /\ ioFailed' = TRUE
           /\ UNCHANGED <<listed, active>>
  /\ UNCHANGED <<tabs, bind, hiddenBind, tools, template>>

Dropped(list, i) == [j \in 1 .. Len(list) - 1 |-> IF j < i THEN list[j] ELSE list[j + 1]]
KeepsDropped ==                                               \* faulty variant
  saved' = Dropped(saved, active) /\ UNCHANGED <<listed, active, tabs, tools>>
RemoveFails == UNCHANGED <<saved, listed, active, tabs, tools>>

RemoveProfile ==
  /\ UserActs
  /\ active # 0
  /\ \/ /\ Written(Dropped(saved, active))
        /\ listed' = NamesOf(saved') /\ active' = 0
        /\ Apply(template)
        /\ UNCHANGED ioFailed
     \/ /\ RemoveFails
        /\ file' \in FileAfterError
        /\ ioFailed' = (ioFailed \/ file' # file)
  /\ UNCHANGED <<bind, hiddenBind, template>>

(***************************************************************************)
(* The program and the tools                                               *)
(***************************************************************************)
\* The list of a file; of its entries no two have one name (FilesAreInOrder),
\* those loadToolProfiles would skip.
Load(f) == [i \in DOMAIN f |-> [name |-> f[i].name, tabs |-> Normalized(f[i].tabs)]]

FreshKeys == [p \in Place |-> NoKey]
FreshDelays == [w \in Row |-> IF w[1] = "keychain" THEN 0 ELSE Default]
FreshVisible == [t \in Tabs |-> IF t = "autopot" THEN 2 ELSE 1]
Fresh == [key |-> FreshKeys, delay |-> FreshDelays, visible |-> FreshVisible]

Init ==
  /\ key = FreshKeys /\ delay = FreshDelays /\ visible = FreshVisible
  /\ bind = Unbound /\ hiddenBind = FALSE
  /\ running = <<>> /\ startup = "no" /\ pending = <<>> /\ stale = {}
  /\ file \in [ok : {TRUE}, list : FirstFiles]
  /\ template = Fresh /\ saved = Load(file.list) /\ listed = NamesOf(saved) /\ active = 0
  /\ ioFailed = FALSE
  /\ steps = 0

\* The program ends and starts again: initToolProfiles.  A file it cannot read
\* leaves it without profiles.
Restart ==
  /\ UserActs
  /\ key' = FreshKeys /\ delay' = FreshDelays /\ visible' = FreshVisible
  /\ bind' = Unbound
  /\ running' = <<>> /\ startup' = "no" /\ pending' = <<>> /\ stale' = {}
  /\ \/ file.ok /\ saved' = Load(file.list) /\ ioFailed' = FALSE
     \/ saved' = <<>> /\ ioFailed' = TRUE
  /\ listed' = NamesOf(saved') /\ active' = 0 /\ template' = Fresh
  /\ UNCHANGED <<file, hiddenBind>>

Start ==
  /\ UserActs
  /\ ~isStarted
  /\ startup' = "starting"
  /\ UNCHANGED <<tabs, bind, hiddenBind, running, pending, stale, shelf>>

ReadTabs ==
  /\ \/ startup = "starting" /\ startup' = "clicker" /\ pending' = [t \in {"clicker"} |-> Now(t)]
     \/ startup = "rest" /\ startup' = "autopot" /\ pending' = [t \in Tabs \ {"clicker"} |-> Now(t)]
  /\ UNCHANGED <<tabs, bind, hiddenBind, running, stale, shelf, steps>>

After == [clicker |-> "rest", autopot |-> "timer", timer |-> "keychain", keychain |-> "no"]

\* replaceRunner: without a key the tool is not touched.
StartTool ==
  /\ startup \in Tabs
  /\ LET t == startup
     IN IF Wanted(t, pending[t])
        THEN /\ running' = [u \in DOMAIN running \cup {t} |-> IF u = t THEN pending[t] ELSE running[u]]
             /\ stale' = IF pending[t] = Now(t) THEN stale \ {t} ELSE stale \cup {t}
        ELSE UNCHANGED <<running, stale>>
  /\ startup' = After[startup]
  /\ pending' = IF startup \in {"clicker", "keychain"} THEN <<>> ELSE pending
  /\ UNCHANGED <<tabs, bind, hiddenBind, shelf, steps>>

Stop ==
  /\ UserActs
  /\ isStarted
  /\ running' = <<>> /\ startup' = "no" /\ pending' = <<>> /\ stale' = {}
  /\ UNCHANGED <<tabs, bind, hiddenBind, shelf>>

Next ==
  \/ onAddClicker \/ onAddTimer \/ onAddKeyChainSwitch
  \/ \E r \in 1 .. ClickerSlotCount :
       clearClickerKey(r) \/ removeClicker(r) \/ bindClickerKey(r) \/ \E n \in Values : SetDelay(r, n)
  \/ \E r \in 1 .. TimerKeySlotCount :
       clearTimerKey(r) \/ bindTimerKey(r) \/ \E n \in Values : SetInterval(r, n)
  \/ \E r \in 1 .. 2 :
       onClearPotionKey(r) \/ bindAutoPotKey(r) \/ \E n \in Values : commitThresholdEdit(r, n)
  \/ \E r \in 1 .. KeyChainCount :
       \/ clearKeyChainSwitch(r) \/ removeKeyChainSwitch(r)
       \/ \E s \in 1 .. KeyChainSlotCount : bindKeyChainKey(r, s)
       \/ \E n \in Values : SetChainDelay(r, n)
  \/ \E vk \in Keys : KeyPressed(vk)
  \/ BindEnds
  \/ \E i \in 0 .. Len(listed) : Select(i)
  \/ \E n \in Names : Save(n)
  \/ RemoveProfile \/ Restart
  \/ Start \/ ReadTabs \/ StartTool \/ Stop

Spec == Init /\ [][Next]_vars

(***************************************************************************)
(* Properties                                                              *)
(***************************************************************************)
KeyMaps == [Place -> Keys \cup {NoKey}]
VisibleCounts == {v \in [Tabs -> Nat] : \A t \in Tabs : v[t] \in 1 .. RowCount[t]}
Profiles == [key : KeyMaps, visible : VisibleCounts, delay : [Row -> Values]]
Entries == [name : Names, tabs : Profiles]
RawProfiles == [key : KeyMaps, visible : [Tabs -> Nat], delay : [Row -> Values]]

TypeOK ==
  /\ key \in KeyMaps /\ delay \in [Row -> Values] /\ visible \in VisibleCounts
  /\ bind \in Place \cup {Unbound, Pressed}
  /\ DOMAIN running \subseteq Tabs /\ startup \in Tabs \cup {"no", "starting", "rest"}
  /\ template \in Profiles /\ saved \in Seq(Entries) /\ listed \in Seq(Names)
  /\ active \in 0 .. Len(saved)
  /\ file.ok \in BOOLEAN /\ file.list \in Seq([name : Names, tabs : RawProfiles])
  /\ hiddenBind \in BOOLEAN /\ stale \subseteq Tabs /\ ioFailed \in BOOLEAN

\* Two places that are one to the user: a switch may repeat its keys.
SameSpot(p, q) == p = q \/ (p[1] = "keychain" /\ q[1] = "keychain" /\ p[2] = q[2])
OnceAmong(places, k) ==
  \A p, q \in places : k[p] = k[q] /\ k[p] # NoKey => SameSpot(p, q)

Compact(k) ==
  \A p, q \in Place : /\ p[1] = "clicker" /\ q[1] = "clicker" /\ p[2] = q[2] /\ p[3] < q[3]
                      /\ k[q] # NoKey
                      => k[p] # NoKey

\* What the profile file may hold at first, written by the program or by hand.
InOrder(p) ==
  /\ OnceAmong(Place, p.key) /\ Compact(p.key)
  /\ \A q \in Place \ Shown(Normalized(p).visible) : p.key[q] = NoKey
ASSUME FilesAreInOrder ==
  /\ FirstFiles \subseteq Seq([name : Names, tabs : RawProfiles])
  /\ \A f \in FirstFiles : \A i \in DOMAIN f :
       InOrder(f[i].tabs) /\ \A j \in DOMAIN f : f[j].name = f[i].name => j = i

\* "so a key can only ever be bound in one place at a time, except that one
\* keychain switch may repeat the same key" (main.go:716-721).
BoundOnceAlways == OnceAmong(Shown(visible), key)

\* It holds through binds, removed rows, profiles and restarts until a row
\* disappears under a bind that waits for its key.
BoundOnce == hiddenBind \/ BoundOnceAlways

\* No gap lies before a key of a clicker row: appendKey stops at the first one
\* and would add a key twice (clicker_tab.go:69-95).
ClickerRowsCompact == Compact(key)

\* Every handler that changes what a tab asks for syncs the tool (main.go:783,
\* timer_key_tab.go:203): it runs with what the tab shows or, once the startup
\* is over, is off because the tab asks for nothing.  Behind, until the tab is
\* synced again, are only a tool that the startup began with settings it had
\* read before an edit, and one whose tab has shown, with onAdd..., a row in
\* which a key had landed unseen.
RunnersFollowTabs ==
  /\ \A t \in DOMAIN running \ stale : running[t] = Now(t)
  /\ startup = "no" /\ isStarted =>
       \A t \in Tabs \ (DOMAIN running \cup stale) : ~Wanted(t, Now(t))

\* The list, the combo box and the file agree until a write or a read fails; a
\* removal that cannot be written takes nothing away.
ProfilesInStep ==
  ioFailed \/ (listed = NamesOf(saved) /\ file.ok /\ Load(file.list) = saved)
=============================================================================
