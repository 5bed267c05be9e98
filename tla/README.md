# EzRoKit: a TLA+ model of the tool suite

EzRoKit is a Windows program written in Go: a GUI (`app/gui`) that starts and
stops four input tools (`app/runner`): the clicker, the timer keys, KeyChain and
AutoPot. The tools do not send input themselves; they write to virtual HID
devices of a server, `viiper.exe`, which the GUI runs as a child process. This
directory specifies the parts of that program whose correctness depends on the
order of events, checks them with TLC and proves part of the result with TLAPS.

Everything below names files relative to `app/`. The specifications are
translated from the code. VIIPER itself (`viiper.exe` and its client library) is
not in the repository; it is modelled by what the code relies on: a ping
succeeds or fails, a write succeeds or fails and may reach the device even when
it fails.

## 1. Inventory

| Component | State it keeps | Operations | Where it is hard |
|---|---|---|---|
| Runner lifecycle (`runner/internal/lifecycle`) | `running`, `cancel`, `done`, `settings` under one mutex | `Start`, `Stop`, `Wait`, `UpdateSettings`, the goroutine of a run with its deferred clean-up | `Stop` and `Wait` copy a field and use it unlocked; a new run may begin between the clean-up of the old one and the closing of its channel; panics |
| VIIPER input session (`runner/viiper_session.go`, `viiper_input.go`) | `stateMu`, `actionMu`, `closed`, the two device streams | tap, click, tap with click, `Reset`, `Close`; `Open` and the clean-up of the bus | writes fail half-way; `Close` races with actions and other closers |
| GUI tools host (`gui/main.go`, `tools_host.go`, `runner_control.go`, the tabs' sync functions) | `starting`, `stopping`, `shuttingDown`, `startupGeneration`, the four runner slots, `lifecycleMu`, badges and buttons | `onStart` and its startup goroutine, `onStop`, `onViiperDisconnected`, `shutdown`, key changes, the End/F12 watcher | startups, teardowns, closures on the GUI thread and runners overlap freely |
| VIIPER server (`gui/server.go`, `viiper_lifecycle.go`, `viiper_monitor.go`) | process id, command, temporary directory, cancel functions, under `serverMu` and `serverStartMu` | `ensureViiperServer`, `stopViiperServerIfStarted`, opening and publishing the session, the monitor | a stop or the end of the program arrives in the middle of a startup; the process crashes or never answers |
| Physical keyboard (`runner/platform/windows/physical_keyboard_windows.go`, `keyboard_swallow_windows.go`) | which physical key is down, on which device; which keys are swallowed; which key is being injected | raw input messages, the low-level hook, device changes | two streams of the same keystrokes in no mutual order; what VIIPER types looks real |
| Clicker, timer keys, KeyChain (`runner/clicker.go`, `timer_key.go`, `keychain.go`) | a loop each, with local due times and triggers | one poll, one cycle, one pass | settings change and keys go up in the middle of a cycle; a failed tap; cancellation |
| AutoPot healing (`runner/autopot/autopot.go`, `healer.go`, `reader_controller.go`) | the active reader, when to probe the better one, the pace of a heal | a pass, a switch of the reader, a probe, a turn of the healer | a potion that ran out, readings that fail in the middle of a heal, keys that are cleared |
| AutoPot readings (`bar_reader.go`, `bar_stabilizer.go`, `strip_poller.go`, `address_reader.go`) | where the panel or the bars are, the maxima believed, low frames in a row, the process read | one reading of each reader | misread digits, a panel that moves, a bar that jumps, a game that is restarted |
| Key bindings and profiles (`gui/tool_profiles.go` and the tabs) | the keys bound in each tab, the stored profiles | bind, clear, save, load, remove a profile | one key may be bound once; a profile applied while tools run |
| Image recognition (`autopot/bar_*.go`, `autopot/statusui`) | none to speak of | pixels to bar fills and panel positions | arithmetic on images |
| Overlay, badges, log, window plumbing, `tools/rawkeys` | widgets | presentation | none |

The components meet as follows. The **tools host** creates runners; each runner
is a **lifecycle** whose body is one of the four loops; the loops call the
**session**; the session writes to devices of the **server**. The monitor tells
the GUI that the server is gone. Goroutines reach the GUI only through
`Synchronize`, which posts a closure to the GUI thread. The loops read the
**physical keyboard**, whose hook in turn has to tell the user's keys from the
ones the session injects.

What each component must get right:

- *lifecycle*: two runs never overlap, `Running()` tells the truth about the
  latest one, a `Wait` that returns means the run is over, every started run was
  validated, every cancelled run ends.
- *session*: HID actions never interleave, nothing is written once `Close` has
  closed the streams, every key and button that went down comes up again or the
  caller learns of it, nobody waits for ever.
- *tools host*: every live runner can still be reached by a stop, at most one
  runner of a kind uses the session, OFF means off, a teardown ends.
- *server*: one process at a time, a failed or cancelled startup leaves nothing,
  the program leaves nothing behind, every startup ends.

- *physical keyboard*: a key counts as held only while somebody who can release
  it holds it; what VIIPER types never holds a bind; nothing stays swallowed.
- *KeyChain, timer keys*: a stored setting is noticed, a slot is not starved by
  another one, the loop cleans up behind itself however it ends.
- *clicker*: the bind that fired is followed until its release, and with rows
  that were live after the last tap; a held trigger is tapped until it is let go.
- *AutoPot*: a misread digit or a flickering bar does not cost a potion; the
  better reader comes back into use; the label "pots ended" is true; a low HP is
  answered.
- *bindings, profiles*: a key is bound once; every edit reaches the tool it
  concerns; the list of profiles, the combo box and the file agree.

## 2. The modules

| Module | Models | Proofs | Model-checked by |
|---|---|---|---|
| `RunnerContract` | what every caller of a runner may assume (abstract) | refined by `Lifecycle` | `lifecycle` |
| `Lifecycle` | `runner/internal/lifecycle/lifecycle.go` | `LifecycleProofs` | `MCLifecycle`: `lifecycle` |
| `ViiperSession` | `runner/viiper_session.go` (`Close`), `viiper_input.go` | `ViiperSessionProofs` | `MCViiperSession`: `session` |
| `ToolsHost` | `gui/main.go`, `tools_host.go`, `runner_control.go`, the tabs' sync functions | `ToolsHostProofs` | `MCToolsHost`, `MCToolsHostScenes`: `tools`, `tools_live`, `tools_early_close` |
| `ViiperServer` | `gui/server.go`, `viiper_lifecycle.go`, `viiper_monitor.go` | `ViiperServerProofs` | `MCViiperServer`: `server` |
| `PhysicalKeyboard` | `runner/platform/windows/physical_keyboard_windows.go`, `keyboard_swallow_windows.go`, with an arbitrary client | `KeyChainProofs`, first part | through `KeyChain` |
| `KeyChain` | `runner/keychain.go`, a client of `PhysicalKeyboard` | `KeyChainProofs`, second part | `MCKeyChain`: `keyboard` |
| `TimerKey` | `runner/timer_key.go`, `internal/timing.SleepOr` | `LoopProofs` | `MCLoops`: `loops` |
| `Clicker` | `runner/clicker.go` | `LoopProofs` | `MCLoops`: `loops` |
| `AutoPot` | `runner/autopot`: `autopot.go`, `reader_controller.go`, `reader_factory.go`, `healer.go`, `status_sink.go` | `AutoPotProofs` | `MCAutoPot`: `autopot` |
| `StatusReader` | the OCR reader: `bar_reader.go` (`statusUIReader`), `statusui/strip_poller.go` | `AutoPotProofs` | `MCReaders`: `readers` |
| `PixelReader` | the pixel reader: `bar_reader.go` (`pixelBarReader`), `bar_stabilizer.go` | `AutoPotProofs` | `MCReaders`: `readers` |
| `AddressReader` | `address_reader.go` | none | `MCReaders`: `readers` |
| `ToolTabs` | the four tabs, `unsetKeyBinding` and `runBindKeyFlow` of `gui`, `tool_profiles.go`, the reads of a startup | `ToolTabsProofs` | `MCToolTabs`: `tabs`, `bound_twice` |

They fit together by contract rather than in one product. `Lifecycle` is shown
to implement `RunnerContract`, and a runner in `ToolsHost` is exactly what that
contract leaves: running from the moment it is started until it is over, and
over some time after it was told to stop. `KeyChain` extends `PhysicalKeyboard`
and is shown to be one of its clients. `ViiperSession` takes any number of
callers in any order, so it covers the loops of all tools at once. `AutoPot`
takes from its readers only that each of them may find the bars or not and, in
pixel mode, may be silent about a low bar; what the readers themselves promise is
the subject of the three reader modules. `ToolTabs` and `ToolsHost` look at the
same handlers from two sides: which settings a tool has, and whether it runs.

`MCLoops` and `MCReaders` put components that share no state side by side, one
of them moving in each behaviour.

### How the state and the actions correspond to the code

**Lifecycle.** `running`, `cancel`, `done` and `settings` are the fields of the
struct; a run is a generation with a phase (body, clean-up, marked stopped,
closed). The critical section of `Start` is one action; `Stop` and `Wait` are
two each, because they copy a field under the lock and use the copy after it.
A body may end by itself, by its context or with a panic.

**ViiperSession.** Each goroutine has a program counter. `EnterRead`,
`CheckClosed`, `LockAction`, one action per HID write, `UnlockAction` and
`LeaveRead` are the steps of `do`; `CallClose` to `Cleanup` are those of `Close`.
`held`, `button` and `unreleased` record what the device was told and what was
reported. A write that fails may or may not have reached the device. The RWMutex
prefers writers, as Go's does, so a waiting `Close` stops new readers.

**ToolsHost.** The GUI thread takes one event or one posted closure at a time.
`onStart`, `onStop` and `onViiperDisconnected` are its actions, and their slow
parts are goroutines named by the startup generation they hold; `mine`, `snap`
and `own` are the locals that go stale. `lifecycleMu` is held over several steps
only where the code waits for a runner while it has it. `queue` holds the
closures of `Synchronize` in the order in which they were posted.

**ViiperServer.** Up to two startups with the locals of `ensureViiperServer`, and
the stoppers (disconnect and shutdown). `serverMu` sections are steps; a
startup holds `serverStartMu` from `Lock` to `Return`. The process is a small
machine that may come up, never answer, crash or be killed. A ping has a time limit,
so it may also fail while a server is alive; `slow` collects the processes that a
startup's ping missed in that way. `Foreign` says whether a server that the program has
not started may answer.

**PhysicalKeyboard.** `keyboard` and `held` are the maps of the struct, and every
handler is one critical section of its mutex. Windows delivers each keystroke
twice, to the hook and as raw input; `hookQ` and `rawQ` are those two streams,
each in order, and nothing orders one against the other. Handles appear and
disappear, with messages in the raw stream; with `hasty` among the `Touches` a
handle may go before the window has read that it came. `fingers` and `plugged` are the
truth about the world, which no part of the program can see. The client may
swallow and mark any keys and type anything (`AnyClient`).

**KeyChain.** The program counter follows `run`: `Poll` (settings, swallow),
`Find` (which trigger is down), `NextKey`, the two halves of a tap,
`Tapped` (the deferred unmarking, the delay), `Leave` (the deferred calls). The
delay is not a state of its own: the user and the streams may move between any
two steps anyway.

**TimerKey.** A pass visits one slot per step; a tap takes up to `MaxTap` ticks;
the sleep ends by its timer, the token or the context. Due times are kept
relative to the beginning of the pass, so the state space is finite without a
bound on time.

**Clicker.** `Top` to `Leave` follow `run`. `seen` is the copy of the settings a
cycle works with and `chosen` the row it found, so rows may be stored and keys let
go between any two steps. `KeyDown` answers `vk \in down`. What a write leaves
down, and whether the deferred `Reset` lets it go, is the matter of `ViiperSession`.
`followed` and `offered` are not in the code: the first is the key tapped last while it has been down and bound without a break, the
second the rows that have been live since the tap before.

**AutoPot.** `Loop` and `Process` are a pass of `mainLoop` with `readController`
inlined; `AddressFailure`, `switchToPixel`, `handlePixelFailure` and `Valid` are
its outcomes. `Heal` is one turn of `healUntilWithInitial` up to the tap and
`TapEnds` what follows it. Readings are made of the game at that moment and the
game moves while the loop sleeps or taps. A tick is a second of the code's
timers; they count up to their limit and stay there. A probe, a tap, and the
naps shorter than a second take less than a tick, and the game may move during each of
them. `unused` is not in the code: it counts the time since the loop processed a valid
reading.

**StatusReader.** `stage` is where `ReadValues` is: validate the panel, once more
after a failure, parse, and after a parse error validate and parse again.
`confirmMaxima` rereads inside the same call. `Text` is what the parser may
return, which on a clear screen is the truth.

**PixelReader.** One `ReadBars` is one frame. `Rect` is relative to the captured
region, as in the code, so it moves with the centre of the search.
`fullLatched` and `lowStreak` are the fields of `BarStabilizer`. `lows` counts, per
threshold, the latest measurements below it, for the property.

**AddressReader.** `ReadMemory` is one `ReadValues` with its `setError`; the
window that `FindVisibleWindowPID` finds may belong to any running client.

**ToolTabs.** One action per handler of a tab, with the syncs it makes.
`key`, `delay` and `visible` are the arrays of the tabs; a number field holds one of
`Values`, 0 standing for a text that is no usable number. A bind is two actions: the
click that begins to wait, and the key that arrives later on the GUI thread.
`running` gives each running tool the settings it was handed last, and the
startup reads the tabs twice, as `onStart` and `startRemainingRunners` do; `stale`,
which is not in the code, holds the tools that are behind their tab. Profiles
are whole copies; a write may fail and leave the file as it was or cut off.

## 3. The runs

| Run | What it checks | Instance |
|---|---|---|
| `lifecycle` | `RunningIsLatest`, `WaitMeansOver`, `WaitReturns`, and that it implements the contract | two callers, three runs, a valid and an invalid configuration |
| `session` | `ActionsAreSerial`, `NoWriteAfterClose`, `NothingLeftDown`, `TapsAreWhole`, `CallsReturn` | two runners, two closers, any write may fail |
| `tools` | `NoOrphan`, `OneOfAKind`, `OffMeansOff` | clicker and KeyChain; four starts and stops with the toggle keys, or three with disconnects |
| `tools_live` | `StoppingEnds`, `StartingEnds` | clicker and AutoPot; four starts and stops, or three commands with key changes and closing the window |
| `server` | `OneServer`, `FailedLeavesNothing`, `SessionsEnd`, `StartsEnd` | two startups, a disconnect and the shutdown; a server of ours or a foreign one, pings that time out |
| `keyboard` | `HoldHasHandle`, `RawHoldIsReal`, `IdleSwallowsNothing` | two keyboards (one with two handles) and VIIPER's, one key and End, three things the user does, two unread reports per stream |
| `loops` | `NoLostWake`, `PunctualUnlessLost`, `KeepsPressing` of the timer keys; `RowsAreFresh`, `FollowsOneBind`, `KeepsSpamming` of the clicker | timer: two slots, intervals 2 and 6 against taps of one tick, one change of the settings; clicker: two rows with two trigger places, three layouts, two changes, four touches |
| `tabs` | `BoundOnce`, `ClickerRowsCompact`, `RunnersFollowTabs`, `ProfilesInStep` | two keys, two rows and two places in each tab that has them, two names, a hand-edited file, four acts of the user |
| `autopot` | `LongRetryOnlyAfterLoss`, `EndedLabelIsTrue`, `OCRComesBack`, `LowIsAnswered` | all three modes, bars of three levels, time-outs of one and two ticks, any number of changes |
| `readers` | `MaximaConfirmed`, `ReadsAgain`; `LowIsConfirmed`, `ReactsInTime`; `Reconnects` | a panel in two places and two maxima, two moves; a bar in five places with two thresholds, two jumps; three clients |

`tools_early_close` and `bound_twice` end in a counterexample; see section 7,
which also says what seven more configurations show.

Bounds, and why they are enough:

- *Lifecycle*: three generations are the fewest in which a stale deferred
  function, the run it belongs to and a newer one all exist; the proofs cover
  any number.
- *Session*: one runner acting and one waiting while two closers compete uses
  every pair of lock modes. The proofs cover any number of each.
- *ToolsHost*: four commands let two stops overlap, a start get through between
  them, and another stop find what that one started; three let a start overlap a stop
  and a second start. Four with every event at once are out of reach, so a behaviour
  is either *long* (four commands, no disconnect, key change or closing) or *wide*
  (three commands, all events); `MCToolsHostScenes` chooses. With
  two tools the startup has both a first tool (published at once, checked again)
  and a remaining one; four tools repeat the latter. The three safety properties
  are proved without bounds for behaviours without a key change, as `tools`
  checks them. The liveness of `tools_live` rests on these bounds. What it depends
  on is that whoever takes a run drains it; a fifth command would repeat a teardown
  beside two others.
- *ViiperServer*: two startups compete for the lock; a third would queue like the
  second.
- *Keyboard*: a second handle lets a press and its release take different ways; a
  second keyboard lets two owners press one key; three touches are press,
  release or unplug, and one more to interfere. The two handles of a keyboard are
  interchangeable, so their symmetry is used. All three invariants are proved
  without bounds.
- *Timer*: two slots with one interval more than `Slack` longer than the other
  are the smallest case in which a slot can be overslept or starved. Safety is
  proved without bounds.
- *Clicker*: the layouts move a key to another row and drop it, and give one row
  two triggers; four touches are two keys down, one up and End. Safety is
  proved without bounds, and the liveness has no part that needs more keys.
- *Tabs*: a key can be in two places only if there are two keys or two places,
  and a row can shift onto another only if there are two. Four acts reach
  bind, remove, add, bind again; start, bind, edit; save, edit, load, remove. The
  four properties are proved without bounds. `bound_twice` needs five acts and has
  the smallest tabs that allow them.
- *AutoPot*: a level is one `valueChangeTol`; with three levels, two of them
  low, a heal can see the value stay, move and leave the low range. Each time-out
  is reached and may be missed by one. Safety is proved for every value.
- *Readers*: one more move would repeat a step from a state that is reachable
  with two, since the reader remembers one panel, one candidate and one place.
  `MaximaConfirmed` and `LowIsConfirmed` are proved for every value. Three clients
  let the game be restarted twice.

`CHECK_DEADLOCK FALSE` stands in the cfgs of `ToolsHost`, `ViiperServer`,
`ToolTabs` and `AutoPot`: there the acts of the user are bounded, the program
exits, or the loop is over once it was cancelled.

## 4. Fairness

Safety is checked without fairness. Liveness assumes, per run:

- *Lifecycle*: a cancelled body returns (all four loops look at their context
  between any two waits), a clean-up that has begun goes on, and a caller inside
  `Stop` or `Wait` is scheduled. Nothing says that a body ends by itself.
- *Session*: strong fairness for each goroutine's next step, because Go's mutexes
  hand over to a waiter in starvation mode, so a goroutine that asks for a lock
  again and again gets it. Each HID write has a deadline and returns.
- *ToolsHost*: weak fairness for the GUI thread, for each startup and teardown,
  for the end of a stopped runner (that is `RunnerContract`), for the opening of
  VIIPER and for the poll of End/F12. No user event is fair.
- *ViiperServer*: weak fairness for each startup and stopper. The server itself
  need not answer: its timeout does.
- *TimerKey, Clicker*: weak fairness for the loop and for time. The tab and the
  user need not do anything.
- *AutoPot*: weak fairness for the loop, strong fairness for time: the clock does
  not stop while the loop goes through sleeps that leave it little room each.
  The game need not do anything.
- *Readers*: weak fairness for the read (the loop asks again and again) and, in
  the address reader, for time. The screen and the clients need not do anything;
  the properties speak of a screen that stays clear, or say until when.

## 5. Proofs

All theorems hold for every value of the constants under the `ASSUME` of their
module, which TLC evaluates in the runs.

- `LifecycleProofs` proves the safety properties of the run for any number of
  callers and generations, that two runs never overlap (`OneRun`), that every run
  was validated (`RunsAreValid`), and that the safety part of `Lifecycle` implements
  `RunnerContract`. The invariant ties the fields to the newest generation: at
  most that one is not over, `running` and `cancel` belong to it, and a copy of
  `done` that a `Wait` has taken belongs to it or to one that is over.
- `ViiperSessionProofs` proves that actions are serial, that no write happens
  after the streams have begun to close, that nothing is left down between
  actions unless a release failed, that the button is pressed while it is down only
  in that case, and
  that a tap is whole: a caller is told of success only if its whole tap was
  written in order. The invariant relates program counters to the two locks: who
  is inside holds them, and once `closed` is set no reader is past the check.
  `TapsAreWhole` needs to know more of an action under way (`WholeInv`): a click
  falls while its own key is down, and whoever has not failed by the end has
  confirmed the releases behind it.
- `KeyChainProofs` first proves `HoldHasHandle` of the keyboard with an arbitrary client. It is
  not inductive: `addDevice` overwrites the entry of its handle without asking
  what it was. What saves it is the order of the messages. The invariant says that
  in front of every arrival in the stream the handle has been forgotten, or will
  be once a removal ahead of it is read, and that this is true at the end of the
  stream for every handle that does not exist.
- Its second result about the keyboard is `RawHoldIsReal`: once the stream is read, a
  keyboard holds only keys that are down on it. `RealInv` speaks of every prefix of
  the stream. A key held by a keyboard, or pressed on it by some message, is down
  there, or a later message takes the hold away: its release on any handle of that
  keyboard, or the removal of the last handle the map then knows. `NamesRight` and
  `KnownInUse` say that each such message finds its handle in the map, under the name
  of its keyboard. The hook and VIIPER do not matter: nothing they report is believed
  of a keyboard. The theorem is about `hasty` not in `Touches`; otherwise the property
  is false (section 7).
- It then proves that KeyChain is such a client (`Spec => KbSpec`), which
  brings `HoldHasHandle` over, and that it leaves nothing swallowed or marked.
- `LoopProofs` proves of the timer keys that a stored setting is never slept through and that
  a slot is punctual up to the taps of one pass unless its own last tap failed. The
  invariant: every slot already visited bounds `earliest`, a pass takes no longer
  than its taps, and the sleep ends by `earliest` or within the slack.
- Of the clicker it proves that a hold is followed (`FollowsOneBind`), that a tap
  uses rows live since the tap before (`RowsAreFresh`). `FollowInv`: a key being followed is the loop's own, held and
  bound, and the copy in hand still binds it when the next trigger is looked for.
  `CycleInv`: that copy is among the rows offered since the last tap and the chosen
  row comes from it.
- `AutoPotProofs` proves that the label "pots ended" is shown only while a heal
  has slowed down, that the loop goes blind for five seconds only after as long
  without a valid reading that it processed (a probe may have had one, see section 7),
  and the safety properties of the OCR and pixel readers.
  `LossInv` is what the second one rests on: the pixel failure is never older than
  the last valid reading the loop processed. `StatusInv` ties the pending maxima and their count to
  what was parsed last; `PixelInv` says that the streak of low frames never
  exceeds the measurements below the threshold in force.

- `ToolTabsProofs` proves the four properties of `tabs` for any number of rows,
  keys, profiles and acts; the file of the first start is assumed to be in order
  (`FilesAreInOrder`: no name twice, no key twice, no gap, no key in a hidden row). `BoundOnce` is
  not inductive: a hidden row is shown again, and a profile comes back.
  `OrderInv` says that hidden rows are empty, for the tabs, every saved
  profile and the file alike. `FollowInv` follows a startup tool by tool: one it
  has passed runs with what its tab shows, is known to be behind, or has nothing to
  do, and one it will pass over has nothing to do by now or was started by an edit.
  What is known to be behind is in `stale`: a tool is put there by a startup that has
  been overtaken by an edit or by a row that is shown with a key in it, and leaves it
  with the next sync of its tab.
  `ShelfInv` says that saved profiles are fixed points of `normalizeToolProfile`,
  which needs a threshold in every potion row at all times.

- `ViiperServerProofs` proves the safety properties of `server` for any number of
  startups and disconnects: one process of ours at a time, nothing left of a
  startup that fails, no session lost open. `SpawnInv` is what the first rests on:
  `serverStartMu` belongs to the one startup between its ping and its return, and
  one that found no answer and has not been cancelled has no live process beside
  its own, so the answer it waits for is its own server's. `TurnsInv` says that
  before a disconnect startups follow one another and the shutdown cancels
  the last; with it `FailedInv` follows the process of a failing startup from the
  published number to the one who kills it. Three kinds of process are not counted by
  `OneServer`, because the program does let another one be spawned beside them: a
  startup cancelled during its ping takes that for no answer, what is about to be
  killed is no longer looked at (both are `Doomed`), and a live server may be too
  slow for the one or two seconds of a ping (`slow`). `SessionsEnd` has one part for
  all behaviours, that no session is lost open, and one for those without a
  disconnect, that the shutdown is the end.

- `ToolsHostProofs` proves, for any tools and any number of startups, teardowns and
  key changes, in whose hands a live runner is. `NoOrphan` is not inductive: a
  runner is live before it is published, and a slot is emptied before its runner is
  stopped. `HandInv` adds who may have taken runners (`TakenInTime`), that a slot
  being replaced stays empty while its goroutine holds `lifecycleMu` (`Locked`), that
  a number belongs to one goroutine (`Numbered`), and that the startup that
  may still start the clicker finds none (`NoClickerYet`). A tool is `Steady` if it is
  the clicker, if its sync function reads the slot under the lock, or if no key is
  rebound; `SteadyToolsAreInHand` is about those, and `NobodyIsOrphaned` is `NoOrphan`
  where all tools are steady.
- `OffIsOff` proves `OffMeansOff`. `ShownInv` says that until the window is closed
  whatever is live is shown: the badge is ON with a session, or a startup that was
  cancelled is still there to undo it. `OneRunOfATool` proves `OneOfAKind`: a run that
  is not over is in its slot, taken, or waited for (`Held`); what a teardown draws while
  `stopping` is down was drawn when the flag was cleared (`Flagged`); and of a
  tool that the startup in progress has yet to start, every run left is loose or is
  waited for by a goroutine that has `lifecycleMu` (`Clear`).
- `OneOfAKind` is about the runs that a startup waits for or is refused by. `starting`
  and `stopping` are there to see to that, but a flag has no owner: a teardown that ends
  clears it for another one that still waits, and a startup that ends may take the flag
  of the next. The runs they lose sight of are collected in the history variable
  `loose`; there are three kinds, named with `OneOfAKind`, and section 7 shows what
  becomes of one. `OffIsOff` and `OneRunOfATool` are about behaviours without a key
  change.

Only model-checked: all liveness, because TLAPS has no `ENABLED` (`WaitReturns`,
`CallsReturn`, `StoppingEnds`, `StartingEnds`, `StartsEnd`, `KeepsPressing`,
`KeepsSpamming`, `OCRComesBack`, `LowIsAnswered`, `ReadsAgain`, `ReactsInTime`,
`Reconnects`, and the fairness of the contract in `ImplementsContract`); with it all
of `AddressReader`, whose one property is of that kind. Every invariant that a passing
run checks is the subject of a theorem, on the conditions said above.

## 6. Not modelled

- Image recognition (`autopot/bar_detect.go`, `bar_read.go`, the parsers of
  `autopot/statusui`): arithmetic over screenshots, no order of events. The
  readers take its results as nondeterministic.
- Overlay, badges, log, styles, the prerequisite checks, the platform wrappers
  and `tools/rawkeys`.
- Of the modelled parts: the logging of a handler, the opening of the HID devices
  (`ViiperSession` begins with an open session), the forced key-ups the hook
  sends to the game (they do not come back to the tools), the creation of the
  raw-input window, the capture of the server's output; the mode, the address
  profile and the game window of AutoPot in `ToolTabs`; zero maxima and the values of
  memory reads in `AddressReader`.

## 7. Where the program and its text disagree

Two runs end in a counterexample that follows the code.

- `tools_early_close` (`SessionOutlivesRunners`): a disconnect that arrives while
  a Stop is still draining finds the slots empty, waits for nothing and closes
  the session under the runners. The comment above it (`gui/main.go:584`) says
  runners finish first.
- `bound_twice` (`BoundOnceAlways`): a bind checks its row when it begins and not
  when its key arrives. A row removed meanwhile gets the key out of sight, and when it
  is added again the key is bound twice, against `gui/main.go:716-721`. `BoundOnce`
  in `tabs` says that there is no other way.

Seven more configurations have properties that are false. Most of them are what a
theorem claims under a condition, without the condition. TLC has a counterexample within seconds
(`tlc -config MCToolsHostOrphan.cfg MCToolsHost`, and so on):

- `MCToolsHostOrphan.cfg`, `NoOrphan` with key changes: `gui/timer_key_tab.go:216` (and
  the AutoPot tab) reads the runner to stop before it takes `lifecycleMu`. A startup
  replaces it in between, the slot is emptied over the new runner, and nobody can
  stop that one. `gui/main.go:50-52` gives such a loss as the reason for the lock.
- `MCToolsHostOffRuns.cfg`, `OffMeansOff` with key changes: `gui/keychain_tab.go:393`
  asks `isStarted` before it waits for the lock. A cancelled startup rolls back
  meanwhile, and KeyChain starts after Stop has shown OFF.
- `MCToolsHostTwice.cfg`, `OneAlive`, that is `OneOfAKind` of loose runs too: Stop overtakes the "ON" of a
  startup, which leaves the Stop button enabled; a second Stop finds nothing to
  wait for and clears `stopping` while the first one still waits for the clicker; Start
  is let through, and two clickers use one session.
- `MCKeyChainHasty.cfg` (module `MCKeyChain`), `RawHoldIsReal` with a handle that is
  gone before its arrival is read: its name can no longer be asked for
  (`physical_keyboard_windows.go:308`), so it counts as one that may not hold a bind,
  and a release it brought is ignored. The other handle keeps the keyboard
  known, and the key held. `physical_keyboard_windows_test.go:80-88` expects a release
  on another handle of the keyboard to count.
- `MCAutoPotProbe.cfg`, `StartsAfresh`: a successful probe switches back to the OCR reader
  and leaves `pixelFailStart` as it is (`autopot/reader_controller.go:105-112`). If the
  pixel reader has been failing for 4.9 seconds by then, and the next OCR reading fails,
  its next failure counts as five seconds of loss, and the loop sleeps for five
  seconds just after the panel has been seen. That is why `LongRetryOnlyAfterLoss` speaks of
  readings that the loop has processed.
- `MCToolTabsBehind.cfg`, `NeverBehind`: a key that is bound between the reading of the
  tabs and the start of the tool (`gui/main.go:466`, `535-542`) is synced to a tool that does
  not run yet, and the tool starts without it.
- `MCToolTabsReveal.cfg`, `AddedRowsAreEmpty`: a key landed in a row that had been removed
  under its bind; "add" shows the row again (`gui/clicker_tab.go:262-271`), the tab
  counts the key as bound, and nobody tells the tool that runs.

Met on the way, each read in the code and not the subject of a run:

- *Start, stop, server.* Clicker and KeyChain poll End/F12 themselves; if both have
  returned when the closure of the watcher runs (`gui/main.go:242`), the tools
  count as stopped and the press starts them. A shutdown during the start of the
  server forgets its process id before anyone has killed it
  (`gui/server.go:342-354`). A disconnect clears `serverPID` under a newer startup,
  which then waits for a process nobody kills while it holds `serverStartMu`;
  `StartsEnd` is stated for behaviours without a disconnect for this reason. A
  `viiper.exe` that is alive but slower than the time limit of a ping
  (`gui/server.go:111-117`, `viiper_monitor.go:40-48`) counts as gone: the monitor
  reports a disconnect, and a startup spawns a second one beside it; `OneServer` leaves
  it out. After a disconnect a second
  start of VIIPER can lose its cancel function to the deferred reset of the first
  (`gui/viiper_lifecycle.go:25-29`); a shutdown then has nothing to cancel, and the
  startup publishes a session after it, which is why the second part of `SessionsEnd`
  ends with the first disconnect. A
  startup that ends as Stop is handled posts its "ON" badge behind the "OFF", and its
  `Swap` (`gui/main.go:510`) may clear the starting flag of the startup after it.
- *Tabs.* A key cleared while a startup is reading the tabs is still started with.
  `loadToolProfiles` skips entries without a name or with one used before
  (`gui/tool_profiles.go:119-123`); the program writes no such file, and the model starts
  from none (`FilesAreInOrder`). Changing the mode of AutoPot while the tools run leaves the replaced runner on until the next
  sync; in address mode a newly chosen window reaches only a newly started AutoPot
  (`gui/autopot_tab.go:443`). A profile that cannot be written stays in the list,
  invisible and with its name taken (`gui/tool_profiles.go:248-257`); that is why
  `ProfilesInStep` speaks of files without an error.
- *Keyboard.* A trigger released while KeyChain types that very key stays held: the
  hook looks away during the tap (`keyboard_swallow_windows.go:146`), and raw input may
  not release what the hook holds. Holds with the owner "hook" survive the unplugging
  of the keyboard, and a change of the foreground window or of the swallowed keys
  between a press and its release: the code that would drop them looks for a
  keyboard's name.
- *Timer keys.* A failed tap moves the slot's due time but leaves it out of the next
  wake-up, so the slot waits for another one (`runner/timer_key.go:148-157`).
- *AutoPot.* "Pots ended" is declared when two readings agree after three seconds of
  the heal, not three seconds after the last change (`autopot/healer.go:12`, `105-108`).
  A heal of SP does not look at HP. A failed read during a heal ends it without the
  "Address err" that the same failure brings outside (`healer.go:65-68`). The address
  reader moves to another client with the same title after a single failed read
  (`address_reader.go:140`; line 19 says "When reads fail persistently") and takes a
  maximum of zero for 0 % (`107-115`). The first maxima the OCR reader sees are believed
  without a confirmation (`bar_reader.go:312`).
