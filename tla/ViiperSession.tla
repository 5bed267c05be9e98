---------------------------- MODULE ViiperSession ----------------------------
(***************************************************************************)
(* app/runner/viiper_session.go and viiper_input.go: the one virtual       *)
(* keyboard and mouse that all runners share.  Every action holds stateMu  *)
(* for reading and then actionMu; Close takes stateMu for writing only to  *)
(* set closed, then actionMu to send the last releases, then closes the    *)
(* two streams.                                                            *)
(*                                                                         *)
(* A HID write waits for the USB host with a deadline, so it either is     *)
(* confirmed, or fails and may or may not have reached the device.         *)
(***************************************************************************)
EXTENDS FiniteSets

CONSTANTS
  Runners,    \* goroutines that send input: the four tools, the GUI's Reset
  Closers,    \* goroutines that may call Close: disconnect, shutdown
  Keys,       \* keys the runners tap
  KeysOf      \* the keys bound to each runner: a key is bound once

Actors == Runners \cup Closers

CONSTANTS NoKey, Nobody

ASSUME SessionAssumption ==
  /\ Runners \cap Closers = {}
  /\ KeysOf \in [Runners -> SUBSET Keys]
  /\ NoKey \notin Keys
  /\ Nobody \notin Actors

VARIABLES
  readers,     \* goroutines holding stateMu for reading
  writer,      \* the closer that has called stateMu.Lock and waits for them
  actionMu,    \* owner of actionMu
  closed,
  once,        \* closeOnce
  open,        \* streams not closed yet
  held, button,   \* what the game sees: the key and the mouse button down
  unreleased,  \* devices whose last release write failed
  pc, op, key, failed   \* of each goroutine: step, call, its key, its error

shared == <<readers, writer, actionMu, closed, once, open>>
device == <<held, button, unreleased>>
local == <<pc, op, key, failed>>
vars == <<shared, device, local>>

Streams == {"keyboard", "mouse"}

Init ==
  /\ readers = {} /\ writer = Nobody /\ actionMu = Nobody
  /\ closed = FALSE /\ once = "fresh" /\ open = Streams
  /\ held = NoKey /\ button = FALSE /\ unreleased = {}
  /\ pc = [a \in Actors |-> "idle"]
  /\ op = [a \in Actors |-> "none"]
  /\ key = [a \in Actors |-> NoKey]
  /\ failed = [a \in Actors |-> FALSE]

Goto(a, step) == pc' = [pc EXCEPT ![a] = step]
\* The call returns and its frame is gone.
Return(a) ==
  /\ Goto(a, "idle")
  /\ op' = [op EXCEPT ![a] = "none"]
  /\ key' = [key EXCEPT ![a] = NoKey]
  /\ failed' = [failed EXCEPT ![a] = FALSE]

LastError(a, bad) == failed' = [failed EXCEPT ![a] = bad]  \* faulty variant of Fail
Fail(a, bad) == failed' = [failed EXCEPT ![a] = @ \/ bad]

(***************************************************************************)
(* HID writes.  A release that is not confirmed leaves the device in       *)
(* doubt until a later release is confirmed.                               *)
(***************************************************************************)
PressKey(k, ok) ==
  /\ held' \in (IF ok THEN {k} ELSE {held, k})
  /\ UNCHANGED <<button, unreleased>>

ReleaseKey(ok) ==
  /\ held' \in (IF ok THEN {NoKey} ELSE {held, NoKey})
  /\ unreleased' = IF ok THEN unreleased \ {"keyboard"} ELSE unreleased \cup {"keyboard"}
  /\ UNCHANGED button

PressButton(ok) ==
  /\ button' \in (IF ok THEN {TRUE} ELSE {button, TRUE})
  /\ UNCHANGED <<held, unreleased>>

ReleaseButton(ok) ==
  /\ button' \in (IF ok THEN {FALSE} ELSE {button, FALSE})
  /\ unreleased' = IF ok THEN unreleased \ {"mouse"} ELSE unreleased \cup {"mouse"}
  /\ UNCHANGED held

(***************************************************************************)
(* do(fn) of a runner                                                      *)
(***************************************************************************)
Call(r, o, k) ==
  /\ pc[r] = "idle"
  /\ Goto(r, "rlock")
  /\ op' = [op EXCEPT ![r] = o]
  /\ key' = [key EXCEPT ![r] = k]
  /\ UNCHANGED <<shared, device, failed>>

\* stateMu.RLock: a waiting writer holds back new readers.
EnterRead(r) ==
  /\ pc[r] = "rlock"
  /\ writer = Nobody
  /\ readers' = readers \cup {r}
  /\ Goto(r, "checkClosed")
  /\ UNCHANGED <<writer, actionMu, closed, once, open, device, op, key, failed>>

\* Faulty variant: closed is not looked at.
CheckNothing(r) ==
  /\ pc[r] = "checkClosed"
  /\ Goto(r, "lock")
  /\ UNCHANGED <<shared, device, op, key, failed>>

CheckClosed(r) ==
  /\ pc[r] = "checkClosed"
  /\ Goto(r, IF closed THEN "runlock" ELSE "lock")
  /\ Fail(r, closed)
  /\ UNCHANGED <<shared, device, op, key>>

FirstWrite(r) == IF op[r] \in {"tap", "click"} THEN "keyDown" ELSE "keyUp"

\* Faulty variant: Reset does not wait for the action in flight.
MayLockOrReset(a) == actionMu = Nobody \/ op[a] = "reset"
MayLock(a) == actionMu = Nobody

LockAction(a) ==
  /\ pc[a] = "lock"
  /\ MayLock(a)
  /\ actionMu' = a
  /\ Goto(a, FirstWrite(a))
  /\ UNCHANGED <<readers, writer, closed, once, open, device, op, key, failed>>

\* A key that could not be pressed is released and ends the call.
\* Faulty variant: the call returns without a release.
AfterKeyDownAbandoned(r, ok) ==
  IF ~ok THEN "unlock" ELSE IF op[r] = "click" THEN "mouseDown" ELSE "keyUp"
AfterKeyDown(r, ok) == IF ok /\ op[r] = "click" THEN "mouseDown" ELSE "keyUp"

KeyDown(r) ==
  \E ok \in BOOLEAN :
    /\ pc[r] = "keyDown"
    /\ PressKey(key[r], ok)
    /\ Goto(r, AfterKeyDown(r, ok))
    /\ Fail(r, ~ok)
    /\ UNCHANGED <<shared, op, key>>

MouseDown(r) ==
  \E ok \in BOOLEAN :
    /\ pc[r] = "mouseDown"
    /\ PressButton(ok)
    /\ Goto(r, "mouseUp")
    /\ Fail(r, ~ok)
    /\ UNCHANGED <<shared, op, key>>

\* Reset and Close release the key first and ignore errors; a click releases
\* the button first, under the key.
MouseUp(a) ==
  \E ok \in BOOLEAN :
    /\ pc[a] = "mouseUp"
    /\ ReleaseButton(ok)
    /\ Goto(a, IF op[a] = "click" THEN "keyUp" ELSE "unlock")
    /\ Fail(a, op[a] = "click" /\ ~ok)
    /\ UNCHANGED <<shared, op, key>>

KeyUp(a) ==
  \E ok \in BOOLEAN :
    /\ pc[a] = "keyUp"
    /\ ReleaseKey(ok)
    /\ Goto(a, IF op[a] \in {"reset", "close"} THEN "mouseUp" ELSE "unlock")
    /\ Fail(a, op[a] \in {"tap", "click"} /\ ~ok)
    /\ UNCHANGED <<shared, op, key>>

\* Faulty variant: a failed action returns with actionMu held.
UnlockIfFine(a) ==
  /\ pc[a] = "unlock"
  /\ actionMu' = IF failed[a] THEN actionMu ELSE Nobody
  /\ Goto(a, IF op[a] = "close" THEN "shutKeyboard" ELSE "runlock")
  /\ UNCHANGED <<readers, writer, closed, once, open, device, op, key, failed>>

UnlockAction(a) ==
  /\ pc[a] = "unlock"
  /\ actionMu' = Nobody
  /\ Goto(a, IF op[a] = "close" THEN "shutKeyboard" ELSE "runlock")
  /\ UNCHANGED <<readers, writer, closed, once, open, device, op, key, failed>>

LeaveRead(r) ==
  /\ pc[r] = "runlock"
  /\ readers' = readers \ {r}
  /\ Return(r)
  /\ UNCHANGED <<writer, actionMu, closed, once, open, device>>

(***************************************************************************)
(* Close: the first caller does the work, the others wait for it.          *)
(***************************************************************************)
CallClose(c) ==
  /\ pc[c] = "idle"
  /\ once = "fresh"
  /\ once' = "running"
  /\ op' = [op EXCEPT ![c] = "close"]
  /\ Goto(c, "wlock")
  /\ UNCHANGED <<readers, writer, actionMu, closed, open, device, key, failed>>

CloseAgain(c) ==
  /\ pc[c] = "idle"
  /\ once = "running"
  /\ Goto(c, "awaitOnce")
  /\ UNCHANGED <<shared, device, op, key, failed>>

CloseAgainReturns(c) ==
  /\ pc[c] = "awaitOnce"
  /\ once = "done"
  /\ Goto(c, "idle")
  /\ UNCHANGED <<shared, device, op, key, failed>>

AnnounceWriter(c) ==
  /\ pc[c] = "wlock"
  /\ writer' = c
  /\ Goto(c, "drain")
  /\ UNCHANGED <<readers, actionMu, closed, once, open, device, op, key, failed>>

\* stateMu.Lock returns once the readers are gone; closed is set; Unlock.
MarkClosed(c) ==
  /\ pc[c] = "drain"
  /\ readers = {}
  /\ closed' = TRUE
  /\ writer' = Nobody
  /\ Goto(c, "lock")
  /\ UNCHANGED <<readers, actionMu, once, open, device, op, key, failed>>

ShutStream(c) ==
  /\ \/ pc[c] = "shutKeyboard" /\ open' = open \ {"keyboard"} /\ Goto(c, "shutMouse")
     \/ pc[c] = "shutMouse" /\ open' = open \ {"mouse"} /\ Goto(c, "cleanup")
  /\ UNCHANGED <<readers, writer, actionMu, closed, once, device, op, key, failed>>

\* The devices and the bus are removed through the API, with a time limit.
Cleanup(c) ==
  /\ pc[c] = "cleanup"
  /\ once' = "done"
  /\ Return(c)
  /\ UNCHANGED <<readers, writer, actionMu, closed, open, device>>

RunnerStep(r) ==
  \/ EnterRead(r)
  \/ CheckClosed(r)
  \/ KeyDown(r)
  \/ MouseDown(r)
  \/ LeaveRead(r)

CloserStep(c) ==
  \/ CloseAgainReturns(c)
  \/ AnnounceWriter(c)
  \/ MarkClosed(c)
  \/ ShutStream(c)
  \/ Cleanup(c)

ActionStep(a) == KeyUp(a) \/ MouseUp(a) \/ UnlockAction(a)

Next ==
  \/ \E r \in Runners :
       \/ RunnerStep(r)
       \/ Call(r, "reset", NoKey)
       \/ \E k \in KeysOf[r] : Call(r, "tap", k) \/ Call(r, "click", k)
  \/ \E c \in Closers : CloserStep(c) \/ CallClose(c) \/ CloseAgain(c)
  \/ \E a \in Actors : ActionStep(a) \/ LockAction(a)

(***************************************************************************)
(* A write ends by its deadline, the other steps are local.  Go's Mutex is *)
(* starvation free and its RWMutex lets the readers that waited behind a   *)
(* writer in when the writer unlocks, hence strong fairness.  A goroutine  *)
(* that is in no call need not begin one.                                  *)
(***************************************************************************)
Fairness ==
  /\ \A r \in Runners : SF_vars(RunnerStep(r) \/ ActionStep(r) \/ LockAction(r))
  /\ \A c \in Closers : SF_vars(CloserStep(c) \/ ActionStep(c) \/ LockAction(c))

SafeSpec == Init /\ [][Next]_vars
Spec == SafeSpec /\ Fairness

(***************************************************************************)
(* Properties                                                              *)
(***************************************************************************)
Writing == {"keyDown", "keyUp", "mouseDown", "mouseUp"}
InAction(a) == pc[a] \in Writing \cup {"unlock"}

TypeOK ==
  /\ readers \subseteq Runners
  /\ writer \in Closers \cup {Nobody}
  /\ actionMu \in Actors \cup {Nobody}
  /\ closed \in BOOLEAN
  /\ once \in {"fresh", "running", "done"}
  /\ open \subseteq Streams
  /\ held \in Keys \cup {NoKey}
  /\ button \in BOOLEAN
  /\ unreleased \subseteq Streams
  /\ pc \in [Actors -> Writing \cup
       {"idle", "rlock", "checkClosed", "lock", "unlock", "runlock", "wlock", "drain",
        "awaitOnce", "shutKeyboard", "shutMouse", "cleanup"}]
  /\ op \in [Actors -> {"none", "reset", "tap", "click", "close"}]
  /\ key \in [Actors -> Keys \cup {NoKey}]
  /\ failed \in [Actors -> BOOLEAN]

\* Actions never overlap: no runner's writes fall between two writes of
\* another's cycle, nor between Close's (the comment at viiper_session.go:22).
ActionsAreSerial == \A a, b \in Actors : InAction(a) /\ InAction(b) => a = b

\* "no write can start after Close has closed the streams"
\* (viiper_session.go:102-104), although a runner checks closed long before
\* it writes and Close holds no lock while it closes them.
NoWriteAfterClose == (\E a \in Actors : InAction(a)) => open = Streams

\* Between actions nothing is down except on a device whose last release
\* write failed: every error path of TapKey and clickLocked releases what it
\* may have pressed, even when the press itself reported an error.
NothingLeftDown ==
  actionMu = Nobody =>
    /\ held # NoKey => "keyboard" \in unreleased
    /\ button => "mouse" \in unreleased

\* The button is pressed while it is down only after a release of it has failed,
\* and that failure was reported; otherwise two presses are separated by a release
\* ("a mouse click cannot fire twice in a row").
NoDoubleClick ==
  \A r \in Runners : pc[r] = "mouseDown" /\ button => "mouse" \in unreleased

\* Whoever calls into the session gets out again, Close included: the two
\* locks are never waited for in a circle.
CallsReturn == \A a \in Actors : (pc[a] # "idle") ~> (pc[a] = "idle")

\* A click is sent only under the key of its own cycle (viiper_input.go:43), and
\* a tap or a click that will report success leaves the devices it used up and
\* confirmed: no failed release is hidden behind a nil error.
TapsAreWhole ==
  \A r \in Runners :
    /\ pc[r] = "mouseDown" => held = key[r] /\ key[r] \in Keys
    /\ pc[r] = "unlock" /\ op[r] \in {"tap", "click"} /\ ~failed[r] =>
         /\ held = NoKey /\ "keyboard" \notin unreleased
         /\ op[r] = "click" => ~button /\ "mouse" \notin unreleased
=============================================================================
