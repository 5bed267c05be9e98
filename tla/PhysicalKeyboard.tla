-------------------------- MODULE PhysicalKeyboard --------------------------
(***************************************************************************)
(* app/runner/platform/windows: which keys the user holds, as the tools    *)
(* see it.                                                                 *)
(*                                                                         *)
(* One Windows thread folds two streams of the same keystrokes into held:  *)
(* Raw Input, which names the handle a report came from, and a low-level   *)
(* hook, which does not.  One keyboard has several handles, and a press    *)
(* may arrive on one of them and its release on another.  VIIPER's own     *)
(* keyboard appears in both streams; only its handle gives it away.  The   *)
(* streams keep their own order and are not ordered against each other.    *)
(* The tools set swallowVKs and tappingVK from their own goroutines.       *)
(* A handle is named when the window reads of it, which is too late when   *)
(* it is gone by then.                                                     *)
(***************************************************************************)
EXTENDS Naturals, Sequences

CONSTANTS
  Boards,        \* real keyboards
  Handles,       \* Raw Input handles
  BoardOf,       \* what the device name of a handle says: a board or Ignored
  Keys,          \* virtual-key codes a bind can use
  ToggleVKs,     \* End and F12
  Touches,       \* what the user touches, and whether in haste
  MaxEvents,     \* bound: how often
  MaxPending     \* bound: reports nobody has looked at yet

Ignored == "ignored"      \* "" in the code: a handle that may not hold a bind
Unknown == "unknown"      \* no entry in the map
Hook == "hook"            \* the owner of a hold that the hook has seen
Nobody == "nobody"        \* not held
NoKey == "none"

ASSUME KeyboardAssumption ==
  /\ Boards \cap {Ignored, Unknown, Hook, Nobody} = {}
  /\ BoardOf \in [Handles -> Boards \cup {Ignored}]
  /\ ToggleVKs \subseteq Keys /\ NoKey \notin Keys
  /\ Touches \subseteq {"keys", "devices", "windows", "hasty"}
  /\ MaxEvents \in Nat /\ MaxPending \in Nat

VARIABLES
  keyboard, held,          \* physicalKeyboard, one critical section per handler
  swallowVKs, tappingVK,   \* the hook's settings
  hookQ, rawQ,             \* reports on their way to the hook and to the window
  fingers, plugged,        \* world: keys down on each board, handles that exist
  ours, events             \* our own window has the focus; bound

board == <<keyboard, held>>
settings == <<swallowVKs, tappingVK>>
world == <<fingers, plugged, ours, events>>
kbVars == <<board, settings, hookQ, rawQ, world>>

\* keyboardFromName(deviceName(h)): a handle that is gone has no name.
NameOf(h) == IF h \in plugged THEN BoardOf[h] ELSE Ignored

\* classifyKeyboards has found a keyboard and the hook is installed.
KbInit ==
  /\ plugged \in {p \in SUBSET Handles : \E h \in p : BoardOf[h] \in Boards}
  /\ keyboard = [h \in Handles |-> IF h \in plugged THEN BoardOf[h] ELSE Unknown]
  /\ held = [k \in Keys |-> Nobody]
  /\ swallowVKs = {} /\ tappingVK = NoKey
  /\ hookQ = <<>> /\ rawQ = <<>>
  /\ fingers = [b \in Boards |-> {}]
  /\ ours = FALSE /\ events = 0

PhysicalKeyDown(k) == held[k] # Nobody

(***************************************************************************)
(* The keyboard thread                                                     *)
(***************************************************************************)
PhysicalKeyBlocked(k) == k \in swallowVKs /\ k \notin ToggleVKs

\* A press starts a hold only when the key is not already held.
Held(k, owner) == IF held[k] = Nobody THEN [held EXCEPT ![k] = owner] ELSE held

\* lowLevelKeyboardProc and consumePhysicalKey.  Whether the report then
\* reaches the game does not come back to the tools.
HookSees ==
  /\ hookQ # <<>>
  /\ hookQ' = Tail(hookQ)
  /\ LET e == Head(hookQ)
     IN held' = IF ours \/ ~PhysicalKeyBlocked(e.vk) \/ tappingVK = e.vk THEN held
                ELSE IF e.down THEN Held(e.vk, Hook)
                ELSE [held EXCEPT ![e.vk] = Nobody]
  /\ UNCHANGED <<keyboard, settings, rawQ, world>>

\* Faulty variant: the owner is compared the wrong way.
ReleasedIfForeign(k, b) == IF held[k] # b THEN [held EXCEPT ![k] = Nobody] ELSE held
\* Only the keyboard that holds a key can release it.
Released(k, b) == IF held[k] = b THEN [held EXCEPT ![k] = Nobody] ELSE held

\* applyKey, with the cached answer of boardLocked.
ApplyKey(m) ==
  LET b == IF keyboard[m.handle] = Unknown THEN NameOf(m.handle) ELSE keyboard[m.handle]
  IN /\ keyboard' = [keyboard EXCEPT ![m.handle] = b]
     /\ held' = IF b = Ignored THEN held
                ELSE IF m.down THEN Held(m.vk, b) ELSE Released(m.vk, b)

AddDevice(h) ==
  /\ keyboard' = [keyboard EXCEPT ![h] = NameOf(h)]
  /\ UNCHANGED held

HasHandleStill(b, map) == \E h \in Handles : keyboard[h] = b   \* faulty variant
HasHandle(b, map) == \E h \in Handles : map[h] = b

RemoveDevice(h) ==
  LET b == keyboard[h]
      map == [keyboard EXCEPT ![h] = Unknown]
  IN /\ keyboard' = map
     /\ held' = IF b \in {Unknown, Ignored} \/ HasHandle(b, map) THEN held
                ELSE [k \in Keys |-> IF held[k] = b THEN Nobody ELSE held[k]]

WindowSees ==
  /\ rawQ # <<>>
  /\ rawQ' = Tail(rawQ)
  /\ LET m == Head(rawQ)
     IN \/ m.kind = "key" /\ ApplyKey(m)
        \/ m.kind = "arrival" /\ AddDevice(m.handle)
        \/ m.kind = "removal" /\ RemoveDevice(m.handle)
  /\ UNCHANGED <<settings, hookQ, world>>

KeyboardThread == HookSees \/ WindowSees

(***************************************************************************)
(* The world.  Both streams carry every keystroke of every keyboard.       *)
(***************************************************************************)
Message(kind, h, k, d) == [kind |-> kind, handle |-> h, vk |-> k, down |-> d]

Report(h, k, d) ==
  /\ hookQ' = Append(hookQ, [vk |-> k, down |-> d])
  /\ rawQ' = Append(rawQ, Message("key", h, k, d))

Room == Len(rawQ) < MaxPending /\ Len(hookQ) < MaxPending
UserTouches(what) == what \in Touches /\ events < MaxEvents /\ events' = events + 1 /\ Room

\* A press, or the repetition of one: the key may be down already.
Press(h, k) ==
  /\ UserTouches("keys")
  /\ h \in plugged /\ BoardOf[h] \in Boards
  /\ fingers' = [fingers EXCEPT ![BoardOf[h]] = @ \cup {k}]
  /\ Report(h, k, TRUE)
  /\ UNCHANGED <<board, settings, plugged, ours>>

Release(h, k) ==
  /\ UserTouches("keys")
  /\ h \in plugged /\ BoardOf[h] \in Boards /\ k \in fingers[BoardOf[h]]
  /\ fingers' = [fingers EXCEPT ![BoardOf[h]] = @ \ {k}]
  /\ Report(h, k, FALSE)
  /\ UNCHANGED <<board, settings, plugged, ours>>

Plug(h) ==
  /\ UserTouches("devices")
  /\ h \notin plugged
  /\ plugged' = plugged \cup {h}
  /\ rawQ' = Append(rawQ, Message("arrival", h, NoKey, FALSE))
  /\ UNCHANGED <<board, settings, hookQ, fingers, ours>>

Arriving(h) == \E n \in DOMAIN rawQ : rawQ[n].kind = "arrival" /\ rawQ[n].handle = h

\* A keyboard whose last handle is gone reports no release any more.  Unless in
\* haste nobody pulls a device out before the window has read that it came.
Unplug(h) ==
  /\ UserTouches("devices")
  /\ h \in plugged
  /\ "hasty" \in Touches \/ ~Arriving(h)
  /\ plugged' = plugged \ {h}
  /\ fingers' = [b \in Boards |->
       IF \E o \in plugged \ {h} : BoardOf[o] = b THEN fingers[b] ELSE {}]
  /\ rawQ' = Append(rawQ, Message("removal", h, NoKey, FALSE))
  /\ UNCHANGED <<board, settings, hookQ, ours>>

SwitchWindow ==
  /\ UserTouches("windows")
  /\ ours' = ~ours
  /\ UNCHANGED <<board, settings, hookQ, rawQ, fingers, plugged>>

User ==
  \/ \E h \in Handles, k \in Keys : Press(h, k) \/ Release(h, k)
  \/ \E h \in Handles : Plug(h) \/ Unplug(h)
  \/ SwitchWindow

\* VIIPER's keyboard types for the session.
ViiperTypes(k, d) ==
  /\ Room
  /\ \E h \in plugged : BoardOf[h] = Ignored /\ Report(h, k, d)
  /\ UNCHANGED <<board, settings, world>>

\* A client with no discipline at all: what holds here holds for every tool.
SwallowPhysicalKeys(vks) ==
  /\ swallowVKs' = vks
  /\ UNCHANGED <<board, tappingVK, hookQ, rawQ, world>>

SetTappingVK(vk) ==
  /\ tappingVK' = vk
  /\ UNCHANGED <<board, swallowVKs, hookQ, rawQ, world>>

AnyClient ==
  \/ \E k \in Keys, d \in BOOLEAN : ViiperTypes(k, d)
  \/ \E vks \in SUBSET Keys : SwallowPhysicalKeys(vks)
  \/ \E vk \in Keys \cup {NoKey} : SetTappingVK(vk)

KbNext == KeyboardThread \/ User \/ AnyClient
KbSpec == KbInit /\ [][KbNext]_kbVars

(***************************************************************************)
(* Properties                                                              *)
(***************************************************************************)
HookReports == [vk : Keys, down : BOOLEAN]
Messages == [kind : {"key"}, handle : Handles, vk : Keys, down : BOOLEAN]
            \cup [kind : {"arrival", "removal"}, handle : Handles, vk : {NoKey}, down : {FALSE}]

KbTypeOK ==
  /\ keyboard \in [Handles -> Boards \cup {Ignored, Unknown}]
  /\ held \in [Keys -> Boards \cup {Hook, Nobody}]
  /\ swallowVKs \subseteq Keys /\ tappingVK \in Keys \cup {NoKey}
  /\ hookQ \in Seq(HookReports) /\ rawQ \in Seq(Messages)
  /\ fingers \in [Boards -> SUBSET Keys]
  /\ plugged \subseteq Handles /\ ours \in BOOLEAN /\ events \in 0 .. MaxEvents

\* A hold belongs to a keyboard that can still release it: once its last handle
\* is gone the hold is too (removeDevice, physical_keyboard_windows.go:321-323).
HoldHasHandle ==
  \A k \in Keys : held[k] \in Boards => HasHandle(held[k], keyboard)

\* When the window has read everything, a key held by a keyboard is down on
\* that keyboard, whichever of its handles reported what, and whatever VIIPER
\* typed or the hook did in between (physical_keyboard_windows.go:99-109).  It
\* is claimed without haste: a handle that is gone when it is named counts as
\* one that may not hold a bind, and the release it brought is not believed.
RawHoldIsReal ==
  rawQ = <<>> => \A k \in Keys : held[k] \in Boards => k \in fingers[held[k]]
=============================================================================
