------------------------------ MODULE TimerKey ------------------------------
(***************************************************************************)
(* app/runner/timer_key.go: one loop presses the key of every mapped slot  *)
(* once per interval, and sleeps until the first of them is due.  The tab  *)
(* stores new settings at any time and pokes the loop awake.               *)
(*                                                                         *)
(* Due times are kept relative to the instant a pass began ("now" in the   *)
(* code): left[s] is nextDue[s] - now, age the time that has passed since. *)
(***************************************************************************)
EXTENDS Naturals, FiniteSets

CONSTANTS
  NSlots,            \* TimerKeySlotCount
  NoKey, TimerKeys,  \* KeyVK 0, and the keys a slot can have
  Intervals,         \* what the tab may store; 0 stands for <= 0
  DefaultInterval,
  MaxTap,            \* bound: how long a tap may take
  Retry,             \* CaptureRetryDelay
  MinPollWait,
  MaxUpdates         \* bound: changes of the settings

Slots == 1 .. NSlots
TimerSlot == [key : TimerKeys \cup {NoKey}, interval : (Intervals \ {0}) \cup {DefaultInterval}]
NoSlot == [key |-> NoKey, interval |-> 0]
NoTime == 0   \* the zero time; a due time that counts lies ahead

ASSUME TimerAssumption ==
  /\ NSlots \in Nat /\ Intervals \subseteq Nat /\ NoKey \notin TimerKeys
  /\ DefaultInterval \in Nat \ {0} /\ MinPollWait \in Nat \ {0} /\ Retry \in Nat \ {0}
  /\ MaxTap \in Nat /\ MaxUpdates \in Nat

VARIABLES
  cfg, wake,                          \* live settings, the token in the channel
  updating, updates,                  \* the tab between its store and its poke; bound
  pc, stopAsked,                      \* the goroutine and its context
  current, lastSlots, left, earliest, \* run
  slot, age, tapAge, until,           \* where the pass is; clocks; end of the sleep
  lost                                \* slots whose last tap failed

tab == <<cfg, updating, updates>>
pass == <<current, lastSlots, left, earliest, slot, lost>>
clock == <<age, tapAge, until>>
vars == <<tab, wake, pc, stopAsked, pass, clock>>

Smaller(a, b) == IF a < b THEN a ELSE b
Greater(a, b) == IF a < b THEN b ELSE a

WithDefaults(n) == IF n = 0 THEN DefaultInterval ELSE n    \* applyDefaults

Settings == [Slots -> {[key |-> k, interval |-> WithDefaults(n)] :
                         k \in TimerKeys \cup {NoKey}, n \in Intervals}]

Unread == [s \in Slots |-> NoSlot]

Init ==
  /\ cfg \in Settings /\ wake = FALSE
  /\ updating = FALSE /\ updates = 0
  /\ pc = "off" /\ stopAsked = FALSE
  /\ current = Unread /\ lastSlots = Unread
  /\ left = [s \in Slots |-> 0] /\ earliest = NoTime
  /\ slot = 1 /\ lost = {}
  /\ age = 0 /\ tapAge = 0 /\ until = 0

(***************************************************************************)
(* The tab                                                                 *)
(***************************************************************************)
Store ==
  /\ ~updating /\ updates < MaxUpdates
  /\ \E s \in Slots, k \in TimerKeys \cup {NoKey}, n \in Intervals :
       cfg' = [cfg EXCEPT ![s] = [key |-> k, interval |-> WithDefaults(n)]]
  /\ updating' = TRUE /\ updates' = updates + 1
  /\ UNCHANGED <<wake, pc, stopAsked, pass, clock>>

PokeSleeper == wake' = (wake \/ pc = "sleep")   \* faulty variant: unbuffered
Poke == wake' = TRUE                            \* a full channel stays full

PokeAfterStore ==
  /\ updating /\ updating' = FALSE
  /\ Poke
  /\ UNCHANGED <<cfg, updates, pc, stopAsked, pass, clock>>

\* Every run has locals of its own; the channel belongs to the runner.
Start ==
  /\ pc = "off"
  /\ pc' = "pass" /\ stopAsked' = FALSE
  /\ lastSlots' = Unread /\ left' = [s \in Slots |-> 0] /\ lost' = {} /\ age' = 0
  /\ UNCHANGED <<tab, wake, current, earliest, slot, tapAge, until>>

Stop ==
  /\ pc # "off" /\ ~stopAsked
  /\ stopAsked' = TRUE
  /\ UNCHANGED <<tab, wake, pc, pass, clock>>

(***************************************************************************)
(* One pass over the slots                                                 *)
(***************************************************************************)
BeginPass ==
  /\ pc = "pass"
  /\ \/ stopAsked /\ pc' = "off" /\ UNCHANGED <<pass, age>>
     \/ /\ ~stopAsked
        /\ current' = cfg
        /\ left' = [s \in Slots |-> IF left[s] > age THEN left[s] - age ELSE 0]
        /\ age' = 0
        /\ slot' = 1 /\ earliest' = NoTime
        /\ pc' = "slot"
        /\ UNCHANGED <<lastSlots, lost>>
  /\ UNCHANGED <<tab, wake, stopAsked, tapAge, until>>

Mapped(s) == current[s].key # NoKey
\* A slot that has changed is due at once.
Left(s) == IF current[s] = lastSlots[s] THEN left[s] ELSE 0

Latest(a, n) == n                                            \* faulty variant
Sooner(a, n) == IF a = NoTime THEN n ELSE Smaller(a, n)

SkipUnmapped ==
  /\ ~Mapped(slot)
  /\ lastSlots' = [lastSlots EXCEPT ![slot] = NoSlot]
  /\ left' = [left EXCEPT ![slot] = 0]
  /\ slot' = slot + 1
  /\ UNCHANGED <<pc, tapAge, earliest>>

Pushed(s) == current[s].interval   \* faulty variant: every pass starts it anew
Kept(s) == left[s]

NotYetDue ==
  /\ Mapped(slot) /\ Left(slot) > 0
  /\ left' = [left EXCEPT ![slot] = Kept(slot)]
  /\ earliest' = Sooner(earliest, Left(slot))
  /\ slot' = slot + 1
  /\ UNCHANGED <<pc, tapAge, lastSlots>>

Due ==
  /\ Mapped(slot) /\ Left(slot) = 0
  /\ lastSlots' = [lastSlots EXCEPT ![slot] = current[slot]]
  /\ left' = [left EXCEPT ![slot] = 0]
  /\ pc' = "tap" /\ tapAge' = 0
  /\ UNCHANGED <<slot, earliest>>

VisitSlot ==
  /\ pc = "slot" /\ slot \in Slots
  /\ SkipUnmapped \/ NotYetDue \/ Due
  /\ UNCHANGED <<tab, wake, stopAsked, current, age, until, lost>>

\* A failed tap moves the due time too, but its slot has no say in the sleep.
TapEnds ==
  /\ pc = "tap"
  /\ left' = [left EXCEPT ![slot] = current[slot].interval]
  /\ \/ earliest' = Sooner(earliest, current[slot].interval) /\ lost' = lost \ {slot}
     \/ UNCHANGED earliest /\ lost' = lost \cup {slot}
  /\ slot' = slot + 1 /\ pc' = "slot"
  /\ UNCHANGED <<tab, wake, stopAsked, current, lastSlots, clock>>

\* With every tap failed, earliest is the zero time: long past.
EndPass ==
  /\ pc = "slot" /\ slot = NSlots + 1
  /\ until' = IF \A s \in Slots : ~Mapped(s) THEN age + Retry
              ELSE IF earliest = NoTime THEN age + MinPollWait
              ELSE Greater(earliest, age + MinPollWait)
  /\ pc' = "sleep"
  /\ UNCHANGED <<tab, wake, stopAsked, pass, age, tapAge>>

WakeUp ==
  /\ pc = "sleep"
  /\ \/ (stopAsked \/ age >= until) /\ UNCHANGED wake
     \/ wake /\ wake' = FALSE
  /\ pc' = "pass"
  /\ UNCHANGED <<tab, stopAsked, pass, clock>>

LoopStep == BeginPass \/ VisitSlot \/ TapEnds \/ EndPass \/ WakeUp

\* Time passes in taps and in sleeps, and a timer that has expired fires.
Tick ==
  /\ \/ pc = "tap" /\ tapAge < MaxTap /\ tapAge' = tapAge + 1
     \/ pc = "sleep" /\ age < until /\ UNCHANGED tapAge
  /\ age' = age + 1
  /\ UNCHANGED <<tab, wake, pc, stopAsked, pass, until>>

Next == Store \/ PokeAfterStore \/ Start \/ Stop \/ LoopStep \/ Tick

Spec == Init /\ [][Next]_vars /\ WF_vars(LoopStep) /\ WF_vars(Tick)

(***************************************************************************)
(* Properties                                                              *)
(***************************************************************************)
TimerSettings == [Slots -> TimerSlot]

TypeOK ==
  /\ cfg \in TimerSettings /\ wake \in BOOLEAN
  /\ updating \in BOOLEAN /\ updates \in 0 .. MaxUpdates
  /\ pc \in {"off", "pass", "slot", "tap", "sleep"} /\ stopAsked \in BOOLEAN
  /\ current \in TimerSettings \cup {Unread}
  /\ lastSlots \in [Slots -> TimerSlot \cup {NoSlot}]
  /\ left \in [Slots -> Nat] /\ earliest \in Nat
  /\ slot \in 1 .. NSlots + 1 /\ lost \subseteq Slots
  /\ age \in Nat /\ tapAge \in 0 .. MaxTap /\ until \in Nat

\* Settings the tab has finished storing are never slept through: a loop asleep
\* on older ones has a token waiting for it (timer_key.go:90-99, 124 and 169).
NoLostWake == pc = "sleep" /\ cfg # current /\ ~updating => wake

\* How far a slot is past its due time, at most: the taps of one pass and the
\* shortest sleep.
Slack == NSlots * MaxTap + MinPollWait
OnTime(s) == pc = "sleep" /\ Mapped(s) => age <= left[s] + Slack

\* A sleeping loop is not late for any slot whose last tap went through,
\* whatever the other slots do and however the settings changed.
PunctualUnlessLost == \A s \in Slots : s \notin lost => OnTime(s)

\* While the loop runs and a slot stays mapped, its key is pressed over and
\* over, whatever the other slots' intervals are.
KeepsPressing ==
  \A s \in Slots : (pc # "off" /\ cfg[s].key # NoKey)
                     ~> ((pc = "tap" /\ slot = s) \/ cfg[s].key = NoKey \/ stopAsked)
=============================================================================
