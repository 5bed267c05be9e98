---------------------------- MODULE LoopProofs ----------------------------
(***************************************************************************)
(* Proofs about the two loops that read nothing but keys and settings:     *)
(* TimerKey for any number of slots, intervals and delays, and Clicker for *)
(* any keys, any rows and any number of changes.                           *)
(***************************************************************************)
EXTENDS TimerKey, Clicker, TLAPS

(***************************************************************************)
(* The timer keys                                                          *)
(***************************************************************************)
\* From the moment a pass has read the settings, newer ones leave a token.
FreshOrPoked == pc \in {"slot", "tap", "sleep"} /\ cfg # current /\ ~updating => wake

\* A slot the pass has been to bounds the sleep, unless its tap failed.
Counted(s) == Mapped(s) /\ s \notin lost => earliest # NoTime /\ earliest <= left[s]
PassCounts == pc \in {"slot", "tap", "sleep"} => \A s \in Slots : s < slot => Counted(s)

\* A pass takes the time of its taps, and the sleep ends when the earliest slot
\* is due or the shortest sleep is over.
TimeBounded ==
  /\ pc = "slot" => age <= (slot - 1) * MaxTap
  /\ pc = "tap" => slot \in Slots /\ Mapped(slot) /\ age <= (slot - 1) * MaxTap + tapAge
  /\ pc = "sleep" => /\ slot = NSlots + 1 /\ age <= until
                     /\ \/ until <= Slack
                        \/ earliest # NoTime /\ until <= earliest
                        \/ \A s \in Slots : ~Mapped(s)

IInv == TypeOK /\ FreshOrPoked /\ PassCounts /\ TimeBounded

-----------------------------------------------------------------------------
\* What applyDefaults stores can be waited for.
LEMMA DefaultsAreSettings ==
  ASSUME NEW k \in TimerKeys \cup {NoKey}, NEW n \in Intervals
  PROVE  [key |-> k, interval |-> WithDefaults(n)] \in TimerSlot
BY TimerAssumption DEF WithDefaults, TimerSlot

\* A mapped slot has an interval, also before the first settings are read.
LEMMA MappedHasInterval ==
  ASSUME TypeOK, NEW s \in Slots, Mapped(s)
  PROVE  current[s].interval \in Nat \ {0} /\ current[s] \in TimerSlot
<1>1. Unread[s].key = NoKey
  BY DEF Unread, NoSlot
<1>2. current \in TimerSettings
  BY <1>1 DEF TypeOK, Mapped
<1>3. current[s] \in TimerSlot
  BY <1>2 DEF TimerSettings
<1> QED
  BY <1>3, TimerAssumption DEF TimerSlot

\* The earlier of two due times is one of them, and no later than either.
LEMMA SoonerIsSooner ==
  ASSUME NEW a \in Nat, NEW n \in Nat \ {0}
  PROVE  /\ Sooner(a, n) \in Nat \ {0} /\ Sooner(a, n) <= n
         /\ a # NoTime => Sooner(a, n) <= a
BY DEF Sooner, Smaller, NoTime

\* The slots that a pass has yet to visit have yet to take their time.
LEMMA TapsAddUp ==
  ASSUME NEW n \in 1 .. NSlots
  PROVE  /\ (n - 1) * MaxTap + MaxTap = n * MaxTap
         /\ (n - 1) * MaxTap <= n * MaxTap /\ (n - 1) * MaxTap \in Nat
         /\ n + 1 - 1 = n
<1>1. n \in Nat \ {0} /\ NSlots \in Nat /\ MaxTap \in Nat
  BY TimerAssumption
<1>2. n - 1 \in Nat
  BY <1>1
<1>3. (n - 1) * MaxTap \in Nat
  BY <1>1, <1>2
<1>4. (n - 1) * MaxTap + MaxTap = n * MaxTap
  BY <1>1
<1> QED
  BY <1>1, <1>3, <1>4

\* Nothing has been read or counted at first.
LEMMA InitIInv == Init => IInv
<1> SUFFICES ASSUME Init PROVE IInv
  OBVIOUS
<1>1. cfg \in TimerSettings
  <2>1. cfg \in [Slots -> {[key |-> k, interval |-> WithDefaults(n)] :
                             k \in TimerKeys \cup {NoKey}, n \in Intervals}]
    BY DEF Init, Settings
  <2> QED
    BY <2>1, DefaultsAreSettings DEF TimerSettings
<1>2. wake \in BOOLEAN /\ updating \in BOOLEAN /\ stopAsked \in BOOLEAN
  BY Zenon DEF Init
<1>3. TypeOK
  BY <1>1, <1>2, TimerAssumption DEF Init, TypeOK, Unread, NoTime
<1> QED
  BY <1>3 DEF Init, IInv, FreshOrPoked, PassCounts, TimeBounded

\* Every step of the loop, the tab and the clock keeps the invariant.
LEMMA NextIInv == IInv /\ [Next]_vars => IInv'
<1> SUFFICES ASSUME IInv, [Next]_vars PROVE IInv'
  OBVIOUS
<1> USE TimerAssumption
<1> USE DEF tab, pass, clock
<1>0. TypeOK /\ FreshOrPoked /\ PassCounts /\ TimeBounded
  BY DEF IInv
<1>1. CASE Store
  <2>1. PICK s \in Slots, k \in TimerKeys \cup {NoKey}, n \in Intervals :
          cfg' = [cfg EXCEPT ![s] = [key |-> k, interval |-> WithDefaults(n)]]
    BY <1>1 DEF Store
  <2>2. cfg' \in TimerSettings
    BY <1>0, <2>1, DefaultsAreSettings DEF TypeOK, TimerSettings
  <2>3. /\ updating' = TRUE /\ updates' \in 0 .. MaxUpdates
        /\ UNCHANGED <<wake, pc, stopAsked, pass, clock>>
    BY <1>0, <1>1 DEF Store, TypeOK
  <2>4. TypeOK'
    BY <1>0, <2>2, <2>3 DEF TypeOK, TimerSettings, Unread
  <2> QED
    BY <1>0, <2>3, <2>4 DEF IInv, FreshOrPoked, PassCounts, Counted, TimeBounded, Mapped
<1>2. CASE PokeAfterStore
  <2>1. wake' = TRUE /\ updating' = FALSE /\ UNCHANGED <<cfg, updates, pc, stopAsked, pass, clock>>
    BY <1>2 DEF PokeAfterStore, Poke
  <2>2. wake' \in BOOLEAN /\ updating' \in BOOLEAN
    BY <2>1, Zenon
  <2>3. TypeOK'
    BY <1>0, <2>1, <2>2 DEF TypeOK, TimerSettings, Unread
  <2> QED
    BY <1>0, <2>1, <2>3 DEF IInv, FreshOrPoked, PassCounts, Counted, TimeBounded, Mapped
<1>3. CASE Start
  <2>1. /\ pc' = "pass" /\ stopAsked' = FALSE /\ lastSlots' = Unread
        /\ left' = [s \in Slots |-> 0] /\ lost' = {} /\ age' = 0
        /\ UNCHANGED <<cfg, updating, updates, wake, current, earliest, slot, tapAge, until>>
    BY <1>3 DEF Start
  <2>2. stopAsked' \in BOOLEAN
    BY <2>1, Zenon
  <2>3. lastSlots' \in [Slots -> TimerSlot \cup {NoSlot}]
    BY <2>1 DEF Unread
  <2>4. TypeOK'
    BY <1>0, <2>1, <2>2, <2>3 DEF TypeOK, TimerSettings, Unread
  <2> QED
    BY <2>1, <2>4 DEF IInv, FreshOrPoked, PassCounts, TimeBounded
<1>4. CASE Stop
  <2>1. stopAsked' = TRUE /\ UNCHANGED <<tab, wake, pc, pass, clock>>
    BY <1>4 DEF Stop
  <2>2. stopAsked' \in BOOLEAN
    BY <2>1, Zenon
  <2>3. TypeOK'
    BY <1>0, <2>1, <2>2 DEF TypeOK, TimerSettings, Unread
  <2> QED
    BY <1>0, <2>1, <2>3 DEF IInv, FreshOrPoked, PassCounts, Counted, TimeBounded, Mapped
<1>5. CASE BeginPass
  <2>1. CASE stopAsked /\ pc' = "off" /\ UNCHANGED <<pass, age>>
    <3>1. TypeOK'
      BY <1>0, <1>5, <2>1 DEF BeginPass, TypeOK, TimerSettings, Unread
    <3> QED
      BY <2>1, <3>1 DEF IInv, FreshOrPoked, PassCounts, TimeBounded
  <2>2. CASE pc' = "slot" /\ current' = cfg /\ age' = 0 /\ slot' = 1 /\ earliest' = NoTime
    <3>1. /\ left' = [s \in Slots |-> IF left[s] > age THEN left[s] - age ELSE 0]
          /\ UNCHANGED <<cfg, updating, updates, wake, stopAsked, tapAge, until, lastSlots, lost>>
      BY <1>5, <2>2 DEF BeginPass
    <3>2. left' \in [Slots -> Nat]
      BY <1>0, <3>1 DEF TypeOK
    <3>3. slot' \in 1 .. NSlots + 1 /\ \A s \in Slots : ~(s < slot')
      BY <2>2 DEF Slots
    <3>4. TypeOK'
      BY <1>0, <2>2, <3>1, <3>2, <3>3 DEF TypeOK, TimerSettings, NoTime
    <3>5. age' <= (slot' - 1) * MaxTap
      BY <2>2
    <3>6. PassCounts' /\ TimeBounded'
      BY <2>2, <3>3, <3>5 DEF PassCounts, TimeBounded
    <3>7. FreshOrPoked'
      BY <2>2, <3>1 DEF FreshOrPoked
    <3> QED
      BY <3>4, <3>6, <3>7 DEF IInv
  <2> QED
    BY <1>5, <2>1, <2>2 DEF BeginPass
<1>6. CASE VisitSlot
  <2>1. /\ pc = "slot" /\ slot \in Slots
        /\ UNCHANGED <<cfg, updating, updates, wake, stopAsked, current, age, until, lost>>
    BY <1>6 DEF VisitSlot
  <2>2. /\ left \in [Slots -> Nat] /\ earliest \in Nat /\ slot \in 1 .. NSlots /\ age \in Nat
        /\ lastSlots \in [Slots -> TimerSlot \cup {NoSlot}] /\ age <= (slot - 1) * MaxTap
    BY <1>0, <2>1 DEF TypeOK, TimeBounded, Slots
  <2>3. slot + 1 \in 1 .. NSlots + 1 /\ slot + 1 - 1 = slot /\ age <= slot * MaxTap
    BY <2>2, TapsAddUp
  <2>4. CASE SkipUnmapped
    <3>1. /\ lastSlots' = [lastSlots EXCEPT ![slot] = NoSlot]
          /\ left' = [left EXCEPT ![slot] = 0] /\ slot' = slot + 1
          /\ UNCHANGED <<pc, tapAge, earliest>> /\ ~Mapped(slot)
      BY <2>4 DEF SkipUnmapped
    <3>2. TypeOK'
      BY <1>0, <2>1, <2>2, <2>3, <3>1 DEF TypeOK, TimerSettings, Unread
    <3>3. PassCounts'
      BY <1>0, <2>1, <2>2, <3>1 DEF PassCounts, Counted, Mapped, Slots
    <3>4. TimeBounded'
      <4>1. slot' - 1 = slot /\ age' = age /\ pc' = "slot"
        BY <2>1, <2>2, <3>1
      <4>2. age' <= (slot' - 1) * MaxTap
        BY <2>3, <4>1
      <4> QED
        BY <4>1, <4>2 DEF TimeBounded
    <3>5. FreshOrPoked'
      BY <1>0, <2>1, <3>1 DEF FreshOrPoked
    <3> QED
      BY <3>2, <3>3, <3>4, <3>5 DEF IInv
  <2>5. CASE NotYetDue
    <3>1. /\ Mapped(slot) /\ left' = [left EXCEPT ![slot] = left[slot]]
          /\ earliest' = Sooner(earliest, left[slot]) /\ left[slot] > 0
          /\ slot' = slot + 1 /\ UNCHANGED <<pc, tapAge, lastSlots>>
      BY <2>5 DEF NotYetDue, Kept, Left
    <3>2. left' = left /\ left[slot] \in Nat \ {0}
      BY <2>1, <2>2, <3>1
    <3>3. /\ earliest' \in Nat \ {0} /\ earliest' <= left[slot]
          /\ earliest # NoTime => earliest' <= earliest
      BY <2>2, <3>1, <3>2, SoonerIsSooner
    <3>4. TypeOK'
      BY <1>0, <2>1, <2>3, <3>1, <3>2, <3>3 DEF TypeOK, TimerSettings, Unread
    <3>5. PassCounts'
      BY <1>0, <2>1, <2>2, <3>1, <3>2, <3>3 DEF PassCounts, Counted, Mapped, Slots, NoTime
    <3>6. TimeBounded'
      <4>1. slot' - 1 = slot /\ age' = age /\ pc' = "slot"
        BY <2>1, <2>2, <3>1
      <4>2. age' <= (slot' - 1) * MaxTap
        BY <2>3, <4>1
      <4> QED
        BY <4>1, <4>2 DEF TimeBounded
    <3>7. FreshOrPoked'
      BY <1>0, <2>1, <3>1 DEF FreshOrPoked
    <3> QED
      BY <3>4, <3>5, <3>6, <3>7 DEF IInv
  <2>6. CASE Due
    <3>1. /\ Mapped(slot) /\ lastSlots' = [lastSlots EXCEPT ![slot] = current[slot]]
          /\ left' = [left EXCEPT ![slot] = 0]
          /\ pc' = "tap" /\ tapAge' = 0 /\ UNCHANGED <<slot, earliest>>
      BY <2>6 DEF Due
    <3>2. current[slot] \in TimerSlot
      BY <1>0, <2>1, <3>1, MappedHasInterval
    <3>3. TypeOK'
      BY <1>0, <2>1, <2>2, <3>1, <3>2 DEF TypeOK, TimerSettings, Unread
    <3>4. PassCounts'
      BY <1>0, <2>1, <2>2, <3>1 DEF PassCounts, Counted, Mapped, Slots
    <3>5. TimeBounded'
      BY <2>1, <2>2, <3>1 DEF TimeBounded, Mapped
    <3> QED
      BY <1>0, <2>1, <3>1, <3>3, <3>4, <3>5 DEF IInv, FreshOrPoked
  <2> QED
    BY <1>6, <2>4, <2>5, <2>6 DEF VisitSlot
<1>7. CASE TapEnds
  <2> DEFINE interval == current[slot].interval
  <2>1. /\ pc = "tap" /\ pc' = "slot" /\ slot' = slot + 1
        /\ left' = [left EXCEPT ![slot] = interval]
        /\ \/ earliest' = Sooner(earliest, interval) /\ lost' = lost \ {slot}
           \/ earliest' = earliest /\ lost' = lost \cup {slot}
        /\ UNCHANGED <<cfg, updating, updates, wake, stopAsked, current, lastSlots, age, tapAge, until>>
    BY <1>7 DEF TapEnds
  <2>2. /\ slot \in Slots /\ slot \in 1 .. NSlots /\ Mapped(slot)
        /\ left \in [Slots -> Nat] /\ earliest \in Nat /\ lost \subseteq Slots
        /\ age \in Nat /\ tapAge \in 0 .. MaxTap /\ age <= (slot - 1) * MaxTap + tapAge
    BY <1>0, <2>1 DEF TypeOK, TimeBounded, Slots
  <2>3. interval \in Nat \ {0}
    BY <1>0, <2>2, MappedHasInterval
  <2> HIDE DEF interval
  <2>4. /\ Sooner(earliest, interval) \in Nat \ {0} /\ Sooner(earliest, interval) <= interval
        /\ earliest # NoTime => Sooner(earliest, interval) <= earliest
    BY <2>2, <2>3, SoonerIsSooner
  <2>5. slot' \in 1 .. NSlots + 1 /\ slot' - 1 = slot /\ age <= slot * MaxTap
    BY <2>1, <2>2, TapsAddUp
  <2>6. TypeOK'
    BY <1>0, <2>1, <2>2, <2>3, <2>4, <2>5 DEF TypeOK, TimerSettings, Unread
  <2>7. PassCounts'
    <3> SUFFICES ASSUME NEW s \in Slots, s < slot', Mapped(s)', s \notin lost'
                 PROVE  earliest' # NoTime /\ earliest' <= left'[s]
      BY DEF PassCounts, Counted
    <3>1. CASE s = slot
      BY <2>1, <2>2, <2>4, <3>1 DEF NoTime
    <3>2. CASE s # slot
      <4>1. s < slot /\ Mapped(s) /\ s \notin lost /\ left'[s] = left[s] /\ left[s] \in Nat
        BY <2>1, <2>2, <3>2 DEF Mapped, Slots
      <4>2. earliest # NoTime /\ earliest <= left[s]
        BY <1>0, <2>1, <4>1 DEF PassCounts, Counted
      <4> QED
        BY <2>1, <2>2, <2>4, <4>1, <4>2 DEF NoTime
    <3> QED
      BY <3>1, <3>2
  <2> QED
    BY <1>0, <2>1, <2>5, <2>6, <2>7 DEF IInv, FreshOrPoked, TimeBounded
<1>8. CASE EndPass
  <2>1. /\ pc = "slot" /\ slot = NSlots + 1 /\ pc' = "sleep"
        /\ UNCHANGED <<tab, wake, stopAsked, pass, age, tapAge>>
        /\ until' = IF \A s \in Slots : ~Mapped(s) THEN age + Retry
                    ELSE IF earliest = NoTime THEN age + MinPollWait
                    ELSE Greater(earliest, age + MinPollWait)
    BY <1>8 DEF EndPass
  <2>2. age \in Nat /\ earliest \in Nat /\ age <= NSlots * MaxTap /\ NSlots * MaxTap \in Nat
    BY <1>0, <2>1 DEF TypeOK, TimeBounded
  <2>3. until' \in Nat /\ age <= until'
    BY <2>1, <2>2 DEF Greater
  <2>4. \/ until' <= Slack
        \/ earliest # NoTime /\ until' <= earliest
        \/ \A s \in Slots : ~Mapped(s)
    BY <2>1, <2>2 DEF Greater, Slack
  <2>5. TypeOK'
    BY <1>0, <2>1, <2>3 DEF TypeOK, TimerSettings, Unread
  <2>6. TimeBounded'
    BY <2>1, <2>3, <2>4 DEF TimeBounded, Mapped, Slack
  <2> QED
    BY <1>0, <2>1, <2>5, <2>6 DEF IInv, FreshOrPoked, PassCounts, Counted, Mapped
<1>9. CASE WakeUp
  <2>1. /\ pc' = "pass" /\ UNCHANGED <<tab, stopAsked, pass, clock>>
        /\ wake' = wake \/ wake' = FALSE
    BY <1>9 DEF WakeUp
  <2>2. wake' \in BOOLEAN
    BY <1>0, <2>1 DEF TypeOK
  <2>3. TypeOK'
    BY <1>0, <2>1, <2>2 DEF TypeOK, TimerSettings, Unread
  <2> QED
    BY <2>1, <2>3 DEF IInv, FreshOrPoked, PassCounts, TimeBounded
<1>10. CASE Tick
  <2>1. /\ age' = age + 1 /\ UNCHANGED <<tab, wake, pc, stopAsked, pass, until>>
        /\ \/ pc = "tap" /\ tapAge < MaxTap /\ tapAge' = tapAge + 1
           \/ pc = "sleep" /\ age < until /\ tapAge' = tapAge
    BY <1>10 DEF Tick
  <2>2. age \in Nat /\ tapAge \in 0 .. MaxTap /\ until \in Nat /\ slot \in 1 .. NSlots + 1
    BY <1>0 DEF TypeOK
  <2>3. TypeOK'
    BY <1>0, <2>1, <2>2 DEF TypeOK, TimerSettings, Unread
  <2>4. TimeBounded'
    <3>1. CASE pc = "tap"
      <4>1. slot \in 1 .. NSlots /\ age <= (slot - 1) * MaxTap + tapAge
        BY <1>0, <3>1 DEF TimeBounded, Slots
      <4>2. (slot - 1) * MaxTap \in Nat
        BY <4>1, TapsAddUp
      <4>3. age' <= (slot - 1) * MaxTap + tapAge'
        BY <2>1, <2>2, <3>1, <4>1, <4>2
      <4> QED
        BY <1>0, <2>1, <3>1, <4>3 DEF TimeBounded, Mapped
    <3>2. CASE pc = "sleep"
      BY <1>0, <2>1, <2>2, <3>2 DEF TimeBounded, Mapped, Slack
    <3> QED
      BY <2>1, <3>1, <3>2
  <2> QED
    BY <1>0, <2>1, <2>3, <2>4 DEF IInv, FreshOrPoked, PassCounts, Counted, Mapped
<1>11. CASE UNCHANGED vars
  BY <1>0, <1>11 DEF vars, IInv, TypeOK, TimerSettings, FreshOrPoked, PassCounts, Counted,
     TimeBounded, Mapped, Slack, Unread
<1> QED
  BY <1>1, <1>2, <1>3, <1>4, <1>5, <1>6, <1>7, <1>8, <1>9, <1>10, <1>11 DEF Next, LoopStep

\* The invariant holds in every behaviour.
LEMMA Invariance == Spec => []IInv
BY InitIInv, NextIInv, PTL DEF Spec

-----------------------------------------------------------------------------
\* Every reachable state of the loop and the tab is well typed.
THEOREM TimerTypeCorrect == Spec => []TypeOK
<1>1. IInv => TypeOK
  BY DEF IInv
<1> QED
  BY <1>1, Invariance, PTL

\* The loop never sleeps on settings that are older than the tab's last store.
THEOREM NoUpdateIsSleptThrough == Spec => []NoLostWake
<1>1. IInv => NoLostWake
  BY DEF IInv, FreshOrPoked, NoLostWake
<1> QED
  BY <1>1, Invariance, PTL

\* Whatever the number of slots and their intervals, a slot whose last tap went
\* through is never later than the taps of one pass and the shortest sleep.
THEOREM TapsArePunctual == Spec => []PunctualUnlessLost
<1>1. IInv => PunctualUnlessLost
  <2> SUFFICES ASSUME IInv, NEW s \in Slots, s \notin lost, pc = "sleep", Mapped(s)
               PROVE  age <= left[s] + Slack
    BY DEF PunctualUnlessLost, OnTime
  <2>1. /\ age \in Nat /\ until \in Nat /\ left[s] \in Nat /\ earliest \in Nat
        /\ slot = NSlots + 1 /\ age <= until
        /\ until <= Slack \/ (earliest # NoTime /\ until <= earliest)
    BY DEF IInv, TypeOK, TimeBounded
  <2>2. s < slot
    BY <2>1, TimerAssumption DEF Slots
  <2>3. earliest <= left[s]
    BY <2>2 DEF IInv, PassCounts, Counted
  <2>4. Slack \in Nat
    BY TimerAssumption DEF Slack
  <2> HIDE DEF Slack
  <2> QED
    BY <2>1, <2>3, <2>4
<1> QED
  BY <1>1, Invariance, PTL

(***************************************************************************)
(* The clicker                                                             *)
(***************************************************************************)
\* The key followed is the trigger of the loop, and it is still held and bound.
FollowedIsHeld ==
  followed # NoVK => followed = heldVK /\ followed \in down /\ Bound(rows, followed)

\* The rows the loop has read bind the key followed until the loop looks for
\* the next trigger.
FollowedIsSeen == at = "find" /\ followed # NoVK => Bound(seen, followed)

FollowInv == FollowedIsHeld /\ FollowedIsSeen

\* The rows of the cycle were live since the tap before it, and the row chosen
\* is one of them, with its trigger.
CycleInv ==
  /\ rows \in offered
  /\ at \in {"find", "fire", "tap"} => seen \in offered
  /\ at \in {"fire", "tap"} => \E i \in DOMAIN seen : seen[i] = chosen /\ Has(seen[i], heldVK)

-----------------------------------------------------------------------------
\* A key that is bound has a trigger of its own.
LEMMA BoundHasTrigger ==
  ASSUME NEW vk, vk # NoVK, Bound(seen, vk)
  PROVE  \E p \in Triggers : VK(p) = vk
<1>1. PICK i \in DOMAIN seen : Has(seen[i], vk)
  BY DEF Bound
<1>2. PICK j \in DOMAIN seen[i].keys : seen[i].keys[j] = vk
  BY <1>1 DEF Has
<1>3. <<i, j>> \in UNION {{n} \X DOMAIN seen[n].keys : n \in DOMAIN seen}
  <2>1. <<i, j>> \in {i} \X DOMAIN seen[i].keys
    BY <1>2
  <2> QED
    BY <2>1
<1>4. <<i, j>>[1] = i /\ <<i, j>>[2] = j
  OBVIOUS
<1> QED
  BY <1>2, <1>3, <1>4 DEF Triggers, VK

\* A trigger is a key of a row.
LEMMA TriggerIsBound ==
  ASSUME NEW p \in Triggers
  PROVE  p[1] \in DOMAIN seen /\ Has(seen[p[1]], VK(p)) /\ VK(p) # NoVK
<1>1. PICK n \in DOMAIN seen : p \in {n} \X DOMAIN seen[n].keys
  BY DEF Triggers
<1>2. p[1] = n /\ p[2] \in DOMAIN seen[n].keys
  BY <1>1
<1>3. seen[p[1]].keys[p[2]] # NoVK
  BY DEF Triggers
<1> QED
  BY <1>2, <1>3 DEF Has, VK

\* The trigger found is held; while a key is followed it is that key, and when
\* none is found no key was followed.
LEMMA FindFollows ==
  ASSUME FollowInv, at = "find"
  PROVE  /\ \A p \in HeldTrigger : p \in Triggers /\ VK(p) \in down /\ (heldVK # NoVK => VK(p) = heldVK)
         /\ HeldTrigger = {} => followed = NoVK
<1>1. \A p \in HeldTrigger : p \in Triggers /\ VK(p) \in down /\ (heldVK # NoVK => VK(p) = heldVK)
  BY DEF HeldTrigger
<1>2. ASSUME followed # NoVK PROVE HeldTrigger # {}
  <2>1. followed = heldVK /\ heldVK \in down /\ Bound(seen, heldVK) /\ heldVK # NoVK
    BY <1>2 DEF FollowInv, FollowedIsHeld, FollowedIsSeen
  <2>2. PICK p \in Triggers : VK(p) = heldVK
    BY <2>1, BoundHasTrigger
  <2>3. p \in HeldTrigger
    BY <2>1, <2>2 DEF HeldTrigger
  <2> QED
    BY <2>3
<1> QED
  BY <1>1, <1>2

-----------------------------------------------------------------------------
\* At first no key is followed.
LEMMA InitInvs == ClickerInit => FollowInv /\ CycleInv
BY DEF ClickerInit, FollowInv, FollowedIsHeld, FollowedIsSeen, CycleInv

\* Whatever the tab stores and the user does, the key followed stays the
\* trigger of the loop for as long as it is held and bound.
LEMMA NextFollowInv == FollowInv /\ [ClickerNext]_clickerVars => FollowInv'
<1> SUFFICES ASSUME FollowInv, [ClickerNext]_clickerVars PROVE FollowInv'
  OBVIOUS
<1> USE DEF FollowInv, FollowedIsHeld, FollowedIsSeen
<1>1. CASE StoreRows
  <2>1. /\ followed' = IF Bound(rows', followed) THEN followed ELSE NoVK
        /\ UNCHANGED <<down, seen, heldVK, at>>
    BY <1>1 DEF StoreRows
  <2>2. CASE Bound(rows', followed)
    BY <2>1, <2>2 DEF Bound
  <2>3. CASE ~Bound(rows', followed)
    BY <2>1, <2>3
  <2> QED
    BY <2>2, <2>3
<1>2. CASE Touch
  <2>1. UNCHANGED <<rows, seen, heldVK, at>>
    BY <1>2 DEF Touch
  <2>2. CASE UNCHANGED <<down, followed>>
    BY <2>1, <2>2 DEF Bound
  <2>3. ASSUME NEW vk \in ClickerKeys,
               down' = IF vk \in down THEN down \ {vk} ELSE down \cup {vk},
               followed' = IF vk = followed THEN NoVK ELSE followed
        PROVE  FollowInv'
    <3>1. CASE followed' = NoVK
      BY <3>1
    <3>2. CASE followed' # NoVK
      <4>1. followed' = followed /\ vk # followed /\ followed # NoVK
        BY <2>3, <3>2
      <4>2. followed \in down'
        BY <2>3, <4>1
      <4> QED
        BY <2>1, <4>1, <4>2 DEF Bound
    <3> QED
      BY <3>1, <3>2
  <2> QED
    BY <1>2, <2>2, <2>3 DEF Touch
<1>3. CASE StartClicking
  BY <1>3 DEF StartClicking
<1>4. CASE Top
  <2>1. /\ UNCHANGED <<rows, down, followed, heldVK>>
        /\ at' = "find" => seen' = rows
    BY <1>4 DEF Top, CurrentSettings, user, memory
  <2> QED
    BY <2>1 DEF Bound
<1>5. CASE Find
  <2>1. at = "find" /\ at' # "find" /\ UNCHANGED <<rows, down, followed>>
    BY <1>5 DEF Find, user, memory
  <2>2. CASE UNCHANGED heldVK
    BY <2>1, <2>2 DEF Bound
  <2>3. ASSUME NEW p \in HeldTrigger, heldVK' = VK(p) PROVE FollowInv'
    <3>1. heldVK # NoVK => heldVK' = heldVK
      BY <2>1, <2>3, FindFollows
    <3> QED
      BY <2>1, <3>1 DEF Bound
  <2>4. ASSUME HeldTrigger = {} PROVE FollowInv'
    BY <2>1, <2>4, FindFollows
  <2> QED
    BY <1>5, <2>2, <2>3, <2>4 DEF Find
<1>6. CASE FireCycle
  <2>1. UNCHANGED <<rows, down, seen, heldVK>> /\ at' # "find"
    BY <1>6 DEF FireCycle, user, Delay
  <2>2. \/ UNCHANGED followed
        \/ heldVK \in down /\ followed' = (IF Bound(rows, heldVK) THEN heldVK ELSE NoVK)
    BY <1>6 DEF FireCycle
  <2> QED
    BY <2>1, <2>2 DEF Bound
<1>7. CASE StopClicking \/ CycleEnds \/ DelayEnds \/ Leave \/ ClickerTick \/ UNCHANGED clickerVars
  <2>1. /\ UNCHANGED <<rows, down, seen, heldVK, followed>>
        /\ at' = at \/ at' # "find"
    BY <1>7 DEF StopClicking, CycleEnds, DelayEnds, Leave, ClickerTick, Delay, clickerVars, user, memory
  <2> QED
    BY <2>1 DEF Bound
<1> QED
  BY <1>1, <1>2, <1>3, <1>4, <1>5, <1>6, <1>7 DEF ClickerNext, ClickerStep

\* The rows read at the top of an iteration are still among those that were
\* live since the last tap when the loop taps.
LEMMA NextCycleInv == CycleInv /\ [ClickerNext]_clickerVars => CycleInv'
<1> SUFFICES ASSUME CycleInv, [ClickerNext]_clickerVars PROVE CycleInv'
  OBVIOUS
<1> USE DEF CycleInv, Has
<1>1. CASE StoreRows
  <2>1. offered' = offered \cup {rows'} /\ UNCHANGED <<seen, chosen, heldVK, at>>
    BY <1>1 DEF StoreRows
  <2> QED
    BY <2>1
<1>2. CASE StartClicking
  BY <1>2 DEF StartClicking, user
<1>3. CASE Top
  <2>1. /\ UNCHANGED <<rows, offered>> /\ at' \in {"leave", "find"}
        /\ at' = "find" => seen' = rows
    BY <1>3 DEF Top, CurrentSettings, user, memory
  <2> QED
    BY <2>1
<1>4. CASE Find
  <2>1. at = "find" /\ UNCHANGED <<rows, seen, offered>>
    BY <1>4 DEF Find, user, memory
  <2>2. CASE at' \in {"leave", "delay"}
    BY <2>1, <2>2
  <2>3. ASSUME NEW p \in HeldTrigger, heldVK' = VK(p), chosen' = seen[p[1]], at' = "fire" PROVE CycleInv'
    <3>1. p \in Triggers
      BY DEF HeldTrigger
    <3>2. p[1] \in DOMAIN seen /\ Has(seen[p[1]], VK(p))
      BY <3>1, TriggerIsBound
    <3> QED
      BY <2>1, <2>3, <3>2
  <2> QED
    BY <1>4, <2>2, <2>3 DEF Find
<1>5. CASE FireCycle
  <2>1. at = "fire" /\ at' \in {"tap", "delay"} /\ UNCHANGED <<rows, seen, chosen, heldVK, offered>>
    BY <1>5 DEF FireCycle, user, Delay
  <2> QED
    BY <2>1
<1>6. CASE CycleEnds
  <2>1. at' \in {"leave", "delay"} /\ offered' = {rows} /\ UNCHANGED rows
    BY <1>6 DEF CycleEnds, user, Delay
  <2> QED
    BY <2>1
<1>7. CASE DelayEnds \/ Leave
  <2>1. at' \in {"top", "off"} /\ UNCHANGED <<rows, offered>>
    BY <1>7 DEF DelayEnds, Leave, user, memory
  <2> QED
    BY <2>1
<1>8. CASE Touch \/ StopClicking \/ ClickerTick \/ UNCHANGED clickerVars
  <2>1. UNCHANGED <<rows, seen, chosen, heldVK, at, offered>>
    BY <1>8 DEF Touch, StopClicking, ClickerTick, clickerVars, user, memory
  <2> QED
    BY <2>1
<1> QED
  BY <1>1, <1>2, <1>3, <1>4, <1>5, <1>6, <1>7, <1>8 DEF ClickerNext, ClickerStep

-----------------------------------------------------------------------------
\* "Other keys and a second bind cannot take over mid-hold" (clicker.go:143),
\* whatever is stored while the key is held.
THEOREM OneBindIsFollowed == ClickerSpec => FollowsOneBind
<1>1. FollowInv /\ [ClickerNext]_clickerVars =>
        [at # "tap" /\ at' = "tap" => followed \in {NoVK, heldVK'}]_clickerVars
  <2> SUFFICES ASSUME FollowInv, ClickerNext, at # "tap", at' = "tap" PROVE followed \in {NoVK, heldVK'}
    OBVIOUS
  <2>1. FireCycle
    BY DEF ClickerNext, ClickerStep, StoreRows, Touch, StartClicking, StopClicking, Top, Find, CycleEnds, DelayEnds,
           Leave, ClickerTick, Delay
  <2>2. heldVK' = heldVK
    BY <2>1 DEF FireCycle
  <2> QED
    BY <2>2 DEF FollowInv, FollowedIsHeld
<1> QED
  BY <1>1, InitInvs, NextFollowInv, PTL DEF ClickerSpec, FollowsOneBind

\* No tap uses rows that had gone by the tap before it (clicker.go:122-141).
THEOREM TapsUseFreshRows == ClickerSpec => []RowsAreFresh
<1>1. CycleInv => RowsAreFresh
  BY DEF CycleInv, RowsAreFresh
<1> QED
  BY <1>1, InitInvs, NextCycleInv, PTL DEF ClickerSpec
=============================================================================
