------------------------------ MODULE Clicker ------------------------------
(***************************************************************************)
(* app/runner/clicker.go: while the user holds a trigger, the clicker taps *)
(* that key (with a click, or without) and waits for the delay of its row. *)
(* The tab stores new rows at any time; keys go up and down at any time.   *)
(*                                                                         *)
(* A tick is a PollInterval, the longest sleep between two looks.  What a  *)
(* tap or a Reset writes to the devices, and whether it succeeds, is       *)
(* ViiperSession's: no step here depends on what is left pressed.          *)
(***************************************************************************)
EXTENDS Naturals, Sequences

CONSTANTS
  ClickerKeys, NoVK,          \* keys that can be triggers; 0
  Layouts,                   \* what the tab may store: rows of triggers
  MaxStores, MaxTouches       \* bounds: changes of the rows, of a key

ASSUME ClickerAssumption ==
  /\ NoVK \notin ClickerKeys
  /\ Layouts \subseteq Seq([keys : Seq(ClickerKeys \cup {NoVK}), delay : Nat, click : BOOLEAN])

VARIABLES
  rows,                       \* live settings: [keys, delay, click] per row
  seen, chosen,               \* run: its copy of the settings, the row in use
  heldVK,                     \* run: the trigger it follows
  at, cancelled,              \* the goroutine and its context
  wait,                       \* ticks left of a sleep
  down, emergency,            \* the user: triggers held, End or F12 held
  followed, offered,          \* what the properties remember
  stores, touches

user == <<rows, down, emergency, stores, touches>>
memory == <<followed, offered>>
clickerVars == <<user, seen, chosen, heldVK, at, cancelled, wait, memory>>

NoRow == [keys |-> <<>>, delay |-> 0, click |-> FALSE]
DefaultDelayMs == 1
slotDelay(row) == IF row.delay = 0 THEN DefaultDelayMs ELSE row.delay

ClickerInit ==
  /\ rows \in Layouts
  /\ seen = rows /\ chosen = NoRow /\ heldVK = NoVK
  /\ at = "off" /\ cancelled = FALSE /\ wait = 0
  /\ down = {} /\ emergency = FALSE
  /\ followed = NoVK /\ offered = {rows}
  /\ stores = 0 /\ touches = 0

(***************************************************************************)
(* The tab and the user                                                    *)
(***************************************************************************)
Has(row, vk) == \E i \in DOMAIN row.keys : row.keys[i] = vk
Bound(r, vk) == \E i \in DOMAIN r : Has(r[i], vk)

StoreRows ==
  /\ stores < MaxStores /\ stores' = stores + 1
  /\ rows' \in Layouts \ {rows}
  /\ offered' = offered \cup {rows'}
  /\ followed' = IF Bound(rows', followed) THEN followed ELSE NoVK
  /\ UNCHANGED <<down, emergency, touches, seen, chosen, heldVK, at, cancelled, wait>>

Touch ==
  /\ touches < MaxTouches /\ touches' = touches + 1
  /\ \/ \E vk \in ClickerKeys :
          /\ down' = IF vk \in down THEN down \ {vk} ELSE down \cup {vk}
          /\ followed' = IF vk = followed THEN NoVK ELSE followed
          /\ UNCHANGED emergency
     \/ emergency' = ~emergency /\ UNCHANGED <<down, followed>>
  /\ UNCHANGED <<rows, stores, seen, chosen, heldVK, at, cancelled, wait, offered>>

StartClicking ==
  /\ at = "off"
  /\ at' = "top" /\ cancelled' = FALSE /\ heldVK' = NoVK
  /\ followed' = NoVK /\ offered' = {rows}
  /\ UNCHANGED <<user, seen, chosen, wait>>

StopClicking ==
  /\ at # "off" /\ ~cancelled /\ cancelled' = TRUE
  /\ UNCHANGED <<user, seen, chosen, heldVK, at, wait, memory>>

(***************************************************************************)
(* run                                                                     *)
(***************************************************************************)
SettingsAtStart == IF heldVK = NoVK THEN rows ELSE seen       \* faulty variant
CurrentSettings == rows

Top ==
  /\ at = "top"
  /\ IF cancelled THEN at' = "leave" /\ UNCHANGED seen
                  ELSE at' = "find" /\ seen' = CurrentSettings
  /\ UNCHANGED <<user, chosen, heldVK, cancelled, wait, memory>>

StillTaken == heldVK                                          \* faulty variant
AfterHold == NoVK

\* Rows are searched in order, and the keys of a row in order.
Before(p, q) == p[1] < q[1] \/ (p[1] = q[1] /\ p[2] < q[2])
Triggers == {p \in UNION {{i} \X DOMAIN seen[i].keys : i \in DOMAIN seen} : seen[p[1]].keys[p[2]] # NoVK}
VK(p) == seen[p[1]].keys[p[2]]

FirstHeld == {p \in Triggers : VK(p) \in down}                \* faulty variant
\* The triggers that may fire: those held, or those of the key being followed.
HeldTrigger == IF heldVK = NoVK THEN {p \in Triggers : VK(p) \in down}
               ELSE {p \in Triggers : VK(p) = heldVK /\ heldVK \in down}

Find ==
  /\ at = "find"
  /\ \/ /\ emergency
        /\ at' = "leave" /\ UNCHANGED <<heldVK, chosen, wait>>
     \/ /\ ~emergency
        /\ \E p \in HeldTrigger :
             /\ \A q \in HeldTrigger \ {p} : Before(p, q)
             /\ heldVK' = VK(p) /\ chosen' = seen[p[1]]
        /\ at' = "fire" /\ UNCHANGED wait
     \/ /\ ~emergency /\ HeldTrigger = {}
        /\ heldVK' = AfterHold                                 \* and a Reset after a hold
        /\ at' = "delay" /\ wait' = 1 /\ UNCHANGED chosen
  /\ UNCHANGED <<user, seen, cancelled, memory>>

Delay == at' = "delay" /\ wait' = slotDelay(chosen)

FireCycle ==
  /\ at = "fire"
  /\ IF heldVK \in down
     THEN at' = "tap" /\ followed' = (IF Bound(rows, heldVK) THEN heldVK ELSE NoVK) /\ UNCHANGED wait
     ELSE Delay /\ UNCHANGED followed
  /\ UNCHANGED <<user, seen, chosen, heldVK, cancelled, offered>>

\* A failed write ends the run.
CycleEnds ==
  /\ at = "tap"
  /\ \/ Delay
     \/ at' = "leave" /\ UNCHANGED wait
  /\ offered' = {rows}
  /\ UNCHANGED <<user, seen, chosen, heldVK, cancelled, followed>>

\* A poll without a hold is a sleep too, but it does not watch the keys.
Awake == cancelled \/ wait = 0 \/ (heldVK # NoVK /\ (emergency \/ heldVK \notin down))
DelayEnds ==
  /\ at = "delay" /\ Awake
  /\ at' = "top"
  /\ UNCHANGED <<user, seen, chosen, heldVK, cancelled, wait, memory>>

\* The deferred Reset.
Leave ==
  /\ at = "leave"
  /\ at' = "off"
  /\ UNCHANGED <<user, seen, chosen, heldVK, cancelled, wait, memory>>

ClickerStep == Top \/ Find \/ FireCycle \/ CycleEnds \/ DelayEnds \/ Leave

ClickerTick ==
  /\ at = "delay" /\ wait > 0 /\ wait' = wait - 1
  /\ UNCHANGED <<user, seen, chosen, heldVK, at, cancelled, memory>>

ClickerNext == StoreRows \/ Touch \/ StartClicking \/ StopClicking \/ ClickerStep \/ ClickerTick

\* The goroutine is scheduled, taps return and timers fire.
ClickerSpec ==
  ClickerInit /\ [][ClickerNext]_clickerVars
    /\ WF_clickerVars(ClickerStep) /\ WF_clickerVars(ClickerTick)

(***************************************************************************)
(* Properties                                                              *)
(***************************************************************************)
ClickerTypeOK ==
  /\ rows \in Layouts /\ seen \in Layouts
  /\ heldVK \in ClickerKeys \cup {NoVK} /\ followed \in ClickerKeys \cup {NoVK}
  /\ at \in {"off", "top", "find", "fire", "tap", "delay", "leave"}
  /\ cancelled \in BOOLEAN /\ emergency \in BOOLEAN /\ wait \in Nat
  /\ down \subseteq ClickerKeys
  /\ offered \subseteq Layouts

\* "Other keys and a second bind cannot take over mid-hold" (clicker.go:143):
\* while the key tapped last stays down and bound, no other key is tapped.
FollowsOneBind ==
  [][at # "tap" /\ at' = "tap" => followed \in {NoVK, heldVK'}]_clickerVars

\* A tap uses rows that were live after the tap before it: however the tab
\* stores them, no cycle runs on rows that had gone by then.
RowsAreFresh == at = "tap" => \E r \in offered : \E i \in DOMAIN r : Has(r[i], heldVK) /\ r[i] = chosen

\* In a run a held trigger is tapped, again and again, until it is let go or unbound,
\* or the run ends; another trigger held with it may be the one that is.
KeepsSpamming ==
  (at \notin {"off", "leave"} /\ \E vk \in down : Bound(rows, vk))
    ~> (at = "tap" \/ cancelled \/ emergency \/ \A vk \in down : ~Bound(rows, vk))
=============================================================================
