------------------------------ MODULE KeyChain ------------------------------
(***************************************************************************)
(* app/runner/keychain.go on the physical keyboard: the loop of KeyChain,  *)
(* which looks for a held trigger and types the keys of its chain through  *)
(* VIIPER, telling the hook which keys to swallow and which one it types.  *)
(***************************************************************************)
EXTENDS PhysicalKeyboard

CONSTANTS
  Configs    \* settings: a sequence of chains, each a sequence of keys or empty

ASSUME ChainAssumption == Configs \subseteq Seq(Seq(Keys))

VARIABLES
  cfg,               \* the settings as the tab has stored them
  pc, stopAsked,     \* the goroutine of the run, and its context
  current, heldVK,   \* run
  sw, step,          \* executeChain
  failed             \* the tap in hand has failed

loop == <<pc, current, heldVK, sw, step, failed>>
vars == <<kbVars, cfg, loop, stopAsked>>

Init ==
  /\ KbInit
  /\ cfg \in Configs
  /\ pc = "off" /\ stopAsked = FALSE
  /\ current = <<>> /\ heldVK = NoKey /\ sw = <<>> /\ step = 0 /\ failed = FALSE

Triggers(c) == {Head(c[n]) : n \in {m \in DOMAIN c : c[m] # <<>>}}
EmergencyDown == \E b \in Boards : fingers[b] \cap ToggleVKs # {}

\* The n-th chain may be played now, by itself or as the one being followed.
Playable(n) ==
  /\ current[n] # <<>> /\ PhysicalKeyDown(Head(current[n]))
  /\ heldVK \in {NoKey, Head(current[n])}

Start ==
  /\ pc = "off"
  /\ pc' = "poll" /\ stopAsked' = FALSE
  /\ UNCHANGED <<kbVars, cfg, current, heldVK, sw, step, failed>>

Stop ==
  /\ pc # "off" /\ ~stopAsked
  /\ stopAsked' = TRUE
  /\ UNCHANGED <<kbVars, cfg, loop>>

UpdateSettings ==
  /\ cfg' \in Configs \ {cfg}
  /\ UNCHANGED <<kbVars, loop, stopAsked>>

\* The locals of an iteration are cleared when it is done with them.
Poll ==
  /\ pc = "poll"
  /\ \/ /\ stopAsked \/ EmergencyDown
        /\ pc' = "leave" /\ UNCHANGED <<kbVars, current>>
     \/ /\ ~stopAsked /\ ~EmergencyDown
        /\ SwallowPhysicalKeys(Triggers(cfg))
        /\ current' = cfg /\ pc' = "find"
  /\ UNCHANGED <<cfg, heldVK, sw, step, failed, stopAsked>>

\* heldChainTrigger: the trigger being followed, or the first one held.
Find ==
  /\ pc = "find"
  /\ \/ \E n \in DOMAIN current :
          /\ Playable(n) /\ \A m \in 1 .. n - 1 : ~Playable(m)
          /\ heldVK' = Head(current[n]) /\ sw' = current[n]
          /\ step' = 1 /\ pc' = "next"
     \/ /\ \A n \in DOMAIN current : ~Playable(n)
        /\ heldVK' = NoKey /\ pc' = "poll" /\ UNCHANGED <<sw, step>>
  /\ current' = <<>>
  /\ UNCHANGED <<kbVars, cfg, stopAsked, failed>>

PassEnds(next) == pc' = next /\ sw' = <<>> /\ step' = 0

\* executeChain between two keys; the end of the pass and End/F12 lead back.
NextKey ==
  /\ pc = "next"
  /\ \/ /\ step > Len(sw) \/ (EmergencyDown /\ ~stopAsked)
        /\ PassEnds("poll") /\ UNCHANGED kbVars
     \/ /\ step <= Len(sw) /\ stopAsked
        /\ PassEnds("leave") /\ UNCHANGED kbVars
     \/ /\ step <= Len(sw) /\ ~stopAsked /\ ~EmergencyDown
        /\ SetTappingVK(sw[step])
        /\ pc' = "press" /\ UNCHANGED <<sw, step>>
  /\ UNCHANGED <<cfg, current, heldVK, failed, stopAsked>>

\* TapKey: a failed press is released all the same, and the tap has failed.
TapPress ==
  /\ pc = "press"
  /\ ViiperTypes(sw[step], TRUE) \/ UNCHANGED kbVars
  /\ failed' \in BOOLEAN
  /\ pc' = "release"
  /\ UNCHANGED <<cfg, current, heldVK, sw, step, stopAsked>>

TapRelease ==
  /\ pc = "release"
  /\ \/ ViiperTypes(sw[step], FALSE) /\ UNCHANGED failed
     \/ UNCHANGED kbVars /\ failed' = TRUE
  /\ pc' = "tapped"
  /\ UNCHANGED <<cfg, current, heldVK, sw, step, stopAsked>>

\* The deferred SetTapping(0), then the delay, which ends early when stopped.
Tapped ==
  /\ pc = "tapped"
  /\ SetTappingVK(NoKey)
  /\ \/ failed /\ PassEnds("leave")
     \/ ~failed /\ step' = step + 1 /\ pc' = "next" /\ UNCHANGED sw
  /\ failed' = FALSE
  /\ UNCHANGED <<cfg, current, heldVK, stopAsked>>

\* The deferred calls of run: SetTapping(0), Swallow(nil), Reset.
KeptSwallowing == UNCHANGED kbVars    \* faulty variant: the keys stay swallowed
SwallowNothing == SwallowPhysicalKeys({})

Leave ==
  /\ \/ pc = "leave" /\ SetTappingVK(NoKey) /\ pc' = "unswallow" /\ UNCHANGED heldVK
     \/ pc = "unswallow" /\ SwallowNothing /\ pc' = "off" /\ heldVK' = NoKey
  /\ UNCHANGED <<cfg, current, sw, step, failed, stopAsked>>

ChainStep == Poll \/ Find \/ NextKey \/ TapPress \/ TapRelease \/ Tapped \/ Leave

OtherSteps == (KeyboardThread \/ User) /\ UNCHANGED <<cfg, loop, stopAsked>>

Next == Start \/ Stop \/ UpdateSettings \/ ChainStep \/ OtherSteps

Spec == Init /\ [][Next]_vars

(***************************************************************************)
(* Properties                                                              *)
(***************************************************************************)
TypeOK ==
  /\ KbTypeOK
  /\ cfg \in Configs /\ current \in Configs \cup {<<>>}
  /\ pc \in {"off", "poll", "find", "next", "press", "release", "tapped", "leave", "unswallow"}
  /\ stopAsked \in BOOLEAN /\ failed \in BOOLEAN
  /\ heldVK \in Keys \cup {NoKey}
  /\ sw \in Seq(Keys) /\ step \in 0 .. Len(sw) + 1

\* However a run ends, it leaves no key swallowed and none marked as typed, so
\* the user's keys reach the game again (keychain.go:116-117).
IdleSwallowsNothing == pc = "off" => swallowVKs = {} /\ tappingVK = NoKey

\* Outside a tap no key is marked as typed by VIIPER: else the hook would let
\* the user's own presses of it through (keyboard_swallow_windows.go:139-141).
MarkedOnlyInTap == tappingVK # NoKey => pc \in {"press", "release", "tapped"} /\ tappingVK = sw[step]
=============================================================================
