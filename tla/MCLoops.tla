------------------------------ MODULE MCLoops ------------------------------
(* Two loops that share no state: a behaviour is one of the timer keys, with *)
(* the clicker at rest, or one of the clicker.                               *)
EXTENDS TimerKey, Clicker

CONSTANTS a, b

VARIABLE loop

Click(keys, n) == [keys |-> keys, delay |-> n, click |-> TRUE]
TwoRows == {<<Click(<<a, b>>, 0), Click(<<NoVK, NoVK>>, 2)>>,
            <<Click(<<NoVK, b>>, 0), Click(<<b, a>>, 2)>>,
            <<Click(<<NoVK, a>>, 2), Click(<<NoVK, NoVK>>, 0)>>}

TimerAlone == loop = "timer" /\ UNCHANGED <<loop, clickerVars>>
ClickerAlone == loop = "clicker" /\ UNCHANGED <<loop, vars>>

AtRest ==
  \/ loop = "timer" /\ rows = CHOOSE r \in Layouts : TRUE
  \/ loop = "clicker" /\ cfg = CHOOSE c \in Settings : TRUE

LoopsInit == Init /\ ClickerInit /\ AtRest

LoopsNext ==
  \/ TimerAlone /\ Store
  \/ TimerAlone /\ PokeAfterStore
  \/ TimerAlone /\ Start
  \/ TimerAlone /\ Stop
  \/ TimerAlone /\ LoopStep
  \/ TimerAlone /\ Tick
  \/ ClickerAlone /\ StoreRows
  \/ ClickerAlone /\ Touch
  \/ ClickerAlone /\ StartClicking
  \/ ClickerAlone /\ StopClicking
  \/ ClickerAlone /\ ClickerStep
  \/ ClickerAlone /\ ClickerTick

LoopsSpec ==
  /\ LoopsInit
  /\ [][LoopsNext]_<<loop, vars, clickerVars>>
  /\ WF_vars(LoopStep /\ TimerAlone) /\ WF_vars(Tick /\ TimerAlone)
  /\ WF_clickerVars(ClickerStep /\ ClickerAlone) /\ WF_clickerVars(ClickerTick /\ ClickerAlone)
=============================================================================
