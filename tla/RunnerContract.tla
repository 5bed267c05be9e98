--------------------------- MODULE RunnerContract ---------------------------
(***************************************************************************)
(* What lifecycle.Lifecycle promises the rest of EzRoKit about one runner: *)
(* runs happen one after the other, a stop request concerns the run it     *)
(* found and no later one, and a run that was asked to stop does stop.     *)
(* Lifecycle is shown to implement this specification.                     *)
(***************************************************************************)
EXTENDS Naturals

VARIABLES
  phase,   \* what Running() and Stop() let a caller know of the runner
  starts   \* how many runs have begun

cvars == <<phase, starts>>

Init == phase = "stopped" /\ starts = 0

Begin == /\ phase = "stopped"
         /\ phase' = "running"
         /\ starts' = starts + 1

\* A stop request reaches the run in progress.
Request == /\ phase = "running"
           /\ phase' = "stopping"
           /\ UNCHANGED starts

\* The run is over: on its own, after a panic, or because it was asked.
Finish == /\ phase \in {"running", "stopping"}
          /\ phase' = "stopped"
          /\ UNCHANGED starts

Next == Begin \/ Request \/ Finish

SafeSpec == Init /\ [][Next]_cvars

Spec == SafeSpec /\ WF_cvars(phase = "stopping" /\ Finish)
=============================================================================
