---------------------------- MODULE MCLifecycle ----------------------------
(* Two callers, one acceptable and one rejected configuration, three runs:  *)
(* enough for a third run to begin while the goroutines of the two earlier  *)
(* ones are still between marking the Lifecycle stopped and closing done.   *)
EXTENDS Lifecycle

CONSTANTS good, bad

MCConfigs == {good, bad}
MCValid == {good}
=============================================================================
