------------------------- MODULE MCToolsHostScenes -------------------------
(* A behaviour is either long, with all the commands but none of the rarer  *)
(* events, or wide, with all the events and MaxWide commands.               *)
EXTENDS MCToolsHost

CONSTANT MaxWide   \* bound: commands of a behaviour with every event
VARIABLE scene

Rarer == MonitorLoses \/ CloseWindow \/ \E t \in ToSet(Others) : Rebind(t) \/ ChangeMode(t)

Long == scene = "long" /\ Next /\ ~Rarer
Wide == scene = "wide" /\ Next /\ commands' <= MaxWide

ScenesInit == Init /\ scene \in {"long", "wide"}
ScenesNext == (Long \/ Wide) /\ UNCHANGED scene
ScenesSafe == ScenesInit /\ [][ScenesNext]_<<vars, scene>>
ScenesSpec == ScenesSafe /\ Fairness
=============================================================================
