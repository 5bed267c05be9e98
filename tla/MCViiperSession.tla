--------------------------- MODULE MCViiperSession ---------------------------
(* Two runners racing on one session, each with a key of its own, and two   *)
(* closers: the smallest instance in which a cycle is in flight, a second   *)
(* call waits behind it, Close drains the first and a second Close waits    *)
(* for Close.                                                               *)
EXTENDS ViiperSession

CONSTANTS clicker, timer, q, w

OneKeyEach == [r \in {clicker, timer} |-> IF r = clicker THEN {q} ELSE {w}]
=============================================================================
