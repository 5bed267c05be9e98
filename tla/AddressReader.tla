---------------------------- MODULE AddressReader ----------------------------
(***************************************************************************)
(* The address reader of AutoPot (address_reader.go): whose memory it      *)
(* reads, and how it finds the game again.  Clients of the game come and   *)
(* go, each with a process of its own; a read of a running one may fail    *)
(* while the machine is not calm.                                          *)
(***************************************************************************)
EXTENDS Naturals

CONSTANTS
  Clients, NoPID,           \* processes whose window has the title; PID 0
  reconnectInterval         \* in ticks

ASSUME AddressAssumption == NoPID \notin Clients /\ reconnectInterval \in Nat

VARIABLES
  running, gone, calm,      \* the machine
  pid, titled,              \* addressReader: pid, and whether processTitle is set
  failing, sinceReconn,     \* hadError; ticks since lastReconn
  outcome                   \* "found" or "invalid"

machine == <<running, gone, calm>>
addressVars == <<machine, pid, titled, failing, sinceReconn, outcome>>

AddressInit ==
  /\ running \in SUBSET Clients /\ gone = {} /\ calm \in BOOLEAN
  /\ pid \in running \cup {NoPID} /\ titled \in BOOLEAN
  /\ failing = FALSE /\ sinceReconn = reconnectInterval
  /\ outcome = "invalid"

\* A process that has gone does not come back: a restart has another PID.
ClientsChange ==
  /\ \E c \in Clients :
       \/ c \in running /\ running' = running \ {c} /\ gone' = gone \cup {c}
       \/ c \notin running \cup gone /\ running' = running \cup {c} /\ UNCHANGED gone
  /\ UNCHANGED <<calm, pid, titled, failing, sinceReconn, outcome>>

Disturb ==
  /\ calm' = ~calm
  /\ UNCHANGED <<running, gone, pid, titled, failing, sinceReconn, outcome>>

PassTime ==
  /\ sinceReconn < reconnectInterval /\ sinceReconn' = sinceReconn + 1
  /\ UNCHANGED <<machine, pid, titled, failing, outcome>>

(***************************************************************************)
(* ReadValues                                                              *)
(***************************************************************************)
NoProcess ==
  /\ pid = NoPID
  /\ outcome' = "invalid" /\ UNCHANGED <<pid, failing, sinceReconn>>

Values ==
  /\ pid \in running
  /\ outcome' = "found" /\ failing' = FALSE
  /\ UNCHANGED <<pid, sinceReconn>>

Restarted == 0                                   \* faulty variant
Waited == sinceReconn

\* FindVisibleWindowPID: the first window in z-order, which may be any.
Windows == IF titled THEN running ELSE {}

\* setError when it is too early to look for the game again, and when it does.
TooEarly ==
  /\ sinceReconn < reconnectInterval
  /\ failing' = TRUE /\ sinceReconn' = Waited /\ UNCHANGED pid

Reconnect ==
  /\ sinceReconn >= reconnectInterval
  /\ sinceReconn' = 0
  /\ \/ \E w \in Windows \ {pid} : pid' = w /\ failing' = FALSE
     \/ /\ Windows \subseteq {pid} \/ pid \in Windows \/ ~calm
        /\ failing' = TRUE /\ UNCHANGED pid

setError ==
  /\ pid # NoPID /\ (pid \in running => ~calm)
  /\ outcome' = "invalid"
  /\ TooEarly \/ Reconnect

ReadMemory ==
  /\ NoProcess \/ Values \/ setError
  /\ UNCHANGED <<machine, titled>>

AddressNext == ClientsChange \/ Disturb \/ PassTime \/ ReadMemory

\* The loop asks for a reading again and again, and time goes on.
AddressSpec ==
  AddressInit /\ [][AddressNext]_addressVars /\ WF_addressVars(ReadMemory) /\ WF_addressVars(PassTime)

(***************************************************************************)
(* Properties                                                              *)
(***************************************************************************)
AddressTypeOK ==
  /\ running \subseteq Clients /\ gone \subseteq Clients /\ calm \in BOOLEAN
  /\ pid \in Clients \cup {NoPID} /\ titled \in BOOLEAN
  /\ failing \in BOOLEAN /\ sinceReconn \in 0 .. reconnectInterval
  /\ outcome \in {"found", "invalid"}

\* Once a game was chosen, a client that runs is read in the end, however often
\* the game has been restarted (address_reader.go:127-179).
Reachable == calm /\ titled /\ running # {} /\ pid # NoPID
Reconnects == Reachable ~> ((outcome = "found" /\ pid \in running) \/ ~Reachable)
=============================================================================
