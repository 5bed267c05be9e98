------------------------------ MODULE Lifecycle ------------------------------
(***************************************************************************)
(* app/runner/internal/lifecycle/lifecycle.go: the goroutine bookkeeping   *)
(* that Clicker, AutoPot, TimerKey and KeyChain share.  Any number of      *)
(* callers (the GUI thread, the teardown goroutines) call Start, Stop,     *)
(* Wait and UpdateSettings on one Lifecycle while the goroutines of its    *)
(* runs come and go.                                                       *)
(*                                                                         *)
(* A run is named by its generation.  Its context, its cancel function and *)
(* its done channel are created together, so cancel and done hold the      *)
(* generation they belong to, and None when they are nil.                  *)
(***************************************************************************)
EXTENDS Naturals

CONSTANTS
  Callers,    \* threads that use the Lifecycle
  Configs,    \* the configurations a runner can be given
  Valid,      \* those that validate() accepts
  MaxStarts   \* bound: successful Starts explored

ASSUME LifecycleAssumption ==
  /\ Valid \subseteq Configs
  /\ MaxStarts \in Nat

None == 0
Gens == 1 .. MaxStarts

VARIABLES
  running, cancel, done, generation,   \* the fields guarded by mu
  live,       \* the configuration guarded by liveMu
  stage,      \* stage[g]: how far the goroutine of generation g has come
  ctxDone,    \* generations whose context has been cancelled
  cfgOf,      \* cfgOf[g]: the snapshot run g was started with
  pc, arg     \* callers between reading a field under mu and using it

fields == <<running, cancel, done, generation, live>>
vars == <<fields, stage, ctxDone, cfgOf, pc, arg>>

Init ==
  /\ running = FALSE
  /\ cancel = None
  /\ done = None
  /\ generation = 0
  /\ live \in Configs
  /\ stage = [g \in Gens |-> "unborn"]
  /\ ctxDone = {}
  /\ cfgOf = [g \in Gens |-> live]
  /\ pc = [c \in Callers |-> "idle"]
  /\ arg = [c \in Callers |-> None]

(***************************************************************************)
(* Calls                                                                   *)
(***************************************************************************)
UpdateSettings(c, cfg) ==
  /\ pc[c] = "idle"
  /\ live' = cfg
  /\ UNCHANGED <<running, cancel, done, generation, stage, ctxDone, cfgOf, pc, arg>>

\* "already running" and a configuration validate() rejects change nothing.
MayStartAgain == live \in Valid     \* faulty variant: "already running" is forgotten
MayStart == ~running /\ live \in Valid
NextGeneration == generation + 1

Start(c) ==
  /\ pc[c] = "idle"
  /\ generation < MaxStarts
  /\ MayStart
  /\ LET g == NextGeneration
     IN /\ generation' = g
        /\ cancel' = g
        /\ done' = g
        /\ running' = TRUE
        /\ stage' = [stage EXCEPT ![g] = "body"]
        /\ cfgOf' = [cfgOf EXCEPT ![g] = live]
  /\ UNCHANGED <<live, ctxDone, pc, arg>>

\* Stop copies l.cancel under the lock and calls it outside.
StopRead(c) ==
  /\ pc[c] = "idle"
  /\ cancel # None
  /\ pc' = [pc EXCEPT ![c] = "cancelling"]
  /\ arg' = [arg EXCEPT ![c] = cancel]
  /\ UNCHANGED <<fields, stage, ctxDone, cfgOf>>

StopCancel(c) ==
  /\ pc[c] = "cancelling"
  /\ ctxDone' = ctxDone \cup {arg[c]}
  /\ pc' = [pc EXCEPT ![c] = "idle"]
  /\ UNCHANGED <<fields, stage, cfgOf, arg>>

\* Wait copies l.done under the lock and receives from it outside.
WaitRead(c) ==
  /\ pc[c] = "idle"
  /\ done # None
  /\ pc' = [pc EXCEPT ![c] = "waiting"]
  /\ arg' = [arg EXCEPT ![c] = done]
  /\ UNCHANGED <<fields, stage, ctxDone, cfgOf>>

WaitReturn(c) ==
  /\ pc[c] = "waiting"
  /\ stage[arg[c]] = "closed"
  /\ pc' = [pc EXCEPT ![c] = "idle"]
  /\ UNCHANGED <<fields, stage, ctxDone, cfgOf, arg>>

(***************************************************************************)
(* The goroutine of one run                                                *)
(***************************************************************************)
\* Faulty variants: the epilogue is left out after onStop, or a panic in
\* onStop kills the goroutine.
AdvanceUnmarked(g, from, to) ==
  /\ stage[g] = from
  /\ stage' = [stage EXCEPT ![g] = IF from = "onStop" THEN "close" ELSE to]
AdvanceUnrecovered(g, from, to) ==
  /\ stage[g] = from /\ from # "onStop"
  /\ stage' = [stage EXCEPT ![g] = to]

Advance(g, from, to) ==
  /\ stage[g] = from
  /\ stage' = [stage EXCEPT ![g] = to]

\* run(ctx, cfg) returns, on its own or because of ctx, or panics.
BodyEnds(g) ==
  /\ Advance(g, "body", "onStop")
  /\ UNCHANGED <<fields, ctxDone, cfgOf, pc, arg>>

\* onStop(cfg) returns or panics; its panic is swallowed.
CleanupEnds(g) ==
  /\ Advance(g, "onStop", "mark")
  /\ UNCHANGED <<fields, ctxDone, cfgOf, pc, arg>>

MarkStopped(g) ==
  /\ Advance(g, "mark", "close")
  /\ IF generation = g
     THEN running' = FALSE /\ cancel' = None
     ELSE UNCHANGED <<running, cancel>>
  /\ UNCHANGED <<done, generation, live, ctxDone, cfgOf, pc, arg>>

CloseDone(g) ==
  /\ Advance(g, "close", "closed")
  /\ UNCHANGED <<fields, ctxDone, cfgOf, pc, arg>>

Run(g) == BodyEnds(g) \/ CleanupEnds(g) \/ MarkStopped(g) \/ CloseDone(g)

Call(c) ==
  \/ \E cfg \in Configs : UpdateSettings(c, cfg)
  \/ Start(c)
  \/ StopRead(c)
  \/ StopCancel(c)
  \/ WaitRead(c)
  \/ WaitReturn(c)

Next == (\E c \in Callers : Call(c)) \/ (\E g \in Gens : Run(g))

(***************************************************************************)
(* Every run loop selects on or polls its context, so a body whose context *)
(* is cancelled returns; the epilogue never blocks (onStop takes only      *)
(* short-lived locks); a call that has begun goes on.  Nobody is obliged   *)
(* to make a call, and a body nobody cancels may run for ever.             *)
(***************************************************************************)
Fairness ==
  /\ \A g \in Gens : WF_vars(g \in ctxDone /\ BodyEnds(g))
  /\ \A g \in Gens : WF_vars(CleanupEnds(g) \/ MarkStopped(g) \/ CloseDone(g))
  /\ \A c \in Callers : WF_vars(StopCancel(c) \/ WaitReturn(c))

SafeSpec == Init /\ [][Next]_vars
Spec == SafeSpec /\ Fairness

(***************************************************************************)
(* Properties                                                              *)
(***************************************************************************)
\* The goroutine of g still owes the Lifecycle its "running = false".
Unmarked(g) == stage[g] \in {"body", "onStop", "mark"}

TypeOK ==
  /\ running \in BOOLEAN
  /\ cancel \in 0 .. MaxStarts
  /\ done \in 0 .. MaxStarts
  /\ generation \in 0 .. MaxStarts
  /\ live \in Configs
  /\ stage \in [Gens -> {"unborn", "body", "onStop", "mark", "close", "closed"}]
  /\ ctxDone \subseteq Gens
  /\ cfgOf \in [Gens -> Configs]
  /\ pc \in [Callers -> {"idle", "cancelling", "waiting"}]
  /\ arg \in [Callers -> 0 .. MaxStarts]

\* No two runs of one runner execute at once: a Start that succeeds while an
\* older goroutine is still finishing finds its body and its cleanup over
\* (lifecycle.go:75 and the order of the deferred function, 99-118).
OneRun == \A g, h \in Gens : Unmarked(g) /\ Unmarked(h) => g = h

\* Running() is true exactly while the latest run is unmarked, and then Stop
\* finds the cancel function of that very run: no stop request is lost and no
\* runner is stuck at "already running" with nobody left to clear it.
RunningIsLatest ==
  /\ running <=> \E g \in Gens : Unmarked(g)
  /\ running => cancel = generation /\ done = generation /\ Unmarked(generation)
  /\ ~running => cancel = None

\* A run only ever gets a configuration that validate() accepted, although
\* UpdateSettings stores unvalidated ones at any time (lifecycle.go:79-83).
RunsAreValid == \A g \in Gens : stage[g] # "unborn" => cfgOf[g] \in Valid

\* When Wait returns, the run it waited for and every earlier one have left
\* their body and their onStop, so the caller may tear down what they use.
WaitMeansOver ==
  [][\A c \in Callers :
       pc[c] = "waiting" /\ pc'[c] = "idle" =>
         \A g \in 1 .. arg[c] : stage[g] \in {"close", "closed"}]_vars

\* A run whose context is cancelled finishes, whatever panics on the way, and
\* its done channel is closed (the comments at 96-98 and 104-105).
CancelledRunsFinish ==
  \A g \in Gens : (g \in ctxDone) ~> (stage[g] = "closed")

\* A Wait on a run that was asked to stop returns: Stop followed by Wait, as
\* every teardown in the GUI does it, cannot hang.
WaitReturns ==
  \A c \in Callers : (pc[c] = "waiting" /\ arg[c] \in ctxDone) ~> (pc[c] = "idle")

\* Lifecycle implements the contract its users rely on.
Contract == INSTANCE RunnerContract WITH
  phase <- IF ~running THEN "stopped"
           ELSE IF generation \in ctxDone THEN "stopping" ELSE "running",
  starts <- generation

ImplementsContract == Contract!Spec
=============================================================================
