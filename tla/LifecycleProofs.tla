-------------------------- MODULE LifecycleProofs --------------------------
(***************************************************************************)
(* Proofs about Lifecycle for every set of callers and configurations and  *)
(* any bound on the number of starts.                                      *)
(***************************************************************************)
EXTENDS Lifecycle, TLAPS

\* Generations are handed out in order.
Births == \A g \in Gens : stage[g] = "unborn" <=> g > generation

\* Only the latest run can still be unmarked, and only while running is set.
OnlyLatest == \A g \in Gens : Unmarked(g) => running /\ g = generation

\* While running is set, the three fields belong to the latest, unmarked run.
FieldsMatch ==
  /\ running => generation > 0 /\ cancel = generation /\ done = generation /\ Unmarked(generation)
  /\ ~running => cancel = None
  /\ done <= generation

\* Nobody holds a cancel function or a done channel that does not exist yet.
NothingFromTheFuture ==
  /\ \A c \in Callers : pc[c] # "idle" => arg[c] \in 1 .. generation
  /\ ctxDone \subseteq 1 .. generation

IInv == TypeOK /\ Births /\ OnlyLatest /\ FieldsMatch /\ NothingFromTheFuture /\ RunsAreValid

-----------------------------------------------------------------------------
LEMMA InitIInv == Init => IInv
<1> SUFFICES ASSUME Init
             PROVE  IInv
  OBVIOUS
<1> USE LifecycleAssumption DEF Init, Gens, None
<1>1. TypeOK
  <2>1. running \in BOOLEAN
    BY Zenon
  <2>2. /\ cancel \in 0 .. MaxStarts /\ done \in 0 .. MaxStarts
        /\ generation \in 0 .. MaxStarts /\ live \in Configs /\ ctxDone \subseteq Gens
        /\ stage \in [Gens -> {"unborn", "body", "onStop", "mark", "close", "closed"}]
        /\ cfgOf \in [Gens -> Configs]
        /\ pc \in [Callers -> {"idle", "cancelling", "waiting"}]
        /\ arg \in [Callers -> 0 .. MaxStarts]
    OBVIOUS
  <2>3. QED
    BY <2>1, <2>2 DEF TypeOK
<1>2. Births /\ OnlyLatest /\ RunsAreValid
  BY DEF Births, OnlyLatest, RunsAreValid, Unmarked
<1>3. FieldsMatch /\ NothingFromTheFuture
  BY DEF FieldsMatch, NothingFromTheFuture
<1>4. QED
  BY <1>1, <1>2, <1>3 DEF IInv

\* What a caller does outside Start touches neither the runs nor the fields.
LEMMA CallsPreserve ==
  ASSUME IInv, NEW c \in Callers,
         \/ \E cfg \in Configs : UpdateSettings(c, cfg)
         \/ StopRead(c) \/ StopCancel(c) \/ WaitRead(c) \/ WaitReturn(c)
  PROVE  IInv'
<1> USE LifecycleAssumption
        DEF IInv, TypeOK, Births, OnlyLatest, FieldsMatch, NothingFromTheFuture,
            RunsAreValid, Unmarked, Gens, None, fields
<1>1. CASE \E cfg \in Configs : UpdateSettings(c, cfg)
  BY <1>1 DEF UpdateSettings
<1>2. CASE StopRead(c)
  BY <1>2 DEF StopRead
<1>3. CASE StopCancel(c)
  <2>1. arg[c] \in 1 .. generation /\ arg[c] \in Gens
    BY <1>3 DEF StopCancel
  <2>2. QED
    BY <1>3, <2>1 DEF StopCancel
<1>4. CASE WaitRead(c)
  BY <1>4 DEF WaitRead
<1>5. CASE WaitReturn(c)
  BY <1>5 DEF WaitReturn
<1>6. QED
  BY <1>1, <1>2, <1>3, <1>4, <1>5

LEMMA StartPreserves ==
  ASSUME IInv, NEW c \in Callers, Start(c)
  PROVE  IInv'
<1> USE LifecycleAssumption DEF IInv, Gens, None, Unmarked
<1>1. /\ generation \in 0 .. MaxStarts
      /\ generation' = generation + 1
      /\ generation' \in Gens
      /\ stage[generation'] = "unborn"
  BY DEF Start, MayStart, NextGeneration, TypeOK, Births
<1>2. \A g \in Gens : stage'[g] = IF g = generation' THEN "body" ELSE stage[g]
  BY <1>1 DEF Start, MayStart, NextGeneration, TypeOK
<1>3. \A g \in Gens : ~Unmarked(g)
  BY DEF Start, MayStart, NextGeneration, OnlyLatest
<1>4. TypeOK'
  BY <1>1 DEF Start, MayStart, NextGeneration, TypeOK
<1>5. Births'
  BY <1>1, <1>2 DEF Births
<1>6. OnlyLatest'
  BY <1>1, <1>2, <1>3 DEF OnlyLatest, Start, MayStart, NextGeneration
<1>7. FieldsMatch'
  BY <1>1, <1>2 DEF FieldsMatch, Start, MayStart, NextGeneration
<1>8. NothingFromTheFuture'
  BY <1>1 DEF NothingFromTheFuture, Start, MayStart, NextGeneration
<1>9. RunsAreValid'
  BY <1>1, <1>2 DEF RunsAreValid, Start, MayStart, NextGeneration, TypeOK
<1>10. QED
  BY <1>4, <1>5, <1>6, <1>7, <1>8, <1>9

LEMMA RunPreserves ==
  ASSUME IInv, NEW g \in Gens, Run(g)
  PROVE  IInv'
<1> USE LifecycleAssumption
        DEF IInv, TypeOK, Births, OnlyLatest, FieldsMatch, NothingFromTheFuture,
            RunsAreValid, Unmarked, Gens, None, fields, Advance
<1>1. CASE BodyEnds(g)
  BY <1>1 DEF BodyEnds
<1>2. CASE CleanupEnds(g)
  BY <1>2 DEF CleanupEnds
<1>3. CASE MarkStopped(g)
  <2>1. generation = g /\ stage' = [stage EXCEPT ![g] = "close"] /\ stage[g] = "mark"
    BY <1>3 DEF MarkStopped
  <2>2. running' = FALSE /\ cancel' = None
    BY <1>3, <2>1 DEF MarkStopped
  <2>3. UNCHANGED <<done, generation, live, ctxDone, cfgOf, pc, arg>>
    BY <1>3 DEF MarkStopped
  <2>4. \A h \in Gens : ~Unmarked(h)'
    BY <2>1
  <2>5. TypeOK'
    <3>1. running' \in BOOLEAN
      BY <2>2, Zenon
    <3>2. stage' \in [Gens -> {"unborn", "body", "onStop", "mark", "close", "closed"}]
      BY <2>1
    <3>3. QED
      BY <2>2, <2>3, <3>1, <3>2
  <2>6. Births' /\ RunsAreValid'
    BY <2>1, <2>3
  <2>7. OnlyLatest'
    BY <2>4
  <2>8. FieldsMatch' /\ NothingFromTheFuture'
    BY <2>2, <2>3
  <2>9. QED
    BY <2>5, <2>6, <2>7, <2>8
<1>4. CASE CloseDone(g)
  BY <1>4 DEF CloseDone
<1>5. QED
  BY <1>1, <1>2, <1>3, <1>4 DEF Run

LEMMA StutterPreserves == IInv /\ UNCHANGED vars => IInv'
BY DEF IInv, TypeOK, Births, OnlyLatest, FieldsMatch, NothingFromTheFuture,
       RunsAreValid, Unmarked, Gens, vars, fields

LEMMA NextPreserves == IInv /\ [Next]_vars => IInv'
<1> SUFFICES ASSUME IInv, [Next]_vars
             PROVE  IInv'
  OBVIOUS
<1>1. CASE UNCHANGED vars
  BY <1>1, StutterPreserves
<1>2. ASSUME NEW c \in Callers, Call(c)
      PROVE  IInv'
  BY <1>2, CallsPreserve, StartPreserves DEF Call
<1>3. ASSUME NEW g \in Gens, Run(g)
      PROVE  IInv'
  BY <1>3, RunPreserves
<1>4. QED
  BY <1>1, <1>2, <1>3 DEF Next

\* The invariant holds in every reachable state of lifecycle.go's protocol.
THEOREM Invariance == SafeSpec => []IInv
BY InitIInv, NextPreserves, PTL DEF SafeSpec

-----------------------------------------------------------------------------
\* The fields of the struct keep their types whatever the callers do.
THEOREM TypeCorrect == SafeSpec => []TypeOK
<1>1. IInv => TypeOK
  BY DEF IInv
<1>2. QED
  BY <1>1, Invariance, PTL

\* Two runs of one runner never execute at once.
THEOREM OneRunAtATime == SafeSpec => []OneRun
<1>1. IInv => OneRun
  BY DEF IInv, OnlyLatest, OneRun
<1>2. QED
  BY <1>1, Invariance, PTL

\* Running() and Stop() always refer to the run that is really in progress.
THEOREM RunningTracksTheRun == SafeSpec => []RunningIsLatest
<1>1. IInv => RunningIsLatest
  BY LifecycleAssumption
     DEF IInv, TypeOK, OnlyLatest, FieldsMatch, RunningIsLatest, Gens
<1>2. QED
  BY <1>1, Invariance, PTL

\* A run starts from a configuration that was validated.
THEOREM StartedRunsAreValid == SafeSpec => []RunsAreValid
<1>1. IInv => RunsAreValid
  BY DEF IInv
<1>2. QED
  BY <1>1, Invariance, PTL

\* Wait returns only when the run it waited for and all earlier ones are over.
THEOREM WaitIsSound == SafeSpec => WaitMeansOver
<1>1. ASSUME IInv, [Next]_vars, NEW c \in Callers, pc[c] = "waiting", pc'[c] = "idle",
             NEW g \in 1 .. arg[c]
      PROVE  stage[g] \in {"close", "closed"}
  <2>1. arg[c] \in 1 .. generation /\ arg[c] \in Gens /\ g \in Gens /\ generation \in Nat
    BY <1>1, LifecycleAssumption DEF IInv, NothingFromTheFuture, TypeOK, Gens
  <2>2. stage[arg[c]] = "closed"
    <3>1. CASE UNCHANGED vars
      BY <1>1, <3>1 DEF vars
    <3>2. ASSUME NEW d \in Callers, Call(d)
          PROVE  stage[arg[c]] = "closed"
      BY <1>1, <3>2
         DEF Call, UpdateSettings, Start, MayStart, NextGeneration, StopRead, StopCancel, WaitRead, WaitReturn, IInv, TypeOK
    <3>3. ASSUME NEW h \in Gens, Run(h)
          PROVE  stage[arg[c]] = "closed"
      BY <1>1, <3>3 DEF Run, BodyEnds, CleanupEnds, MarkStopped, CloseDone
    <3>4. QED
      BY <1>1, <3>1, <3>2, <3>3 DEF Next
  <2>3. ~Unmarked(g)
    <3>1. SUFFICES ASSUME Unmarked(g) PROVE FALSE
      OBVIOUS
    <3>2. g = generation
      BY <1>1, <2>1, <3>1 DEF IInv, OnlyLatest
    <3>3. g = arg[c]
      BY <2>1, <3>2
    <3>4. QED
      BY <2>2, <3>1, <3>3 DEF Unmarked
  <2>4. stage[g] # "unborn"
    BY <1>1, <2>1 DEF IInv, Births
  <2>5. QED
    BY <1>1, <2>1, <2>3, <2>4 DEF IInv, TypeOK, Unmarked
<1>2. IInv /\ [Next]_vars =>
        [\A c \in Callers : pc[c] = "waiting" /\ pc'[c] = "idle" =>
           \A g \in 1 .. arg[c] : stage[g] \in {"close", "closed"}]_vars
  BY <1>1
<1>3. QED
  BY <1>2, Invariance, PTL DEF SafeSpec, WaitMeansOver

-----------------------------------------------------------------------------
(***************************************************************************)
(* Step simulation: every step of the Lifecycle is a step of the contract, *)
(* or leaves what the contract sees unchanged.  Only Start, the cancelling *)
(* of a run in progress and MarkStopped are visible.                       *)
(***************************************************************************)
LEMMA InitMaps == Init => Contract!Init
BY DEF Init, Contract!Init

LEMMA StepMaps == IInv /\ [Next]_vars => [Contract!Next]_(Contract!cvars)
<1> SUFFICES ASSUME IInv, [Next]_vars
             PROVE  [Contract!Next]_(Contract!cvars)
  OBVIOUS
<1> USE LifecycleAssumption
        DEF IInv, TypeOK, OnlyLatest, NothingFromTheFuture, FieldsMatch, Unmarked, Gens,
            Contract!Next, Contract!cvars, Contract!Begin, Contract!Request, Contract!Finish
<1>1. CASE UNCHANGED vars
  BY <1>1 DEF vars, fields
<1>2. ASSUME NEW c \in Callers, Start(c)
      PROVE  [Contract!Next]_(Contract!cvars)
  <2>1. generation + 1 \notin ctxDone
    OBVIOUS
  <2>2. Contract!Begin
    BY <1>2, <2>1 DEF Start, MayStart, NextGeneration
  <2>3. QED
    BY <2>2
<1>3. ASSUME NEW c \in Callers, StopCancel(c)
      PROVE  [Contract!Next]_(Contract!cvars)
  BY <1>3 DEF StopCancel, fields
<1>4. ASSUME NEW c \in Callers,
             (\E cfg \in Configs : UpdateSettings(c, cfg)) \/ StopRead(c) \/ WaitRead(c) \/ WaitReturn(c)
      PROVE  [Contract!Next]_(Contract!cvars)
  BY <1>4 DEF UpdateSettings, StopRead, WaitRead, WaitReturn, fields
<1>5. ASSUME NEW g \in Gens, Run(g)
      PROVE  [Contract!Next]_(Contract!cvars)
  <2>1. CASE MarkStopped(g)
    <3>1. running /\ generation = g
      BY <2>1 DEF MarkStopped, Advance
    <3>2. Contract!Finish
      BY <2>1, <3>1 DEF MarkStopped, Advance
    <3>3. QED
      BY <3>2
  <2>2. CASE BodyEnds(g) \/ CleanupEnds(g) \/ CloseDone(g)
    BY <2>2 DEF BodyEnds, CleanupEnds, CloseDone, fields
  <2>3. QED
    BY <1>5, <2>1, <2>2 DEF Run
<1>6. QED
  BY <1>1, <1>2, <1>3, <1>4, <1>5 DEF Next, Call

\* lifecycle.go implements the safety part of the contract, for any callers.
THEOREM Implements == SafeSpec => Contract!SafeSpec
BY InitMaps, StepMaps, Invariance, PTL DEF SafeSpec, Contract!SafeSpec
=============================================================================
