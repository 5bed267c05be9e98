------------------------ MODULE ViiperSessionProofs ------------------------
(***************************************************************************)
(* Proofs about ViiperSession for any number of runners, closers and keys. *)
(***************************************************************************)
EXTENDS ViiperSession, TLAPS

\* actionMu is owned exactly by the goroutine that is in its action.
OwnerActs == \A a \in Actors : InAction(a) <=> actionMu = a

Reading == {"checkClosed", "lock", "runlock", "unlock"} \cup Writing

\* A runner holds stateMu for reading from RLock to RUnlock.
ReadersRead == \A r \in Runners : r \in readers <=> pc[r] \in Reading

\* Steps of Close before and after closed is set.
Draining == {"wlock", "drain"}
Closing == {"lock", "unlock", "shutKeyboard", "shutMouse", "cleanup"} \cup Writing

\* One closer at most is at work, and closed is set once nobody reads.
ClosersClose ==
  /\ \A r \in Runners : pc[r] \in Reading \cup {"idle", "rlock"}
  /\ \A c \in Closers : pc[c] \in Draining \cup Closing \cup {"idle", "awaitOnce"}
  /\ \A c \in Closers : pc[c] \in Draining \cup Closing => once = "running" /\ op[c] = "close"
  /\ \A c, d \in Closers :
       pc[c] \in Draining \cup Closing /\ pc[d] \in Draining \cup Closing => c = d
  /\ \A c \in Closers : pc[c] \in Draining => ~closed
  /\ \A c \in Closers : pc[c] \in Closing => closed
  /\ once = "fresh" => ~closed
  /\ closed => \A r \in Runners : pc[r] \in {"checkClosed", "runlock", "idle", "rlock"}

\* The streams stay open until the closing goroutine has left its action.
StreamsOpen ==
  /\ ~closed => open = Streams
  /\ \A c \in Closers : pc[c] \in {"lock", "unlock", "shutKeyboard"} \cup Writing => open = Streams

\* What a call in progress is: its writes follow its operation.
CallsMatch ==
  /\ \A r \in Runners : pc[r] # "idle" => op[r] \in {"reset", "tap", "click"}
  /\ \A a \in Actors : pc[a] = "keyDown" => op[a] \in {"tap", "click"}
  /\ \A a \in Actors : pc[a] = "mouseDown" => op[a] = "click"
  /\ \A a \in Actors : pc[a] = "mouseUp" => op[a] \in {"click", "reset", "close"}

IInv == TypeOK /\ OwnerActs /\ ReadersRead /\ ClosersClose /\ StreamsOpen /\ CallsMatch

KeyClean == held # NoKey => "keyboard" \in unreleased
ButtonClean == button => "mouse" \in unreleased

\* Where the writes of the action in progress may have left something down.
KeyInUse(a) == pc[a] \in {"keyUp", "mouseDown"} \/ (pc[a] = "mouseUp" /\ op[a] = "click")
ButtonInUse(a) == pc[a] = "mouseUp" /\ op[a] = "click"

DeviceInv ==
  /\ KeyClean \/ \E a \in Actors : KeyInUse(a)
  /\ ButtonClean \/ \E a \in Actors : ButtonInUse(a)

-----------------------------------------------------------------------------
LEMMA InitIInv == Init => IInv /\ DeviceInv
<1> USE SessionAssumption
<1>1. Init => TypeOK
  BY DEF Init, TypeOK, Writing, Streams, Actors
<1>2. Init => OwnerActs /\ ReadersRead /\ ClosersClose /\ StreamsOpen /\ CallsMatch
  BY DEF Init, OwnerActs, ReadersRead, ClosersClose, StreamsOpen, CallsMatch, InAction,
         Writing, Reading, Draining, Closing, Actors
<1>3. Init => DeviceInv
  BY DEF Init, DeviceInv, KeyClean, ButtonClean
<1>4. QED
  BY <1>1, <1>2, <1>3 DEF IInv

LEMMA CallPreserves ==
  ASSUME IInv, NEW r \in Runners, \E o \in {"reset", "tap", "click"}, k \in Keys \cup {NoKey} : (o # "reset" => k \in Keys) /\ Call(r, o, k)
  PROVE  IInv'
<1> USE SessionAssumption DEF IInv, Call, Goto, shared, device
<1>1. TypeOK'
  BY DEF TypeOK, Writing, Streams, Actors
<1>2. OwnerActs'
  BY DEF TypeOK, OwnerActs, InAction, Writing, Actors, ClosersClose
<1>3. ReadersRead'
  BY DEF TypeOK, ReadersRead, Reading, Writing, Actors
<1>4. ClosersClose'
  BY DEF TypeOK, ClosersClose, ReadersRead, CallsMatch, Draining, Closing, Reading, Writing, Actors
<1>5. StreamsOpen'
  BY DEF TypeOK, StreamsOpen, ClosersClose, Draining, Closing, Reading, Writing, Streams, Actors
<1>6. CallsMatch'
  BY DEF TypeOK, CallsMatch, ClosersClose, Draining, Closing, Reading, Writing, Actors
<1>7. QED
  BY <1>1, <1>2, <1>3, <1>4, <1>5, <1>6

LEMMA EnterReadPreserves ==
  ASSUME IInv, NEW r \in Runners, EnterRead(r)
  PROVE  IInv'
<1> USE SessionAssumption DEF IInv, EnterRead, Goto, shared, device
<1>1. TypeOK'
  BY DEF TypeOK, Writing, Streams, Actors
<1>2. OwnerActs'
  BY DEF TypeOK, OwnerActs, InAction, Writing, Actors, ClosersClose
<1>3. ReadersRead'
  BY DEF TypeOK, ReadersRead, Reading, Writing, Actors
<1>4. ClosersClose'
  BY DEF TypeOK, ClosersClose, ReadersRead, CallsMatch, Draining, Closing, Reading, Writing, Actors
<1>5. StreamsOpen'
  BY DEF TypeOK, StreamsOpen, ClosersClose, Draining, Closing, Reading, Writing, Streams, Actors
<1>6. CallsMatch'
  BY DEF TypeOK, CallsMatch, ClosersClose, Draining, Closing, Reading, Writing, Actors
<1>7. QED
  BY <1>1, <1>2, <1>3, <1>4, <1>5, <1>6

LEMMA CheckClosedPreserves ==
  ASSUME IInv, NEW r \in Runners, CheckClosed(r)
  PROVE  IInv'
<1> USE SessionAssumption DEF IInv, CheckClosed, Goto, Fail, shared, device
<1>1. TypeOK'
  BY DEF TypeOK, Writing, Streams, Actors
<1>2. OwnerActs'
  BY DEF TypeOK, OwnerActs, InAction, Writing, Actors, ClosersClose
<1>3. ReadersRead'
  BY DEF TypeOK, ReadersRead, Reading, Writing, Actors
<1>4. ClosersClose'
  BY DEF TypeOK, ClosersClose, ReadersRead, CallsMatch, Draining, Closing, Reading, Writing, Actors
<1>5. StreamsOpen'
  BY DEF TypeOK, StreamsOpen, ClosersClose, Draining, Closing, Reading, Writing, Streams, Actors
<1>6. CallsMatch'
  BY DEF TypeOK, CallsMatch, ClosersClose, Draining, Closing, Reading, Writing, Actors
<1>7. QED
  BY <1>1, <1>2, <1>3, <1>4, <1>5, <1>6

LEMMA LeaveReadPreserves ==
  ASSUME IInv, NEW r \in Runners, LeaveRead(r)
  PROVE  IInv'
<1> USE SessionAssumption DEF IInv, LeaveRead, Goto, Return, shared, device
<1>1. TypeOK'
  BY DEF TypeOK, Writing, Streams, Actors
<1>2. OwnerActs'
  BY DEF TypeOK, OwnerActs, InAction, Writing, Actors, ClosersClose
<1>3. ReadersRead'
  BY DEF TypeOK, ReadersRead, Reading, Writing, Actors
<1>4. ClosersClose'
  BY DEF TypeOK, ClosersClose, ReadersRead, CallsMatch, Draining, Closing, Reading, Writing, Actors
<1>5. StreamsOpen'
  BY DEF TypeOK, StreamsOpen, ClosersClose, Draining, Closing, Reading, Writing, Streams, Actors
<1>6. CallsMatch'
  BY DEF TypeOK, CallsMatch, ClosersClose, Draining, Closing, Reading, Writing, Actors
<1>7. QED
  BY <1>1, <1>2, <1>3, <1>4, <1>5, <1>6

LEMMA KeyDownPreserves ==
  ASSUME IInv, NEW r \in Runners, KeyDown(r)
  PROVE  IInv'
<1> USE SessionAssumption DEF IInv, KeyDown, AfterKeyDown, PressKey, Goto, Fail, shared, device
<1>1. TypeOK'
  BY DEF TypeOK, Writing, Streams, Actors
<1>2. OwnerActs'
  BY DEF TypeOK, OwnerActs, InAction, Writing, Actors, ClosersClose
<1>3. ReadersRead'
  BY DEF TypeOK, ReadersRead, Reading, Writing, Actors
<1>4. ClosersClose'
  BY DEF TypeOK, ClosersClose, ReadersRead, CallsMatch, Draining, Closing, Reading, Writing, Actors
<1>5. StreamsOpen'
  BY DEF TypeOK, StreamsOpen, ClosersClose, Draining, Closing, Reading, Writing, Streams, Actors
<1>6. CallsMatch'
  BY DEF TypeOK, CallsMatch, ClosersClose, Draining, Closing, Reading, Writing, Actors
<1>7. QED
  BY <1>1, <1>2, <1>3, <1>4, <1>5, <1>6

LEMMA MouseDownPreserves ==
  ASSUME IInv, NEW r \in Runners, MouseDown(r)
  PROVE  IInv'
<1> USE SessionAssumption DEF IInv, MouseDown, PressButton, Goto, Fail, shared, device
<1>1. TypeOK'
  BY DEF TypeOK, Writing, Streams, Actors
<1>2. OwnerActs'
  BY DEF TypeOK, OwnerActs, InAction, Writing, Actors, ClosersClose
<1>3. ReadersRead'
  BY DEF TypeOK, ReadersRead, Reading, Writing, Actors
<1>4. ClosersClose'
  BY DEF TypeOK, ClosersClose, ReadersRead, CallsMatch, Draining, Closing, Reading, Writing, Actors
<1>5. StreamsOpen'
  BY DEF TypeOK, StreamsOpen, ClosersClose, Draining, Closing, Reading, Writing, Streams, Actors
<1>6. CallsMatch'
  BY DEF TypeOK, CallsMatch, ClosersClose, Draining, Closing, Reading, Writing, Actors
<1>7. QED
  BY <1>1, <1>2, <1>3, <1>4, <1>5, <1>6

LEMMA LockActionPreserves ==
  ASSUME IInv, NEW a \in Actors, LockAction(a)
  PROVE  IInv'
<1> USE SessionAssumption DEF IInv, LockAction, MayLock, FirstWrite, Goto, shared, device
<1>1. TypeOK'
  BY DEF TypeOK, Writing, Streams, Actors
<1>2. OwnerActs'
  BY DEF TypeOK, OwnerActs, InAction, Writing, Actors, ClosersClose
<1>3. ReadersRead'
  BY DEF TypeOK, ReadersRead, Reading, Writing, Actors
<1>4. ClosersClose'
  BY DEF TypeOK, ClosersClose, ReadersRead, CallsMatch, Draining, Closing, Reading, Writing, Actors
<1>5. StreamsOpen'
  BY DEF TypeOK, StreamsOpen, ClosersClose, Draining, Closing, Reading, Writing, Streams, Actors
<1>6. CallsMatch'
  BY DEF TypeOK, CallsMatch, ClosersClose, Draining, Closing, Reading, Writing, Actors
<1>7. QED
  BY <1>1, <1>2, <1>3, <1>4, <1>5, <1>6

LEMMA KeyUpPreserves ==
  ASSUME IInv, NEW a \in Actors, KeyUp(a)
  PROVE  IInv'
<1> USE SessionAssumption DEF IInv, KeyUp, ReleaseKey, Goto, Fail, shared, device
<1>1. TypeOK'
  <2>1. held' \in Keys \cup {NoKey} /\ button' \in BOOLEAN /\ unreleased' \subseteq Streams
    BY DEF TypeOK, Streams
  <2>2. failed' \in [Actors -> BOOLEAN]
    BY DEF TypeOK
  <2> HIDE DEF ReleaseKey, Fail
  <2>3. QED
    BY <2>1, <2>2 DEF TypeOK, Writing
<1>2. OwnerActs'
  BY DEF TypeOK, OwnerActs, InAction, Writing, Actors, ClosersClose
<1>3. ReadersRead'
  BY DEF TypeOK, ReadersRead, Reading, Writing, Actors
<1>4. ClosersClose'
  BY DEF TypeOK, ClosersClose, ReadersRead, CallsMatch, Draining, Closing, Reading, Writing, Actors
<1>5. StreamsOpen'
  BY DEF TypeOK, StreamsOpen, ClosersClose, Draining, Closing, Reading, Writing, Streams, Actors
<1>6. CallsMatch'
  BY DEF TypeOK, CallsMatch, ClosersClose, Draining, Closing, Reading, Writing, Actors
<1>7. QED
  BY <1>1, <1>2, <1>3, <1>4, <1>5, <1>6

LEMMA MouseUpPreserves ==
  ASSUME IInv, NEW a \in Actors, MouseUp(a)
  PROVE  IInv'
<1> USE SessionAssumption DEF IInv, MouseUp, ReleaseButton, Goto, Fail, shared, device
<1>1. TypeOK'
  <2>1. held' \in Keys \cup {NoKey} /\ button' \in BOOLEAN /\ unreleased' \subseteq Streams
    BY DEF TypeOK, Streams
  <2>2. failed' \in [Actors -> BOOLEAN]
    BY DEF TypeOK
  <2> HIDE DEF ReleaseButton, Fail
  <2>3. QED
    BY <2>1, <2>2 DEF TypeOK, Writing
<1>2. OwnerActs'
  BY DEF TypeOK, OwnerActs, InAction, Writing, Actors, ClosersClose
<1>3. ReadersRead'
  BY DEF TypeOK, ReadersRead, Reading, Writing, Actors
<1>4. ClosersClose'
  BY DEF TypeOK, ClosersClose, ReadersRead, CallsMatch, Draining, Closing, Reading, Writing, Actors
<1>5. StreamsOpen'
  BY DEF TypeOK, StreamsOpen, ClosersClose, Draining, Closing, Reading, Writing, Streams, Actors
<1>6. CallsMatch'
  BY DEF TypeOK, CallsMatch, ClosersClose, Draining, Closing, Reading, Writing, Actors
<1>7. QED
  BY <1>1, <1>2, <1>3, <1>4, <1>5, <1>6

LEMMA UnlockActionPreserves ==
  ASSUME IInv, NEW a \in Actors, UnlockAction(a)
  PROVE  IInv'
<1> USE SessionAssumption DEF IInv, UnlockAction, Goto, shared, device
<1>1. TypeOK'
  BY DEF TypeOK, Writing, Streams, Actors
<1>2. OwnerActs'
  BY DEF TypeOK, OwnerActs, InAction, Writing, Actors, ClosersClose
<1>3. ReadersRead'
  BY DEF TypeOK, ReadersRead, ClosersClose, CallsMatch, Draining, Closing, Reading, Writing, Actors
<1>4. ClosersClose'
  BY DEF TypeOK, ClosersClose, ReadersRead, CallsMatch, Draining, Closing, Reading, Writing, Actors
<1>5. StreamsOpen'
  BY DEF TypeOK, StreamsOpen, ClosersClose, Draining, Closing, Reading, Writing, Streams, Actors
<1>6. CallsMatch'
  BY DEF TypeOK, CallsMatch, ClosersClose, Draining, Closing, Reading, Writing, Actors
<1>7. QED
  BY <1>1, <1>2, <1>3, <1>4, <1>5, <1>6

LEMMA CallClosePreserves ==
  ASSUME IInv, NEW c \in Closers, CallClose(c)
  PROVE  IInv'
<1> USE SessionAssumption DEF IInv, CallClose, Goto, shared, device
<1>1. TypeOK'
  BY DEF TypeOK, Writing, Streams, Actors
<1>2. OwnerActs'
  BY DEF TypeOK, OwnerActs, InAction, Writing, Actors, ClosersClose
<1>3. ReadersRead'
  BY DEF TypeOK, ReadersRead, Reading, Writing, Actors
<1>4. ClosersClose'
  BY DEF TypeOK, ClosersClose, ReadersRead, CallsMatch, Draining, Closing, Reading, Writing, Actors
<1>5. StreamsOpen'
  BY DEF TypeOK, StreamsOpen, ClosersClose, Draining, Closing, Reading, Writing, Streams, Actors
<1>6. CallsMatch'
  BY DEF TypeOK, CallsMatch, ClosersClose, Draining, Closing, Reading, Writing, Actors
<1>7. QED
  BY <1>1, <1>2, <1>3, <1>4, <1>5, <1>6

LEMMA CloseAgainPreserves ==
  ASSUME IInv, NEW c \in Closers, CloseAgain(c) \/ CloseAgainReturns(c)
  PROVE  IInv'
<1> USE SessionAssumption DEF IInv, CloseAgain, CloseAgainReturns, Goto, shared, device
<1>1. TypeOK'
  BY DEF TypeOK, Writing, Streams, Actors
<1>2. OwnerActs'
  BY DEF TypeOK, OwnerActs, InAction, Writing, Actors, ClosersClose
<1>3. ReadersRead'
  BY DEF TypeOK, ReadersRead, Reading, Writing, Actors
<1>4. ClosersClose'
  BY DEF TypeOK, ClosersClose, ReadersRead, CallsMatch, Draining, Closing, Reading, Writing, Actors
<1>5. StreamsOpen'
  BY DEF TypeOK, StreamsOpen, ClosersClose, Draining, Closing, Reading, Writing, Streams, Actors
<1>6. CallsMatch'
  BY DEF TypeOK, CallsMatch, ClosersClose, Draining, Closing, Reading, Writing, Actors
<1>7. QED
  BY <1>1, <1>2, <1>3, <1>4, <1>5, <1>6

LEMMA AnnounceWriterPreserves ==
  ASSUME IInv, NEW c \in Closers, AnnounceWriter(c)
  PROVE  IInv'
<1> USE SessionAssumption DEF IInv, AnnounceWriter, Goto, shared, device
<1>1. TypeOK'
  BY DEF TypeOK, Writing, Streams, Actors
<1>2. OwnerActs'
  BY DEF TypeOK, OwnerActs, InAction, Writing, Actors, ClosersClose
<1>3. ReadersRead'
  BY DEF TypeOK, ReadersRead, Reading, Writing, Actors
<1>4. ClosersClose'
  BY DEF TypeOK, ClosersClose, ReadersRead, CallsMatch, Draining, Closing, Reading, Writing, Actors
<1>5. StreamsOpen'
  BY DEF TypeOK, StreamsOpen, ClosersClose, Draining, Closing, Reading, Writing, Streams, Actors
<1>6. CallsMatch'
  BY DEF TypeOK, CallsMatch, ClosersClose, Draining, Closing, Reading, Writing, Actors
<1>7. QED
  BY <1>1, <1>2, <1>3, <1>4, <1>5, <1>6

LEMMA MarkClosedPreserves ==
  ASSUME IInv, NEW c \in Closers, MarkClosed(c)
  PROVE  IInv'
<1> USE SessionAssumption DEF IInv, MarkClosed, Goto, shared, device
<1>1. TypeOK'
  BY DEF TypeOK, Writing, Streams, Actors
<1>2. OwnerActs'
  BY DEF TypeOK, OwnerActs, InAction, Writing, Actors, ClosersClose
<1>3. ReadersRead'
  BY DEF TypeOK, ReadersRead, Reading, Writing, Actors
<1>4. ClosersClose'
  BY DEF TypeOK, ClosersClose, ReadersRead, CallsMatch, Draining, Closing, Reading, Writing, Actors
<1>5. StreamsOpen'
  BY DEF TypeOK, StreamsOpen, ClosersClose, Draining, Closing, Reading, Writing, Streams, Actors
<1>6. CallsMatch'
  BY DEF TypeOK, CallsMatch, ClosersClose, Draining, Closing, Reading, Writing, Actors
<1>7. QED
  BY <1>1, <1>2, <1>3, <1>4, <1>5, <1>6

LEMMA ShutStreamPreserves ==
  ASSUME IInv, NEW c \in Closers, ShutStream(c)
  PROVE  IInv'
<1> USE SessionAssumption DEF IInv, ShutStream, Goto, shared, device
<1>1. TypeOK'
  BY DEF TypeOK, Writing, Streams, Actors
<1>2. OwnerActs'
  BY DEF TypeOK, OwnerActs, InAction, Writing, Actors, ClosersClose
<1>3. ReadersRead'
  BY DEF TypeOK, ReadersRead, Reading, Writing, Actors
<1>4. ClosersClose'
  BY DEF TypeOK, ClosersClose, ReadersRead, CallsMatch, Draining, Closing, Reading, Writing, Actors
<1>5. StreamsOpen'
  BY DEF TypeOK, StreamsOpen, ClosersClose, Draining, Closing, Reading, Writing, Streams, Actors
<1>6. CallsMatch'
  BY DEF TypeOK, CallsMatch, ClosersClose, Draining, Closing, Reading, Writing, Actors
<1>7. QED
  BY <1>1, <1>2, <1>3, <1>4, <1>5, <1>6

LEMMA CleanupPreserves ==
  ASSUME IInv, NEW c \in Closers, Cleanup(c)
  PROVE  IInv'
<1> USE SessionAssumption DEF IInv, Cleanup, Goto, Return, shared, device
<1>1. TypeOK'
  BY DEF TypeOK, Writing, Streams, Actors
<1>2. OwnerActs'
  BY DEF TypeOK, OwnerActs, InAction, Writing, Actors, ClosersClose
<1>3. ReadersRead'
  BY DEF TypeOK, ReadersRead, Reading, Writing, Actors
<1>4. ClosersClose'
  BY DEF TypeOK, ClosersClose, ReadersRead, CallsMatch, Draining, Closing, Reading, Writing, Actors
<1>5. StreamsOpen'
  BY DEF TypeOK, StreamsOpen, ClosersClose, Draining, Closing, Reading, Writing, Streams, Actors
<1>6. CallsMatch'
  BY DEF TypeOK, CallsMatch, ClosersClose, Draining, Closing, Reading, Writing, Actors
<1>7. QED
  BY <1>1, <1>2, <1>3, <1>4, <1>5, <1>6

\* The keys a runner taps are keys.
LEMMA BoundKeys == \A r \in Runners : \A k \in KeysOf[r] : k \in Keys
BY SessionAssumption

\* Every step of the session keeps the inductive invariant.
LEMMA NextPreserves == IInv /\ [Next]_vars => IInv'
<1> SUFFICES ASSUME IInv, [Next]_vars
             PROVE  IInv'
  OBVIOUS
<1>1. CASE UNCHANGED vars
  BY <1>1 DEF IInv, TypeOK, OwnerActs, ReadersRead, ClosersClose, StreamsOpen, CallsMatch,
              InAction, vars, shared, device, local
<1>2. ASSUME NEW r \in Runners,
             RunnerStep(r) \/ Call(r, "reset", NoKey) \/ \E k \in Keys : Call(r, "tap", k) \/ Call(r, "click", k)
      PROVE  IInv'
  BY <1>2, CallPreserves, EnterReadPreserves, CheckClosedPreserves, KeyDownPreserves,
     MouseDownPreserves, LeaveReadPreserves DEF RunnerStep
<1>3. ASSUME NEW c \in Closers, CloserStep(c) \/ CallClose(c) \/ CloseAgain(c)
      PROVE  IInv'
  BY <1>3, CallClosePreserves, CloseAgainPreserves, AnnounceWriterPreserves,
     MarkClosedPreserves, ShutStreamPreserves, CleanupPreserves DEF CloserStep
<1>4. ASSUME NEW a \in Actors, ActionStep(a) \/ LockAction(a)
      PROVE  IInv'
  BY <1>4, KeyUpPreserves, MouseUpPreserves, UnlockActionPreserves, LockActionPreserves
     DEF ActionStep
<1>5. QED
  BY <1>1, <1>2, <1>3, <1>4, BoundKeys DEF Next

-----------------------------------------------------------------------------
(***************************************************************************)
(* What the game sees changes only by the writes of the one goroutine in   *)
(* its action.                                                             *)
(***************************************************************************)
LEMMA WritesKeepDeviceInv ==
  ASSUME IInv, DeviceInv, NEW a \in Actors,
         (a \in Runners /\ (KeyDown(a) \/ MouseDown(a))) \/ KeyUp(a) \/ MouseUp(a)
  PROVE  DeviceInv'
<1> USE SessionAssumption DEF IInv, TypeOK, Streams, Actors
<1>1. \A b \in Actors : KeyInUse(b) \/ ButtonInUse(b) => b = a
  BY DEF KeyDown, AfterKeyDown, MouseDown, KeyUp, MouseUp, OwnerActs, InAction, Writing, KeyInUse, ButtonInUse
<1>2. CASE a \in Runners /\ KeyDown(a)
  <2>1. KeyInUse(a)'
    BY <1>2 DEF KeyDown, AfterKeyDown, Goto, KeyInUse
  <2>2. ButtonClean'
    BY <1>1, <1>2 DEF DeviceInv, KeyDown, AfterKeyDown, PressKey, ButtonClean, ButtonInUse
  <2>3. QED
    BY <2>1, <2>2 DEF DeviceInv
<1>3. CASE a \in Runners /\ MouseDown(a)
  <2>1. op[a] = "click"
    BY <1>3 DEF MouseDown, CallsMatch
  <2>2. KeyInUse(a)' /\ ButtonInUse(a)'
    BY <1>3, <2>1 DEF MouseDown, Goto, KeyInUse, ButtonInUse
  <2>3. QED
    BY <2>2 DEF DeviceInv
<1>4. CASE KeyUp(a)
  <2>1. KeyClean'
    BY <1>4 DEF KeyUp, ReleaseKey, KeyClean
  <2>2. ButtonClean'
    BY <1>1, <1>4 DEF DeviceInv, KeyUp, ReleaseKey, ButtonClean, ButtonInUse
  <2>3. QED
    BY <2>1, <2>2 DEF DeviceInv
<1>5. CASE MouseUp(a)
  <2>1. ButtonClean'
    BY <1>5 DEF MouseUp, ReleaseButton, ButtonClean
  <2>2. CASE op[a] = "click"
    <3>1. KeyInUse(a)'
      BY <1>5, <2>2 DEF MouseUp, Goto, KeyInUse
    <3>2. QED
      BY <2>1, <3>1 DEF DeviceInv
  <2>3. CASE op[a] # "click"
    <3>1. KeyClean
      BY <1>1, <1>5, <2>3 DEF DeviceInv, MouseUp, KeyInUse
    <3>2. KeyClean'
      BY <1>5, <3>1 DEF MouseUp, ReleaseButton, KeyClean
    <3>3. QED
      BY <2>1, <3>2 DEF DeviceInv
  <2>4. QED
    BY <2>2, <2>3
<1>6. QED
  BY <1>2, <1>3, <1>4, <1>5

\* Every other step leaves the device alone, and a goroutine whose call may
\* have left something down is not the one that moves.
LEMMA OthersKeepDeviceInv ==
  ASSUME IInv, DeviceInv, UNCHANGED device, NEW a \in Actors, pc[a] \notin Writing,
         \A b \in Actors \ {a} : pc'[b] = pc[b] /\ op'[b] = op[b]
  PROVE  DeviceInv'
<1>1. \A b \in Actors : KeyInUse(b) => KeyInUse(b)'
  BY DEF KeyInUse, Writing
<1>2. \A b \in Actors : ButtonInUse(b) => ButtonInUse(b)'
  BY DEF ButtonInUse, Writing
<1>3. QED
  BY <1>1, <1>2 DEF DeviceInv, KeyClean, ButtonClean, device

LEMMA NextKeepsDeviceInv == IInv /\ DeviceInv /\ [Next]_vars => DeviceInv'
<1> SUFFICES ASSUME IInv, DeviceInv, [Next]_vars
             PROVE  DeviceInv'
  OBVIOUS
<1> USE DEF IInv, TypeOK
<1>1. CASE UNCHANGED vars
  BY <1>1 DEF DeviceInv, KeyClean, ButtonClean, KeyInUse, ButtonInUse, vars, device, local
<1>2. ASSUME NEW r \in Runners,
             RunnerStep(r) \/ Call(r, "reset", NoKey) \/ \E k \in Keys : Call(r, "tap", k) \/ Call(r, "click", k)
      PROVE  DeviceInv'
  <2>1. r \in Actors
    BY DEF Actors
  <2>2. CASE KeyDown(r) \/ MouseDown(r)
    BY <2>1, <2>2, WritesKeepDeviceInv
  <2>3. CASE ~(KeyDown(r) \/ MouseDown(r))
    <3>1. /\ UNCHANGED device
          /\ pc[r] \notin Writing
          /\ \A b \in Actors \ {r} : pc'[b] = pc[b] /\ op'[b] = op[b]
      BY <1>2, <2>3
         DEF RunnerStep, Call, EnterRead, CheckClosed, LeaveRead, Goto, Return, Writing
    <3>2. QED
      BY <2>1, <3>1, OthersKeepDeviceInv DEF IInv
  <2>4. QED
    BY <2>2, <2>3
<1>3. ASSUME NEW c \in Closers, CloserStep(c) \/ CallClose(c) \/ CloseAgain(c)
      PROVE  DeviceInv'
  <2>1. c \in Actors
    BY DEF Actors
  <2>2. /\ UNCHANGED device
        /\ pc[c] \notin Writing
        /\ \A b \in Actors \ {c} : pc'[b] = pc[b] /\ op'[b] = op[b]
    BY <1>3 DEF CloserStep, CallClose, CloseAgain, CloseAgainReturns, AnnounceWriter, MarkClosed,
                ShutStream, Cleanup, Goto, Return, Writing
  <2>3. QED
    BY <2>1, <2>2, OthersKeepDeviceInv
<1>4. ASSUME NEW a \in Actors, ActionStep(a) \/ LockAction(a)
      PROVE  DeviceInv'
  <2>1. CASE KeyUp(a) \/ MouseUp(a)
    BY <2>1, WritesKeepDeviceInv
  <2>2. CASE UnlockAction(a) \/ LockAction(a)
    <3>1. /\ UNCHANGED device
          /\ pc[a] \notin Writing
          /\ \A b \in Actors \ {a} : pc'[b] = pc[b] /\ op'[b] = op[b]
      BY <2>2 DEF UnlockAction, LockAction, MayLock, Goto, Writing
    <3>2. QED
      BY <3>1, OthersKeepDeviceInv
  <2>3. QED
    BY <1>4, <2>1, <2>2 DEF ActionStep
<1>5. QED
  BY <1>1, <1>2, <1>3, <1>4, BoundKeys DEF Next

\* The two invariants hold in every reachable state of the session.
THEOREM Invariance == SafeSpec => [](IInv /\ DeviceInv)
BY InitIInv, NextPreserves, NextKeepsDeviceInv, PTL DEF SafeSpec

-----------------------------------------------------------------------------
\* The session's fields keep their types.
THEOREM TypeCorrect == SafeSpec => []TypeOK
<1>1. IInv => TypeOK
  BY DEF IInv
<1>2. QED
  BY <1>1, Invariance, PTL

\* One goroutine at a time writes to the virtual devices.
THEOREM Serialization == SafeSpec => []ActionsAreSerial
<1>1. IInv => ActionsAreSerial
  BY DEF IInv, OwnerActs, ActionsAreSerial
<1>2. QED
  BY <1>1, Invariance, PTL

\* No write happens once Close has begun to close the streams.
THEOREM NoLateWrite == SafeSpec => []NoWriteAfterClose
<1>1. ASSUME IInv, NEW a \in Actors, InAction(a)
      PROVE  open = Streams
  <2>1. CASE a \in Runners
    <3>1. ~closed
      BY <1>1, <2>1 DEF IInv, ClosersClose, InAction, Writing
    <3>2. QED
      BY <1>1, <3>1 DEF IInv, StreamsOpen
  <2>2. CASE a \in Closers
    BY <1>1, <2>2 DEF IInv, StreamsOpen, InAction
  <2>3. QED
    BY <2>1, <2>2 DEF Actors
<1>2. IInv => NoWriteAfterClose
  BY <1>1 DEF NoWriteAfterClose
<1>3. QED
  BY <1>2, Invariance, PTL

\* Between actions only a device whose release failed can have anything down.
THEOREM ReleasedBetweenActions == SafeSpec => []NothingLeftDown
<1>1. ASSUME IInv, DeviceInv, actionMu = Nobody
      PROVE  KeyClean /\ ButtonClean
  <2>1. \A a \in Actors : ~InAction(a)
    BY <1>1, SessionAssumption DEF IInv, OwnerActs
  <2>2. \A a \in Actors : ~KeyInUse(a) /\ ~ButtonInUse(a)
    BY <2>1 DEF InAction, Writing, KeyInUse, ButtonInUse
  <2>3. QED
    BY <1>1, <2>2 DEF DeviceInv
<1>2. IInv /\ DeviceInv => NothingLeftDown
  BY <1>1 DEF NothingLeftDown, KeyClean, ButtonClean
<1>3. QED
  BY <1>2, Invariance, PTL

\* The button is pressed when it is up, or when an earlier release of it failed and
\* may have left it down: clickLocked does not try that release again
\* (viiper_input.go:65-74).
THEOREM ClicksAlternate == SafeSpec => []NoDoubleClick
<1>1. ASSUME IInv, DeviceInv, NEW r \in Runners, pc[r] = "mouseDown"
      PROVE  ButtonClean
  <2>1. r \in Actors /\ actionMu = r
    BY <1>1 DEF IInv, OwnerActs, InAction, Writing, Actors
  <2>2. \A a \in Actors : ~ButtonInUse(a)
    BY <1>1, <2>1 DEF IInv, OwnerActs, InAction, Writing, ButtonInUse
  <2>3. QED
    BY <1>1, <2>2 DEF DeviceInv
<1>2. IInv /\ DeviceInv => NoDoubleClick
  BY <1>1 DEF NoDoubleClick, ButtonClean
<1>3. QED
  BY <1>2, Invariance, PTL

-----------------------------------------------------------------------------
(***************************************************************************)
(* How far a tap or a click has come: while it has reported no error, what *)
(* it pressed is down exactly until it has released it.                    *)
(***************************************************************************)
WholeSoFar(r) ==
  /\ pc[r] # "idle" /\ op[r] \in {"tap", "click"} => key[r] \in Keys
  /\ pc[r] = "mouseDown" => held = key[r]
  /\ pc[r] = "keyUp" /\ op[r] = "click" /\ ~failed[r] => ~button /\ "mouse" \notin unreleased
  /\ pc[r] = "unlock" /\ op[r] \in {"tap", "click"} /\ ~failed[r] =>
       /\ held = NoKey /\ "keyboard" \notin unreleased
       /\ op[r] = "click" => ~button /\ "mouse" \notin unreleased

WholeInv == \A r \in Runners : WholeSoFar(r)

\* The calls that a goroutine other than b is in stay as they are.
OthersStay(b) ==
  \A a \in Actors \ {b} : pc'[a] = pc[a] /\ op'[a] = op[a] /\ key'[a] = key[a] /\ failed'[a] = failed[a]

\* A write belongs to the owner of actionMu, so no other tap or click is
\* under way when it happens.
LEMMA WritesKeepWholeInv ==
  ASSUME IInv, WholeInv, NEW a \in Actors,
         (a \in Runners /\ (KeyDown(a) \/ MouseDown(a))) \/ KeyUp(a) \/ MouseUp(a)
  PROVE  WholeInv'
<1> USE SessionAssumption DEF IInv
<1>1. pc[a] \in Writing /\ OthersStay(a)
  BY DEF KeyDown, MouseDown, KeyUp, MouseUp, Writing, OthersStay, Goto, Fail, TypeOK, Actors
<1>2. ASSUME NEW r \in Runners, r # a
      PROVE  WholeSoFar(r)'
  <2>1. ~InAction(r)
    BY <1>1, <1>2 DEF OwnerActs, InAction, Actors
  <2>2. ~InAction(r)' /\ (pc[r] # "idle" /\ op[r] \in {"tap", "click"} => key[r] \in Keys)
    BY <1>1, <1>2, <2>1 DEF OthersStay, InAction, Actors, WholeInv, WholeSoFar
  <2>3. pc'[r] = pc[r] /\ op'[r] = op[r] /\ key'[r] = key[r]
    BY <1>1, <1>2 DEF OthersStay, Actors
  <2>4. QED
    BY <2>2, <2>3 DEF WholeSoFar, InAction, Writing
<1>3. ASSUME a \in Runners
      PROVE  WholeSoFar(a)'
  <2>1. WholeSoFar(a) /\ op[a] \in {"reset", "tap", "click"}
    BY <1>1, <1>3 DEF WholeInv, CallsMatch, Writing
  <2>2. CASE KeyDown(a)
    BY <1>3, <2>1, <2>2 DEF KeyDown, AfterKeyDown, PressKey, Goto, Fail, CallsMatch, TypeOK, Actors, WholeSoFar
  <2>3. CASE MouseDown(a)
    BY <1>3, <2>1, <2>3 DEF MouseDown, PressButton, Goto, Fail, TypeOK, Actors, WholeSoFar
  <2>4. CASE KeyUp(a)
    <3>1. PICK ok \in BOOLEAN : ReleaseKey(ok) /\ Fail(a, op[a] \in {"tap", "click"} /\ ~ok)
      BY <2>4 DEF KeyUp
    <3>2. /\ pc[a] = "keyUp" /\ pc'[a] = IF op[a] \in {"reset", "close"} THEN "mouseUp" ELSE "unlock"
          /\ op'[a] = op[a] /\ key'[a] = key[a] /\ button' = button
          /\ failed'[a] = (failed[a] \/ (op[a] \in {"tap", "click"} /\ ~ok))
      BY <2>4, <3>1 DEF KeyUp, ReleaseKey, Goto, Fail, TypeOK
    <3>3. ok => held' = NoKey /\ unreleased' = unreleased \ {"keyboard"}
      BY <3>1 DEF ReleaseKey
    <3>4. "keyboard" # "mouse"
      OBVIOUS
    <3>5. QED
      BY <2>1, <3>2, <3>3, <3>4 DEF WholeSoFar
  <2>5. CASE MouseUp(a)
    BY <1>3, <2>1, <2>5 DEF MouseUp, ReleaseButton, Goto, Fail, TypeOK, Actors, WholeSoFar, CallsMatch
  <2>6. QED
    BY <2>2, <2>3, <2>4, <2>5
<1>4. QED
  BY <1>2, <1>3 DEF WholeInv

\* A step that writes nothing takes no call past a write.
LEMMA OthersKeepWholeInv ==
  ASSUME WholeInv, UNCHANGED device, NEW a \in Actors, OthersStay(a),
         a \in Runners =>
           /\ pc'[a] # "idle" /\ op'[a] \in {"tap", "click"} => key'[a] \in Keys
           /\ pc'[a] \notin {"mouseDown", "unlock"}
           /\ pc'[a] = "keyUp" => op'[a] # "click"
  PROVE  WholeInv'
<1>1. ASSUME NEW r \in Runners, r # a
      PROVE  WholeSoFar(r)'
  BY <1>1 DEF OthersStay, Actors, WholeInv, WholeSoFar, device
<1>2. a \in Runners => WholeSoFar(a)'
  BY DEF WholeSoFar
<1>3. QED
  BY <1>1, <1>2 DEF WholeInv

LEMMA NextKeepsWholeInv == IInv /\ WholeInv /\ [Next]_vars => WholeInv'
<1> SUFFICES ASSUME IInv, WholeInv, [Next]_vars
             PROVE  WholeInv'
  OBVIOUS
<1> USE SessionAssumption DEF IInv
<1>1. CASE UNCHANGED vars
  BY <1>1 DEF WholeInv, WholeSoFar, vars, device, local
<1>2. ASSUME NEW r \in Runners,
             RunnerStep(r) \/ Call(r, "reset", NoKey) \/ \E k \in Keys : Call(r, "tap", k) \/ Call(r, "click", k)
      PROVE  WholeInv'
  <2>1. r \in Actors
    BY DEF Actors
  <2>2. CASE KeyDown(r) \/ MouseDown(r)
    BY <2>1, <2>2, WritesKeepWholeInv
  <2>3. CASE ~(KeyDown(r) \/ MouseDown(r))
    <3>1. UNCHANGED device /\ OthersStay(r)
      BY <1>2, <2>3, <2>1
         DEF RunnerStep, Call, EnterRead, CheckClosed, LeaveRead, Goto, Return, Fail, OthersStay, TypeOK
    <3>2. /\ pc'[r] # "idle" /\ op'[r] \in {"tap", "click"} => key'[r] \in Keys
          /\ pc'[r] \notin {"mouseDown", "unlock", "keyUp"}
      BY <1>2, <2>3, <2>1
         DEF RunnerStep, Call, EnterRead, CheckClosed, LeaveRead, Goto, Return, TypeOK, WholeInv, WholeSoFar
    <3>3. QED
      BY <2>1, <3>1, <3>2, OthersKeepWholeInv
  <2>4. QED
    BY <2>2, <2>3
<1>3. ASSUME NEW c \in Closers, CloserStep(c) \/ CallClose(c) \/ CloseAgain(c)
      PROVE  WholeInv'
  <2>1. c \in Actors /\ c \notin Runners
    BY DEF Actors
  <2>2. UNCHANGED device /\ OthersStay(c)
    BY <1>3, <2>1
       DEF CloserStep, CallClose, CloseAgain, CloseAgainReturns, AnnounceWriter, MarkClosed,
           ShutStream, Cleanup, Goto, Return, OthersStay, TypeOK
  <2>3. QED
    BY <2>1, <2>2, OthersKeepWholeInv
<1>4. ASSUME NEW a \in Actors, ActionStep(a) \/ LockAction(a)
      PROVE  WholeInv'
  <2>1. CASE KeyUp(a) \/ MouseUp(a)
    BY <2>1, WritesKeepWholeInv
  <2>2. CASE UnlockAction(a) \/ LockAction(a)
    <3>1. UNCHANGED device /\ OthersStay(a)
      BY <2>2 DEF UnlockAction, LockAction, MayLock, Goto, OthersStay, TypeOK
    <3>2. a \in Runners =>
            /\ pc'[a] # "idle" /\ op'[a] \in {"tap", "click"} => key'[a] \in Keys
            /\ pc'[a] \notin {"mouseDown", "unlock"}
            /\ pc'[a] = "keyUp" => op'[a] # "click"
      BY <2>2 DEF UnlockAction, LockAction, MayLock, FirstWrite, Goto, TypeOK, WholeInv, WholeSoFar
    <3>3. QED
      BY <3>1, <3>2, OthersKeepWholeInv
  <2>3. QED
    BY <1>4, <2>1, <2>2 DEF ActionStep
<1>5. QED
  BY <1>1, <1>2, <1>3, <1>4, BoundKeys DEF Next

\* A click falls under its own key, and a tap or click that reports success
\* has every release it sent confirmed, whatever the other goroutines do.
THEOREM WholeTaps == SafeSpec => []TapsAreWhole
<1>1. Init => WholeInv
  BY DEF Init, WholeInv, WholeSoFar, Actors
<1>2. ASSUME IInv, WholeInv
      PROVE  TapsAreWhole
  BY <1>2, SessionAssumption DEF IInv, CallsMatch, WholeInv, WholeSoFar, TapsAreWhole, Actors
<1>3. QED
  BY <1>1, <1>2, InitIInv, NextPreserves, NextKeepsWholeInv, PTL DEF SafeSpec
=============================================================================
