--------------------------- MODULE KeyChainProofs ---------------------------
(***************************************************************************)
(* Proofs about PhysicalKeyboard and KeyChain.  First about the keyboard,  *)
(* for any keyboards, handles and keys, any bound on what the user does,   *)
(* and a client that swallows and types what it likes; then the loop is    *)
(* one of these clients, and it gives back what it takes.                  *)
(***************************************************************************)
EXTENDS KeyChain, TLAPS

-----------------------------------------------------------------------------
(* The keyboard, with any client *)


\* rawQ says nothing of h from position a up to position b - 1.
SilentOn(h, a, b) == \A n \in a .. b - 1 : rawQ[n].handle # h

\* Once the first n - 1 messages are read, the map does not know h: either a
\* removal of h is the last of them about h, or none is and the map forgot h.
Forgotten(h, n) ==
  \/ \E r \in 1 .. n - 1 :
       rawQ[r].handle = h /\ rawQ[r].kind = "removal" /\ SilentOn(h, r + 1, n)
  \/ keyboard[h] = Unknown /\ SilentOn(h, 1, n)

\* An arrival finds no entry for its handle, so addDevice never takes away the
\* last handle of a keyboard that holds a key.
ArrivalsAreNews ==
  \A h \in Handles, n \in 1 .. Len(rawQ) :
    rawQ[n].handle = h /\ rawQ[n].kind = "arrival" => Forgotten(h, n)

GoneIsForgotten ==
  \A h \in Handles \ plugged, n \in Nat : n = Len(rawQ) + 1 => Forgotten(h, n)

IInv == KbTypeOK /\ ArrivalsAreNews /\ GoneIsForgotten /\ HoldHasHandle

-----------------------------------------------------------------------------
\* A message that is appended is seen by nobody yet.
LEMMA AppendKeepsForgotten ==
  ASSUME NEW m \in Messages, rawQ \in Seq(Messages),
         rawQ' = Append(rawQ, m), keyboard' = keyboard,
         NEW h \in Handles, NEW n \in 1 .. Len(rawQ) + 1, Forgotten(h, n)
  PROVE  Forgotten(h, n)'
<1>1. \A i \in 1 .. Len(rawQ) : rawQ'[i] = rawQ[i]
  OBVIOUS
<1>2. CASE \E r \in 1 .. n - 1 :
             rawQ[r].handle = h /\ rawQ[r].kind = "removal" /\ SilentOn(h, r + 1, n)
  <2>1. PICK r \in 1 .. n - 1 :
          rawQ[r].handle = h /\ rawQ[r].kind = "removal" /\ SilentOn(h, r + 1, n)
    BY <1>2
  <2>2. rawQ'[r].handle = h /\ rawQ'[r].kind = "removal"
    BY <1>1, <2>1
  <2>3. SilentOn(h, r + 1, n)'
    BY <1>1, <2>1 DEF SilentOn
  <2> QED
    BY <2>2, <2>3 DEF Forgotten
<1>3. CASE keyboard[h] = Unknown /\ SilentOn(h, 1, n)
  BY <1>1, <1>3 DEF Forgotten, SilentOn
<1> QED
  BY <1>2, <1>3 DEF Forgotten

\* What is forgotten at the end of the queue stays so when the message that
\* follows is about another handle, or is the removal itself.
LEMMA AppendExtendsForgotten ==
  ASSUME NEW m \in Messages, rawQ \in Seq(Messages),
         rawQ' = Append(rawQ, m), keyboard' = keyboard,
         NEW h \in Handles, NEW n \in Nat, n = Len(rawQ) + 1,
         \/ m.handle = h /\ m.kind = "removal"
         \/ m.handle # h /\ Forgotten(h, n)
  PROVE  Forgotten(h, n + 1)'
<1>1. \A i \in 1 .. n - 1 : rawQ'[i] = rawQ[i]
  OBVIOUS
<1>2. rawQ'[n] = m
  OBVIOUS
<1>3. CASE m.handle = h /\ m.kind = "removal"
  <2>1. SilentOn(h, n + 1, n + 1)'
    BY DEF SilentOn
  <2>2. n \in 1 .. n + 1 - 1
    OBVIOUS
  <2> QED
    BY <1>2, <1>3, <2>1, <2>2 DEF Forgotten
<1>4. CASE m.handle # h /\ Forgotten(h, n)
  <2>1. CASE \E r \in 1 .. n - 1 :
               rawQ[r].handle = h /\ rawQ[r].kind = "removal" /\ SilentOn(h, r + 1, n)
    <3>1. PICK r \in 1 .. n - 1 :
            rawQ[r].handle = h /\ rawQ[r].kind = "removal" /\ SilentOn(h, r + 1, n)
      BY <2>1
    <3>2. rawQ'[r].handle = h /\ rawQ'[r].kind = "removal"
      BY <1>1, <3>1
    <3>3. SilentOn(h, r + 1, n + 1)'
      BY <1>1, <1>2, <1>4, <3>1 DEF SilentOn
    <3>4. r \in 1 .. n + 1 - 1
      OBVIOUS
    <3> QED
      BY <3>2, <3>3, <3>4 DEF Forgotten
  <2>2. CASE keyboard[h] = Unknown /\ SilentOn(h, 1, n)
    <3>1. SilentOn(h, 1, n + 1)'
      BY <1>1, <1>2, <1>4, <2>2 DEF SilentOn
    <3> QED
      BY <2>2, <3>1 DEF Forgotten
  <2> QED
    BY <1>4, <2>1, <2>2 DEF Forgotten
<1> QED
  BY <1>3, <1>4

\* Reading a message moves the queue by one; reading a removal is what makes
\* the map forget.
LEMMA TailKeepsForgotten ==
  ASSUME rawQ \in Seq(Messages), rawQ # <<>>, rawQ' = Tail(rawQ),
         \A g \in Handles : g # Head(rawQ).handle => keyboard'[g] = keyboard[g],
         Head(rawQ).kind = "removal" => keyboard'[Head(rawQ).handle] = Unknown,
         NEW h \in Handles, NEW n \in 1 .. Len(rawQ), Forgotten(h, n + 1)
  PROVE  Forgotten(h, n)'
<1>1. /\ \A i \in 1 .. Len(rawQ) - 1 : rawQ'[i] = rawQ[i + 1]
      /\ Head(rawQ) = rawQ[1]
      /\ Len(rawQ) \in Nat
  OBVIOUS
<1>2. CASE \E r \in 1 .. n + 1 - 1 :
             rawQ[r].handle = h /\ rawQ[r].kind = "removal" /\ SilentOn(h, r + 1, n + 1)
  <2>1. PICK r \in 1 .. n + 1 - 1 :
          rawQ[r].handle = h /\ rawQ[r].kind = "removal" /\ SilentOn(h, r + 1, n + 1)
    BY <1>2
  <2>2. CASE r = 1
    <3>1. keyboard'[h] = Unknown
      BY <1>1, <2>1, <2>2
    <3>2. SilentOn(h, 1, n)'
      BY <1>1, <2>1, <2>2 DEF SilentOn
    <3> QED
      BY <3>1, <3>2 DEF Forgotten
  <2>3. CASE r # 1
    <3>1. r - 1 \in 1 .. n - 1 /\ rawQ'[r - 1] = rawQ[r]
      BY <1>1, <2>3
    <3>2. SilentOn(h, r - 1 + 1, n)'
      BY <1>1, <2>1, <2>3 DEF SilentOn
    <3> QED
      BY <2>1, <3>1, <3>2 DEF Forgotten
  <2> QED
    BY <2>2, <2>3
<1>3. CASE keyboard[h] = Unknown /\ SilentOn(h, 1, n + 1)
  <2>1. rawQ[1].handle # h
    BY <1>3 DEF SilentOn
  <2>2. keyboard'[h] = Unknown
    BY <1>1, <1>3, <2>1
  <2>3. SilentOn(h, 1, n)'
    BY <1>1, <1>3 DEF SilentOn
  <2> QED
    BY <2>2, <2>3 DEF Forgotten
<1> QED
  BY <1>2, <1>3 DEF Forgotten
-----------------------------------------------------------------------------
\* The initial map is what Windows lists, and nothing is held or queued.
LEMMA InitIInv == KbInit => IInv
<1> SUFFICES ASSUME KbInit PROVE IInv
  OBVIOUS
<1> USE KeyboardAssumption
<1>1. KbTypeOK
  <2>1. plugged \subseteq Handles
    BY DEF KbInit
  <2>2. keyboard \in [Handles -> Boards \cup {Ignored, Unknown}]
    BY DEF KbInit
  <2>3. held \in [Keys -> Boards \cup {Hook, Nobody}]
    BY DEF KbInit
  <2>4. hookQ \in Seq(HookReports) /\ rawQ \in Seq(Messages)
    BY DEF KbInit
  <2>5. /\ swallowVKs \subseteq Keys /\ tappingVK \in Keys \cup {NoKey}
        /\ fingers \in [Boards -> SUBSET Keys] /\ events \in 0 .. MaxEvents
    BY DEF KbInit
  <2>6. ours \in BOOLEAN
    BY DEF KbInit
  <2> QED
    BY <2>1, <2>2, <2>3, <2>4, <2>5, <2>6 DEF KbTypeOK
<1>2. ArrivalsAreNews
  BY DEF KbInit, ArrivalsAreNews
<1>3. GoneIsForgotten
  BY DEF KbInit, GoneIsForgotten, Forgotten, SilentOn
<1>4. HoldHasHandle
  BY DEF KbInit, HoldHasHandle, Nobody
<1> QED
  BY <1>1, <1>2, <1>3, <1>4 DEF IInv

\* Steps that leave the map, the queue and the handles alone.
LEMMA QuietStep ==
  ASSUME IInv, UNCHANGED <<keyboard, rawQ, plugged>>
  PROVE  ArrivalsAreNews' /\ GoneIsForgotten'
BY DEF IInv, ArrivalsAreNews, GoneIsForgotten, Forgotten, SilentOn

\* Steps that append a message about a handle that exists, or the removal of
\* one, or the arrival of one that did not.
LEMMA AppendStep ==
  ASSUME IInv, NEW m \in Messages, rawQ' = Append(rawQ, m), keyboard' = keyboard,
         \/ m.kind = "key" /\ m.handle \in plugged /\ plugged' = plugged
         \/ m.kind = "removal" /\ plugged' = plugged \ {m.handle}
         \/ m.kind = "arrival" /\ m.handle \notin plugged /\ plugged' = plugged \cup {m.handle}
  PROVE  ArrivalsAreNews' /\ GoneIsForgotten'
<1>1. rawQ \in Seq(Messages)
  BY DEF IInv, KbTypeOK
<1>2. \A i \in 1 .. Len(rawQ) : rawQ'[i] = rawQ[i] /\ rawQ[i] \in Messages
  BY <1>1
<1>3. Len(rawQ) \in Nat /\ Len(rawQ') = Len(rawQ) + 1 /\ rawQ'[Len(rawQ) + 1] = m
  BY <1>1
<1>4. m.handle \in Handles
  BY DEF Messages
<1>5. ArrivalsAreNews'
  <2> SUFFICES ASSUME NEW h \in Handles, NEW n \in 1 .. Len(rawQ'),
                      rawQ'[n].handle = h, rawQ'[n].kind = "arrival"
               PROVE  Forgotten(h, n)'
    BY DEF ArrivalsAreNews
  <2>1. Forgotten(h, n)
    <3>1. CASE n \in 1 .. Len(rawQ)
      BY <1>2, <3>1 DEF IInv, ArrivalsAreNews
    <3>2. CASE n = Len(rawQ) + 1
      <4>1. h \notin plugged
        BY <1>3, <3>2
      <4> QED
        BY <3>2, <4>1 DEF IInv, GoneIsForgotten
    <3> QED
      BY <1>3, <3>1, <3>2
  <2> QED
    BY <1>1, <1>3, <2>1, AppendKeepsForgotten
<1>6. GoneIsForgotten'
  <2> SUFFICES ASSUME NEW h \in Handles, h \notin plugged', NEW n \in Nat, n = Len(rawQ')+ 1
               PROVE  Forgotten(h, n)'
    BY DEF GoneIsForgotten
  <2>1. n - 1 \in Nat /\ n - 1 = Len(rawQ) + 1 /\ n - 1 + 1 = n
    BY <1>3
  <2>2. \/ m.handle = h /\ m.kind = "removal"
        \/ m.handle # h /\ h \notin plugged
    OBVIOUS
  <2>3. h \notin plugged => Forgotten(h, n - 1)
    BY <2>1 DEF IInv, GoneIsForgotten
  <2>4. Forgotten(h, n - 1 + 1)'
    BY <1>1, <2>1, <2>2, <2>3, AppendExtendsForgotten
  <2> QED
    BY <2>1, <2>4
<1> QED
  BY <1>5, <1>6

\* Reading the head of the queue, which at most changes the entry of its handle.
LEMMA TailStep ==
  ASSUME IInv, rawQ # <<>>, rawQ' = Tail(rawQ), plugged' = plugged,
         \A g \in Handles : g # Head(rawQ).handle => keyboard'[g] = keyboard[g],
         Head(rawQ).kind = "removal" => keyboard'[Head(rawQ).handle] = Unknown
  PROVE  ArrivalsAreNews' /\ GoneIsForgotten'
<1>1. rawQ \in Seq(Messages)
  BY DEF IInv, KbTypeOK
<1>2. /\ Len(rawQ) \in Nat /\ Len(rawQ') = Len(rawQ) - 1
      /\ \A n \in 1 .. Len(rawQ') : n + 1 \in 1 .. Len(rawQ) /\ rawQ'[n] = rawQ[n + 1]
  BY <1>1
<1>3. ASSUME NEW h \in Handles, NEW n \in 1 .. Len(rawQ), Forgotten(h, n + 1)
      PROVE  Forgotten(h, n)'
  BY <1>1, <1>3, TailKeepsForgotten
<1>4. ArrivalsAreNews'
  <2> SUFFICES ASSUME NEW h \in Handles, NEW n \in 1 .. Len(rawQ'),
                      rawQ'[n].handle = h, rawQ'[n].kind = "arrival"
               PROVE  Forgotten(h, n)'
    BY DEF ArrivalsAreNews
  <2>1. n \in 1 .. Len(rawQ) /\ Forgotten(h, n + 1)
    BY <1>2 DEF IInv, ArrivalsAreNews
  <2> QED
    BY <1>3, <2>1
<1>5. GoneIsForgotten'
  <2> SUFFICES ASSUME NEW h \in Handles, h \notin plugged', NEW n \in Nat, n = Len(rawQ')+ 1
               PROVE  Forgotten(h, n)'
    BY DEF GoneIsForgotten
  <2>1. n \in 1 .. Len(rawQ) /\ n + 1 = Len(rawQ) + 1
    BY <1>1, <1>2
  <2>2. Forgotten(h, n + 1)
    BY <2>1 DEF IInv, GoneIsForgotten
  <2> QED
    BY <1>3, <2>1, <2>2
<1> QED
  BY <1>4, <1>5

-----------------------------------------------------------------------------
\* What a message of the keyboard thread's window does to the holds.
LEMMA WindowKeepsHolds ==
  ASSUME IInv, WindowSees
  PROVE  /\ keyboard' \in [Handles -> Boards \cup {Ignored, Unknown}]
         /\ held' \in [Keys -> Boards \cup {Hook, Nobody}]
         /\ HoldHasHandle'
         /\ \A g \in Handles : g # Head(rawQ).handle => keyboard'[g] = keyboard[g]
         /\ Head(rawQ).kind = "removal" => keyboard'[Head(rawQ).handle] = Unknown
<1> DEFINE m == Head(rawQ)
<1> USE KeyboardAssumption
<1>1. rawQ # <<>> /\ rawQ \in Seq(Messages)
  BY DEF IInv, KbTypeOK, WindowSees
<1>2. m \in Messages /\ m = rawQ[1] /\ 1 \in 1 .. Len(rawQ)
  BY <1>1
<1>3. m.handle \in Handles
  BY <1>2 DEF Messages
<1>4. /\ keyboard \in [Handles -> Boards \cup {Ignored, Unknown}]
      /\ held \in [Keys -> Boards \cup {Hook, Nobody}]
      /\ \A k \in Keys : held[k] \in Boards => \E g \in Handles : keyboard[g] = held[k]
  BY DEF IInv, KbTypeOK, HoldHasHandle, HasHandle
<1>5. Ignored \notin Boards /\ Unknown \notin Boards /\ Hook \notin Boards /\ Nobody \notin Boards
  BY DEF Ignored, Unknown, Hook, Nobody
<1>6. NameOf(m.handle) \in Boards \cup {Ignored}
  BY <1>3 DEF NameOf
<1> HIDE DEF m
<1>7. CASE m.kind = "key" /\ ApplyKey(m)
  <2>1. m.vk \in Keys /\ m.kind # "removal"
    BY <1>2, <1>7 DEF Messages
  <2> DEFINE b == IF keyboard[m.handle] = Unknown THEN NameOf(m.handle) ELSE keyboard[m.handle]
  <2>2. b \in Boards \cup {Ignored}
    BY <1>3, <1>4, <1>6
  <2>3. /\ keyboard' = [keyboard EXCEPT ![m.handle] = b]
        /\ held' = IF b = Ignored THEN held
                   ELSE IF m.down THEN Held(m.vk, b) ELSE Released(m.vk, b)
    BY <1>7 DEF ApplyKey
  <2>4. \A g \in Handles : keyboard[g] \in Boards => keyboard'[g] = keyboard[g]
    BY <1>3, <1>4, <1>5, <2>3
  <2>5. keyboard'[m.handle] = b
    BY <1>3, <1>4, <2>3
  <2> HIDE DEF b
  <2>6. \A k \in Keys : held'[k] = held[k] \/ held'[k] = Nobody \/ (held'[k] = b /\ b # Ignored)
    BY <1>4, <2>1, <2>3 DEF Held, Released
  <2>7. held' \in [Keys -> Boards \cup {Hook, Nobody}]
    BY <1>4, <2>1, <2>2, <2>3 DEF Held, Released
  <2>8. keyboard' \in [Handles -> Boards \cup {Ignored, Unknown}]
    BY <1>3, <1>4, <2>2, <2>3
  <2>9. HoldHasHandle'
    BY <1>3, <1>4, <1>5, <2>4, <2>5, <2>6 DEF HoldHasHandle, HasHandle
  <2> QED
    BY <1>4, <2>1, <2>3, <2>7, <2>8, <2>9 DEF m
<1>8. CASE m.kind = "arrival" /\ AddDevice(m.handle)
  <2>1. m.kind # "removal"
    BY <1>8
  <2>2. keyboard[m.handle] = Unknown
    <3>1. Forgotten(m.handle, 1)
      BY <1>2, <1>3, <1>8 DEF IInv, ArrivalsAreNews
    <3> QED
      BY <3>1 DEF Forgotten
  <2>3. keyboard' = [keyboard EXCEPT ![m.handle] = NameOf(m.handle)] /\ held' = held
    BY <1>8 DEF AddDevice
  <2>4. keyboard' \in [Handles -> Boards \cup {Ignored, Unknown}]
    BY <1>4, <1>6, <2>3
  <2>5. HoldHasHandle'
    BY <1>4, <1>5, <2>2, <2>3 DEF HoldHasHandle, HasHandle
  <2> QED
    BY <1>4, <2>1, <2>3, <2>4, <2>5 DEF m
<1>9. CASE m.kind = "removal" /\ RemoveDevice(m.handle)
  <2> DEFINE b == keyboard[m.handle]
             map == [keyboard EXCEPT ![m.handle] = Unknown]
  <2>1. /\ keyboard' = map
        /\ held' = IF b \in {Unknown, Ignored} \/ HasHandle(b, map) THEN held
                   ELSE [k \in Keys |-> IF held[k] = b THEN Nobody ELSE held[k]]
    BY <1>9 DEF RemoveDevice
  <2>2. /\ keyboard' \in [Handles -> Boards \cup {Ignored, Unknown}]
        /\ keyboard'[m.handle] = Unknown
        /\ \A g \in Handles : g # m.handle => keyboard'[g] = keyboard[g]
    BY <1>3, <1>4, <2>1
  <2>3. held' \in [Keys -> Boards \cup {Hook, Nobody}]
    BY <1>4, <2>1
  <2>4. HoldHasHandle'
    <3> SUFFICES ASSUME NEW k \in Keys, held'[k] \in Boards
                 PROVE  \E g \in Handles : keyboard'[g] = held'[k]
      BY DEF HoldHasHandle, HasHandle
    <3>1. held[k] = held'[k]
      BY <1>5, <2>1
    <3>2. CASE held[k] # b
      BY <1>4, <2>2, <3>1, <3>2
    <3>3. CASE held[k] = b
      <4>1. HasHandle(b, map)
        BY <1>4, <1>5, <2>1, <3>1, <3>3
      <4> QED
        BY <2>1, <3>1, <3>3, <4>1 DEF HasHandle
    <3> QED
      BY <3>2, <3>3
  <2> QED
    BY <2>2, <2>3, <2>4 DEF m
<1> QED
  BY <1>7, <1>8, <1>9 DEF WindowSees, m

\* A report of a keystroke is a message about a handle that exists.
LEMMA ReportStep ==
  ASSUME IInv, NEW h \in plugged, NEW k \in Keys, NEW d \in BOOLEAN,
         Report(h, k, d), keyboard' = keyboard, held' = held, plugged' = plugged
  PROVE  /\ ArrivalsAreNews' /\ GoneIsForgotten' /\ HoldHasHandle'
         /\ hookQ' \in Seq(HookReports) /\ rawQ' \in Seq(Messages)
<1> DEFINE m == Message("key", h, k, d)
<1>1. /\ m \in Messages /\ m.kind = "key" /\ m.handle = h
      /\ [vk |-> k, down |-> d] \in HookReports
  BY DEF Message, Messages, HookReports, IInv, KbTypeOK
<1>2. rawQ' = Append(rawQ, m) /\ hookQ' = Append(hookQ, [vk |-> k, down |-> d])
  BY DEF Report
<1> HIDE DEF m
<1>3. ArrivalsAreNews' /\ GoneIsForgotten'
  BY <1>1, <1>2, AppendStep
<1>4. HoldHasHandle'
  BY DEF IInv, HoldHasHandle, HasHandle
<1>5. hookQ' \in Seq(HookReports) /\ rawQ' \in Seq(Messages)
  BY <1>1, <1>2 DEF IInv, KbTypeOK
<1> QED
  BY <1>3, <1>4, <1>5

-----------------------------------------------------------------------------
\* Every step of the thread, the user and the client keeps the invariant.
LEMMA NextIInv == IInv /\ [KbNext]_kbVars => IInv'
<1> SUFFICES ASSUME IInv, [KbNext]_kbVars PROVE IInv'
  OBVIOUS
<1> USE KeyboardAssumption
<1>1. CASE HookSees
  <2> DEFINE e == Head(hookQ)
  <2>1. /\ UNCHANGED <<keyboard, swallowVKs, tappingVK, rawQ, fingers, plugged, ours, events>>
        /\ hookQ # <<>> /\ hookQ' = Tail(hookQ)
    BY <1>1 DEF HookSees, settings, world
  <2>2. hookQ' \in Seq(HookReports) /\ e \in HookReports
    BY <2>1 DEF IInv, KbTypeOK
  <2>3. e.vk \in Keys
    BY <2>2 DEF HookReports
  <2>4. held' \in [Keys -> Boards \cup {Hook, Nobody}]
    BY <1>1, <2>3 DEF HookSees, Held, IInv, KbTypeOK
  <2>5. \A k \in Keys : held'[k] \in {held[k], Hook, Nobody}
    BY <1>1, <2>3 DEF HookSees, Held, IInv, KbTypeOK
  <2>6. HoldHasHandle'
    BY <2>1, <2>5 DEF IInv, HoldHasHandle, HasHandle, Hook, Nobody
  <2>7. KbTypeOK'
    BY <2>1, <2>2, <2>4 DEF IInv, KbTypeOK
  <2> QED
    BY <2>1, <2>6, <2>7, QuietStep DEF IInv
<1>2. CASE WindowSees
  <2>1. /\ UNCHANGED <<swallowVKs, tappingVK, hookQ, fingers, plugged, ours, events>>
        /\ rawQ # <<>> /\ rawQ' = Tail(rawQ)
    BY <1>2 DEF WindowSees, settings, world
  <2>2. rawQ' \in Seq(Messages)
    BY <2>1 DEF IInv, KbTypeOK
  <2>3. KbTypeOK'
    BY <1>2, <2>1, <2>2, WindowKeepsHolds DEF IInv, KbTypeOK
  <2>4. ArrivalsAreNews' /\ GoneIsForgotten'
    BY <1>2, <2>1, WindowKeepsHolds, TailStep
  <2> QED
    BY <1>2, <2>3, <2>4, WindowKeepsHolds DEF IInv
<1>3. ASSUME NEW h \in Handles, NEW k \in Keys, Press(h, k) \/ Release(h, k)
      PROVE  IInv'
  <2>1. PICK d \in BOOLEAN : Report(h, k, d)
    BY <1>3 DEF Press, Release
  <2>2. /\ UNCHANGED <<keyboard, held, swallowVKs, tappingVK, plugged, ours>>
        /\ h \in plugged /\ events' = events + 1 /\ events < MaxEvents
    BY <1>3 DEF Press, Release, UserTouches, board, settings
  <2>3. fingers \in [Boards -> SUBSET Keys]
    BY DEF IInv, KbTypeOK
  <2>4. fingers' \in [Boards -> SUBSET Keys]
    <3>1. CASE Press(h, k)
      BY <2>3, <3>1 DEF Press
    <3>2. CASE Release(h, k)
      BY <2>3, <3>2 DEF Release
    <3> QED
      BY <1>3, <3>1, <3>2
  <2>5. /\ ArrivalsAreNews' /\ GoneIsForgotten' /\ HoldHasHandle'
        /\ hookQ' \in Seq(HookReports) /\ rawQ' \in Seq(Messages)
    BY <2>1, <2>2, ReportStep
  <2>6. KbTypeOK'
    BY <2>2, <2>4, <2>5 DEF IInv, KbTypeOK
  <2> QED
    BY <2>5, <2>6 DEF IInv
<1>4. ASSUME NEW h \in Handles, Plug(h) \/ Unplug(h)
      PROVE  IInv'
  <2>1. PICK kind \in {"arrival", "removal"} :
          /\ rawQ' = Append(rawQ, Message(kind, h, NoKey, FALSE))
          /\ kind = "arrival" => h \notin plugged /\ plugged' = plugged \cup {h}
          /\ kind = "removal" => plugged' = plugged \ {h}
    BY <1>4 DEF Plug, Unplug
  <2> DEFINE m == Message(kind, h, NoKey, FALSE)
  <2>2. m \in Messages /\ m.kind = kind /\ m.handle = h
    BY DEF Message, Messages
  <2>3. /\ UNCHANGED <<keyboard, held, swallowVKs, tappingVK, hookQ, ours>>
        /\ events' = events + 1 /\ events < MaxEvents
        /\ fingers' \in [Boards -> SUBSET Keys] /\ plugged' \subseteq Handles
    BY <1>4 DEF Plug, Unplug, UserTouches, board, settings, IInv, KbTypeOK
  <2> rawQ' = Append(rawQ, m)
    BY <2>1
  <2> HIDE DEF m
  <2>4. rawQ' \in Seq(Messages)
    BY <2>2 DEF IInv, KbTypeOK
  <2>5. ArrivalsAreNews' /\ GoneIsForgotten'
    BY <2>1, <2>2, <2>3, AppendStep
  <2>6. HoldHasHandle'
    BY <2>3 DEF IInv, HoldHasHandle, HasHandle
  <2>7. KbTypeOK'
    BY <2>3, <2>4 DEF IInv, KbTypeOK
  <2> QED
    BY <2>5, <2>6, <2>7 DEF IInv
<1>5. CASE SwitchWindow
  <2>1. /\ UNCHANGED <<keyboard, held, swallowVKs, tappingVK, hookQ, rawQ, fingers, plugged>>
        /\ events' = events + 1 /\ events < MaxEvents
    BY <1>5 DEF SwitchWindow, UserTouches, board, settings
  <2>2. ours' \in BOOLEAN
    BY <1>5 DEF SwitchWindow
  <2>3. HoldHasHandle'
    BY <2>1 DEF IInv, HoldHasHandle, HasHandle
  <2>4. KbTypeOK'
    BY <2>1, <2>2 DEF IInv, KbTypeOK
  <2> QED
    BY <2>1, <2>3, <2>4, QuietStep DEF IInv
<1>6. ASSUME NEW k \in Keys, NEW d \in BOOLEAN, ViiperTypes(k, d)
      PROVE  IInv'
  <2>1. PICK h \in plugged : Report(h, k, d)
    BY <1>6 DEF ViiperTypes
  <2>2. UNCHANGED <<keyboard, held, swallowVKs, tappingVK, fingers, plugged, ours, events>>
    BY <1>6 DEF ViiperTypes, board, settings, world
  <2>3. /\ ArrivalsAreNews' /\ GoneIsForgotten' /\ HoldHasHandle'
        /\ hookQ' \in Seq(HookReports) /\ rawQ' \in Seq(Messages)
    BY <2>1, <2>2, ReportStep
  <2>4. KbTypeOK'
    BY <2>2, <2>3 DEF IInv, KbTypeOK
  <2> QED
    BY <2>3, <2>4 DEF IInv
<1>7. ASSUME \/ \E vks \in SUBSET Keys : SwallowPhysicalKeys(vks)
             \/ \E vk \in Keys \cup {NoKey} : SetTappingVK(vk)
             \/ UNCHANGED kbVars
      PROVE  IInv'
  <2>1. /\ UNCHANGED <<keyboard, held, hookQ, rawQ, fingers, plugged, ours, events>>
        /\ swallowVKs' \subseteq Keys /\ tappingVK' \in Keys \cup {NoKey}
    BY <1>7 DEF SwallowPhysicalKeys, SetTappingVK, kbVars, board, settings, world, IInv, KbTypeOK
  <2>2. HoldHasHandle'
    BY <2>1 DEF IInv, HoldHasHandle, HasHandle
  <2>3. KbTypeOK'
    BY <2>1 DEF IInv, KbTypeOK
  <2> QED
    BY <2>1, <2>2, <2>3, QuietStep DEF IInv
<1> QED
  BY <1>1, <1>2, <1>3, <1>4, <1>5, <1>6, <1>7
     DEF KbNext, KeyboardThread, User, AnyClient

\* The invariant holds in every behaviour.
LEMMA Invariance == KbSpec => []IInv
BY InitIInv, NextIInv, PTL DEF KbSpec

\* Every state the board and the hook can reach with any client is well typed.
THEOREM KeyboardTypeCorrect == KbSpec => []KbTypeOK
<1>1. IInv => KbTypeOK
  BY DEF IInv
<1> QED
  BY <1>1, Invariance, PTL

\* A keyboard that holds a key has a handle in the map, through which the
\* release can arrive or the unplugging be noticed, whatever the client does.
THEOREM HoldsAreReleasable == KbSpec => []HoldHasHandle
<1>1. IInv => HoldHasHandle
  BY DEF IInv
<1> QED
  BY <1>1, Invariance, PTL

-----------------------------------------------------------------------------
(***************************************************************************)
(* Holds are real.  A handle is named when the window reads of it, so a    *)
(* handle that is gone by then has the wrong name for as long as the map   *)
(* keeps it; what follows needs that nobody pulls a handle out before the  *)
(* window has read of its arrival ("hasty" \notin Touches).                *)
(***************************************************************************)
\* No message from position a up to b - 1 removes h.
NoRemoval(h, a, b) == \A i \in a .. b - 1 : ~(rawQ[i].handle = h /\ rawQ[i].kind = "removal")

\* Once the first n - 1 messages are read, the map knows h.
Known(h, n) ==
  \/ \E r \in 1 .. n - 1 :
       rawQ[r].handle = h /\ rawQ[r].kind = "arrival" /\ NoRemoval(h, r + 1, n)
  \/ keyboard[h] # Unknown /\ NoRemoval(h, 1, n)

NamesRight ==
  /\ \A h \in Handles : keyboard[h] \in {BoardOf[h], Unknown}
  /\ \A n \in 1 .. Len(rawQ) : rawQ[n].kind = "arrival" => rawQ[n].handle \in plugged

KnownInUse ==
  /\ \A h \in plugged, n \in Nat : n = Len(rawQ) + 1 => Known(h, n)
  /\ \A h \in Handles, n \in 1 .. Len(rawQ) :
       rawQ[n].handle = h /\ rawQ[n].kind # "arrival" => Known(h, n)

\* Message n takes the hold of board b on k away: the release of k by one of
\* b's handles, or the removal of the last handle of b that the map then knows.
Ends(b, k, n) ==
  /\ BoardOf[rawQ[n].handle] = b
  /\ \/ rawQ[n].kind = "key" /\ ~rawQ[n].down /\ rawQ[n].vk = k
     \/ /\ rawQ[n].kind = "removal"
        /\ \A g \in Handles : g # rawQ[n].handle /\ BoardOf[g] = b => Forgotten(g, n)

Presses(b, k, n) ==
  /\ BoardOf[rawQ[n].handle] = b
  /\ rawQ[n].kind = "key" /\ rawQ[n].down /\ rawQ[n].vk = k

\* k is down on board b, or a message from position m on says that it is not.
DownOrEnds(b, k, m) == k \in fingers[b] \/ \E n \in m .. Len(rawQ) : Ends(b, k, n)

RealInv ==
  /\ NamesRight
  /\ KnownInUse
  /\ \A b \in Boards : fingers[b] # {} => \E h \in plugged : BoardOf[h] = b
  /\ \A b \in Boards, k \in Keys : held[k] = b => DownOrEnds(b, k, 1)
  /\ \A b \in Boards, k \in Keys, n \in 1 .. Len(rawQ) : Presses(b, k, n) => DownOrEnds(b, k, n + 1)

-----------------------------------------------------------------------------
\* What is known of a handle stays known when a message is appended.
LEMMA AppendKeepsKnown ==
  ASSUME NEW m \in Messages, rawQ \in Seq(Messages),
         rawQ' = Append(rawQ, m), keyboard' = keyboard,
         NEW h \in Handles, NEW n \in 1 .. Len(rawQ) + 1, Known(h, n)
  PROVE  Known(h, n)'
<1>1. \A i \in 1 .. Len(rawQ) : rawQ'[i] = rawQ[i]
  OBVIOUS
<1>2. CASE \E r \in 1 .. n - 1 :
             rawQ[r].handle = h /\ rawQ[r].kind = "arrival" /\ NoRemoval(h, r + 1, n)
  <2>1. PICK r \in 1 .. n - 1 :
          rawQ[r].handle = h /\ rawQ[r].kind = "arrival" /\ NoRemoval(h, r + 1, n)
    BY <1>2
  <2>2. rawQ'[r].handle = h /\ rawQ'[r].kind = "arrival"
    BY <1>1, <2>1
  <2>3. NoRemoval(h, r + 1, n)'
    BY <1>1, <2>1 DEF NoRemoval
  <2> QED
    BY <2>2, <2>3 DEF Known
<1>3. CASE keyboard[h] # Unknown /\ NoRemoval(h, 1, n)
  BY <1>1, <1>3 DEF Known, NoRemoval
<1> QED
  BY <1>2, <1>3 DEF Known

\* After an appended message that does not remove it, a handle is known if it
\* was, and an arrival makes it known.
LEMMA AppendExtendsKnown ==
  ASSUME NEW m \in Messages, rawQ \in Seq(Messages),
         rawQ' = Append(rawQ, m), keyboard' = keyboard,
         NEW h \in Handles, NEW n \in Nat, n = Len(rawQ) + 1,
         \/ m.handle = h /\ m.kind = "arrival"
         \/ ~(m.handle = h /\ m.kind = "removal") /\ Known(h, n)
  PROVE  Known(h, n + 1)'
<1>1. \A i \in 1 .. n - 1 : rawQ'[i] = rawQ[i]
  OBVIOUS
<1>2. rawQ'[n] = m
  OBVIOUS
<1>3. CASE m.handle = h /\ m.kind = "arrival"
  <2>1. NoRemoval(h, n + 1, n + 1)'
    BY DEF NoRemoval
  <2>2. n \in 1 .. n + 1 - 1
    OBVIOUS
  <2> QED
    BY <1>2, <1>3, <2>1, <2>2 DEF Known
<1>4. CASE ~(m.handle = h /\ m.kind = "removal") /\ Known(h, n)
  <2>1. CASE \E r \in 1 .. n - 1 :
               rawQ[r].handle = h /\ rawQ[r].kind = "arrival" /\ NoRemoval(h, r + 1, n)
    <3>1. PICK r \in 1 .. n - 1 :
            rawQ[r].handle = h /\ rawQ[r].kind = "arrival" /\ NoRemoval(h, r + 1, n)
      BY <2>1
    <3>2. rawQ'[r].handle = h /\ rawQ'[r].kind = "arrival"
      BY <1>1, <3>1
    <3>3. NoRemoval(h, r + 1, n + 1)'
      BY <1>1, <1>2, <1>4, <3>1 DEF NoRemoval
    <3>4. r \in 1 .. n + 1 - 1
      OBVIOUS
    <3> QED
      BY <3>2, <3>3, <3>4 DEF Known
  <2>2. CASE keyboard[h] # Unknown /\ NoRemoval(h, 1, n)
    <3>1. NoRemoval(h, 1, n + 1)'
      BY <1>1, <1>2, <1>4, <2>2 DEF NoRemoval
    <3> QED
      BY <2>2, <3>1 DEF Known
  <2> QED
    BY <1>4, <2>1, <2>2 DEF Known
<1> QED
  BY <1>3, <1>4

\* Reading moves the queue by one; reading an arrival is what makes the map know.
LEMMA TailKeepsKnown ==
  ASSUME rawQ \in Seq(Messages), rawQ # <<>>, rawQ' = Tail(rawQ),
         \A g \in Handles : keyboard[g] # Unknown /\ ~(Head(rawQ).handle = g /\ Head(rawQ).kind = "removal")
                              => keyboard'[g] # Unknown,
         Head(rawQ).kind = "arrival" => keyboard'[Head(rawQ).handle] # Unknown,
         NEW h \in Handles, NEW n \in 1 .. Len(rawQ), Known(h, n + 1)
  PROVE  Known(h, n)'
<1>1. /\ \A i \in 1 .. Len(rawQ) - 1 : rawQ'[i] = rawQ[i + 1]
      /\ Head(rawQ) = rawQ[1]
      /\ Len(rawQ) \in Nat
  OBVIOUS
<1>2. CASE \E r \in 1 .. n + 1 - 1 :
             rawQ[r].handle = h /\ rawQ[r].kind = "arrival" /\ NoRemoval(h, r + 1, n + 1)
  <2>1. PICK r \in 1 .. n + 1 - 1 :
          rawQ[r].handle = h /\ rawQ[r].kind = "arrival" /\ NoRemoval(h, r + 1, n + 1)
    BY <1>2
  <2>2. CASE r = 1
    <3>1. keyboard'[h] # Unknown
      BY <1>1, <2>1, <2>2
    <3>2. NoRemoval(h, 1, n)'
      BY <1>1, <2>1, <2>2 DEF NoRemoval
    <3> QED
      BY <3>1, <3>2 DEF Known
  <2>3. CASE r # 1
    <3>1. r - 1 \in 1 .. n - 1 /\ rawQ'[r - 1] = rawQ[r]
      BY <1>1, <2>3
    <3>2. NoRemoval(h, r - 1 + 1, n)'
      BY <1>1, <2>1, <2>3 DEF NoRemoval
    <3> QED
      BY <2>1, <3>1, <3>2 DEF Known
  <2> QED
    BY <2>2, <2>3
<1>3. CASE keyboard[h] # Unknown /\ NoRemoval(h, 1, n + 1)
  <2>1. ~(rawQ[1].handle = h /\ rawQ[1].kind = "removal")
    BY <1>3 DEF NoRemoval
  <2>2. keyboard'[h] # Unknown
    BY <1>1, <1>3, <2>1
  <2>3. NoRemoval(h, 1, n)'
    BY <1>1, <1>3 DEF NoRemoval
  <2> QED
    BY <2>2, <2>3 DEF Known
<1> QED
  BY <1>2, <1>3 DEF Known

-----------------------------------------------------------------------------
\* A message that ends a hold still ends it when others queue up behind it.
LEMMA AppendKeepsEnds ==
  ASSUME NEW m \in Messages, rawQ \in Seq(Messages),
         rawQ' = Append(rawQ, m), keyboard' = keyboard,
         NEW b \in Boards, NEW k \in Keys, NEW n \in 1 .. Len(rawQ), Ends(b, k, n)
  PROVE  Ends(b, k, n)'
<1>1. rawQ'[n] = rawQ[n] /\ n \in 1 .. Len(rawQ) + 1
  OBVIOUS
<1>2. \A g \in Handles : Forgotten(g, n) => Forgotten(g, n)'
  BY <1>1, AppendKeepsForgotten
<1> QED
  BY <1>1, <1>2 DEF Ends

\* A message that ends a hold still ends it when the one before it is read.
LEMMA TailKeepsEnds ==
  ASSUME rawQ \in Seq(Messages), rawQ # <<>>, rawQ' = Tail(rawQ),
         \A g \in Handles : g # Head(rawQ).handle => keyboard'[g] = keyboard[g],
         Head(rawQ).kind = "removal" => keyboard'[Head(rawQ).handle] = Unknown,
         NEW b \in Boards, NEW k \in Keys, NEW n \in 1 .. Len(rawQ) - 1, Ends(b, k, n + 1)
  PROVE  Ends(b, k, n)'
<1>1. rawQ'[n] = rawQ[n + 1] /\ n \in 1 .. Len(rawQ)
  OBVIOUS
<1>2. \A g \in Handles : Forgotten(g, n + 1) => Forgotten(g, n)'
  BY <1>1, TailKeepsForgotten
<1> QED
  BY <1>1, <1>2 DEF Ends

-----------------------------------------------------------------------------
\* Steps that leave the map, the queue, the handles and the keys that are down
\* alone, and start no keyboard's hold.
LEMMA QuietKeepsReal ==
  ASSUME RealInv, UNCHANGED <<keyboard, rawQ, plugged, fingers>>,
         \A k \in Keys : held'[k] \in Boards => held'[k] = held[k]
  PROVE  RealInv'
<1>1. \A h \in Handles, n \in Nat : Forgotten(h, n) <=> Forgotten(h, n)'
  BY DEF Forgotten, SilentOn
<1>2. NamesRight' /\ KnownInUse'
  BY DEF RealInv, NamesRight, KnownInUse, Known, NoRemoval
<1>3. ASSUME NEW b \in Boards, NEW k \in Keys, NEW n \in Nat, DownOrEnds(b, k, n)
      PROVE  DownOrEnds(b, k, n)'
  BY <1>1, <1>3 DEF DownOrEnds, Ends, Forgotten, SilentOn
<1>4. \A b \in Boards, k \in Keys : held'[k] = b => DownOrEnds(b, k, 1)'
  BY <1>3 DEF RealInv
<1>5. \A b \in Boards, k \in Keys, n \in 1 .. Len(rawQ) : Presses(b, k, n)' => DownOrEnds(b, k, n + 1)'
  BY <1>3 DEF RealInv, Presses
<1>6. \A b \in Boards : fingers'[b] # {} => \E h \in plugged' : BoardOf[h] = b
  BY DEF RealInv
<1> QED
  BY <1>2, <1>4, <1>5, <1>6 DEF RealInv

\* A message is appended: who lifts a key or pulls the last handle appends the
\* message that ends the hold, and a press is down when it is sent.
LEMMA AppendKeepsReal ==
  ASSUME IInv, RealInv, NEW m \in Messages, rawQ' = Append(rawQ, m),
         keyboard' = keyboard, held' = held,
         \/ m.kind = "key" /\ m.handle \in plugged /\ plugged' = plugged
         \/ m.kind = "removal" /\ m.handle \in plugged /\ plugged' = plugged \ {m.handle}
              /\ ~Arriving(m.handle)
         \/ m.kind = "arrival" /\ plugged' = plugged \cup {m.handle},
         \A b \in Boards : fingers'[b] # {} => \E h \in plugged' : BoardOf[h] = b,
         \A b \in Boards, k \in Keys : k \in fingers[b] =>
           k \in fingers'[b] \/ \A n \in Nat : n = Len(rawQ) + 1 => Ends(b, k, n)',
         m.kind = "key" /\ m.down /\ BoardOf[m.handle] \in Boards => m.vk \in fingers'[BoardOf[m.handle]]
  PROVE  RealInv'
<1> USE KeyboardAssumption
<1>1. rawQ \in Seq(Messages) /\ plugged \subseteq Handles
  BY DEF IInv, KbTypeOK
<1>2. \A i \in 1 .. Len(rawQ) : rawQ'[i] = rawQ[i] /\ rawQ[i] \in Messages
  BY <1>1
<1>3. Len(rawQ) \in Nat /\ Len(rawQ') = Len(rawQ) + 1 /\ rawQ'[Len(rawQ) + 1] = m
  BY <1>1
<1>4. \A i \in 1 .. Len(rawQ) : rawQ[i].handle \in Handles /\ (rawQ[i].kind = "key" => rawQ[i].vk \in Keys)
  BY <1>2 DEF Messages
<1>5. m.handle \in Handles /\ m.kind \in {"key", "arrival", "removal"}
  BY DEF Messages
<1>6. NamesRight'
  BY <1>1, <1>2, <1>3 DEF RealInv, NamesRight, Arriving
<1>7. KnownInUse'
  <2>1. ASSUME NEW h \in plugged', NEW n \in Nat, n = Len(rawQ') + 1
        PROVE  Known(h, n)'
    <3>1. n - 1 \in Nat /\ n - 1 = Len(rawQ) + 1 /\ n - 1 + 1 = n /\ h \in Handles
      BY <1>1, <1>3, <1>5, <2>1
    <3>2. h \in plugged => Known(h, n - 1)
      BY <3>1 DEF RealInv, KnownInUse
    <3>3. \/ m.handle = h /\ m.kind = "arrival"
          \/ ~(m.handle = h /\ m.kind = "removal") /\ h \in plugged
      BY <2>1
    <3>4. Known(h, n - 1 + 1)'
      BY <1>1, <3>1, <3>2, <3>3, AppendExtendsKnown
    <3> QED
      BY <3>1, <3>4
  <2>2. ASSUME NEW h \in Handles, NEW n \in 1 .. Len(rawQ'),
               rawQ'[n].handle = h, rawQ'[n].kind # "arrival"
        PROVE  Known(h, n)'
    <3>1. CASE n \in 1 .. Len(rawQ)
      <4>1. Known(h, n)
        BY <1>2, <2>2, <3>1 DEF RealInv, KnownInUse
      <4>2. n \in 1 .. Len(rawQ) + 1
        BY <1>3, <3>1
      <4> QED
        BY <1>1, <4>1, <4>2, AppendKeepsKnown
    <3>2. CASE n = Len(rawQ) + 1
      <4>1. h = m.handle /\ m.handle \in plugged
        BY <1>3, <2>2, <3>2
      <4>2. Known(h, n)
        BY <1>3, <3>2, <4>1 DEF RealInv, KnownInUse
      <4>3. n \in 1 .. Len(rawQ) + 1
        BY <1>3, <3>2
      <4> QED
        BY <1>1, <4>2, <4>3, AppendKeepsKnown
    <3> QED
      BY <1>3, <3>1, <3>2
  <2> QED
    BY <2>1, <2>2 DEF KnownInUse
<1>8. ASSUME NEW b \in Boards, NEW k \in Keys, NEW n \in 1 .. Len(rawQ) + 1, DownOrEnds(b, k, n)
      PROVE  DownOrEnds(b, k, n)'
  <2>1. CASE k \in fingers[b]
    <3>1. Len(rawQ) + 1 \in n .. Len(rawQ')
      BY <1>3
    <3> QED
      BY <1>3, <2>1, <3>1 DEF DownOrEnds
  <2>2. CASE \E i \in n .. Len(rawQ) : Ends(b, k, i)
    <3>1. PICK i \in n .. Len(rawQ) : Ends(b, k, i)
      BY <2>2
    <3>2. i \in 1 .. Len(rawQ) /\ i \in n .. Len(rawQ')
      BY <1>3
    <3>3. Ends(b, k, i)'
      BY <1>1, <3>1, <3>2, AppendKeepsEnds
    <3> QED
      BY <3>2, <3>3 DEF DownOrEnds
  <2> QED
    BY <1>8, <2>1, <2>2 DEF DownOrEnds
<1>9. ASSUME NEW b \in Boards, NEW k \in Keys, held'[k] = b
      PROVE  DownOrEnds(b, k, 1)'
  <2>1. DownOrEnds(b, k, 1)
    BY <1>9 DEF RealInv
  <2> QED
    BY <1>3, <1>8, <2>1
<1>10. ASSUME NEW b \in Boards, NEW k \in Keys, NEW n \in 1 .. Len(rawQ'), Presses(b, k, n)'
       PROVE  DownOrEnds(b, k, n + 1)'
  <2>1. CASE n \in 1 .. Len(rawQ)
    <3>1. DownOrEnds(b, k, n + 1)
      BY <1>2, <1>10, <2>1 DEF RealInv, Presses
    <3>2. n + 1 \in 1 .. Len(rawQ) + 1
      BY <1>3, <2>1
    <3> QED
      BY <1>8, <3>1, <3>2
  <2>2. CASE n = Len(rawQ) + 1
    <3>1. k \in fingers'[b]
      BY <1>3, <1>10, <2>2 DEF Presses
    <3> QED
      BY <3>1 DEF DownOrEnds
  <2> QED
    BY <1>3, <2>1, <2>2
<1> QED
  BY <1>6, <1>7, <1>9, <1>10 DEF RealInv

\* After the head of the queue is read, k is held by b because the head is a
\* press of it, or because it was held and the head does not end the hold.
LEMMA WhoHolds ==
  ASSUME IInv, RealInv, WindowSees, NEW b \in Boards, NEW k \in Keys, held'[k] = b
  PROVE  Presses(b, k, 1) \/ (held[k] = b /\ ~Ends(b, k, 1))
<1> DEFINE m == Head(rawQ)
<1> USE KeyboardAssumption
<1>1. rawQ # <<>> /\ rawQ \in Seq(Messages)
  BY DEF IInv, KbTypeOK, WindowSees
<1>2. m \in Messages /\ m = rawQ[1] /\ 1 \in 1 .. Len(rawQ)
  BY <1>1
<1>3. m.handle \in Handles
  BY <1>2 DEF Messages
<1>4. /\ keyboard \in [Handles -> Boards \cup {Ignored, Unknown}]
      /\ held \in [Keys -> Boards \cup {Hook, Nobody}]
      /\ \A h \in Handles : keyboard[h] \in {BoardOf[h], Unknown}
  BY DEF IInv, KbTypeOK, RealInv, NamesRight
<1>5. Ignored \notin Boards /\ Unknown \notin Boards /\ Nobody \notin Boards
  BY DEF Ignored, Unknown, Nobody
<1>6. m.kind # "arrival" => keyboard[m.handle] = BoardOf[m.handle] /\ keyboard[m.handle] # Unknown
  <2>1. m.kind # "arrival" => Known(m.handle, 1)
    BY <1>2, <1>3 DEF RealInv, KnownInUse
  <2> QED
    BY <1>3, <1>4, <2>1 DEF Known
<1> HIDE DEF m
<1>7. CASE m.kind = "key" /\ ApplyKey(m)
  <2>1. m.vk \in Keys /\ m.down \in BOOLEAN
    BY <1>2, <1>7 DEF Messages
  <2> DEFINE o == BoardOf[m.handle]
  <2>2. held' = IF o = Ignored THEN held ELSE IF m.down THEN Held(m.vk, o) ELSE Released(m.vk, o)
    BY <1>6, <1>7 DEF ApplyKey
  <2> HIDE DEF o
  <2>3. CASE held[k] = b
    <3>1. SUFFICES ASSUME Ends(b, k, 1) PROVE FALSE
      BY <2>3
    <3>2. ~m.down /\ m.vk = k /\ o = b
      BY <1>2, <1>7, <3>1 DEF Ends, o
    <3>3. held' = [held EXCEPT ![k] = Nobody]
      BY <1>5, <2>2, <2>3, <3>2 DEF Released
    <3> QED
      BY <1>4, <1>5, <3>3
  <2>4. CASE held[k] # b
    <3>1. m.down /\ m.vk = k /\ o = b
      BY <1>4, <1>5, <2>1, <2>2, <2>4 DEF Held, Released
    <3> QED
      BY <1>2, <1>7, <3>1 DEF Presses, o
  <2> QED
    BY <2>3, <2>4
<1>8. CASE m.kind = "arrival" /\ AddDevice(m.handle)
  BY <1>2, <1>8 DEF AddDevice, Ends
<1>9. CASE m.kind = "removal" /\ RemoveDevice(m.handle)
  <2> DEFINE o == keyboard[m.handle]
             map == [keyboard EXCEPT ![m.handle] = Unknown]
  <2>1. held' = IF o \in {Unknown, Ignored} \/ HasHandle(o, map) THEN held
                ELSE [j \in Keys |-> IF held[j] = o THEN Nobody ELSE held[j]]
    BY <1>9 DEF RemoveDevice
  <2>2. held[k] = b
    BY <1>4, <1>5, <2>1
  <2>3. SUFFICES ASSUME Ends(b, k, 1) PROVE FALSE
    BY <2>2
  <2>4. o = b /\ \A g \in Handles : g # m.handle /\ BoardOf[g] = b => keyboard[g] = Unknown
    BY <1>2, <1>6, <1>9, <2>3 DEF Ends, Forgotten
  <2>5. ~HasHandle(o, map)
    BY <1>3, <1>4, <1>5, <2>4 DEF HasHandle
  <2> QED
    BY <1>4, <1>5, <2>1, <2>2, <2>4, <2>5
<1> QED
  BY <1>7, <1>8, <1>9 DEF WindowSees, m

\* The window reads a message.
LEMMA WindowKeepsReal ==
  ASSUME IInv, RealInv, WindowSees
  PROVE  RealInv'
<1> USE KeyboardAssumption
<1>1. rawQ # <<>> /\ rawQ \in Seq(Messages) /\ rawQ' = Tail(rawQ) /\ UNCHANGED <<fingers, plugged>>
  BY DEF IInv, KbTypeOK, WindowSees, world
<1>2. /\ Len(rawQ) \in Nat /\ Len(rawQ') = Len(rawQ) - 1 /\ Head(rawQ) = rawQ[1] /\ 1 \in 1 .. Len(rawQ)
      /\ \A n \in 1 .. Len(rawQ') : n + 1 \in 1 .. Len(rawQ) /\ n \in 1 .. Len(rawQ) - 1 /\ rawQ'[n] = rawQ[n + 1]
  BY <1>1
<1>3. Head(rawQ) \in Messages /\ Head(rawQ).handle \in Handles
  <2>1. Head(rawQ) \in Messages
    BY <1>1
  <2> QED
    BY <2>1 DEF Messages
<1>4. /\ \A g \in Handles : g # Head(rawQ).handle => keyboard'[g] = keyboard[g]
      /\ Head(rawQ).kind = "removal" => keyboard'[Head(rawQ).handle] = Unknown
  BY WindowKeepsHolds
<1>5. /\ Head(rawQ).kind # "removal" => keyboard'[Head(rawQ).handle] = BoardOf[Head(rawQ).handle]
      /\ \A h \in Handles : BoardOf[h] # Unknown
  <2> DEFINE m == Head(rawQ)
  <2>1. /\ keyboard \in [Handles -> Boards \cup {Ignored, Unknown}]
        /\ \A h \in Handles : keyboard[h] \in {BoardOf[h], Unknown}
    BY DEF IInv, KbTypeOK, RealInv, NamesRight
  <2>2. m.kind # "arrival" => keyboard[m.handle] = BoardOf[m.handle] /\ keyboard[m.handle] # Unknown
    <3>1. m.kind # "arrival" => Known(m.handle, 1)
      BY <1>2, <1>3 DEF RealInv, KnownInUse
    <3> QED
      BY <1>3, <2>1, <3>1 DEF Known
  <2>3. m.kind = "arrival" => m.handle \in plugged
    BY <1>2 DEF RealInv, NamesRight
  <2> HIDE DEF m
  <2>4. CASE m.kind = "key" /\ ApplyKey(m)
    BY <1>3, <2>1, <2>2, <2>4 DEF ApplyKey, m, Ignored, Unknown
  <2>5. CASE m.kind = "arrival" /\ AddDevice(m.handle)
    BY <1>3, <2>1, <2>3, <2>5 DEF AddDevice, NameOf, m, Ignored, Unknown
  <2>6. CASE m.kind = "removal" /\ RemoveDevice(m.handle)
    BY <2>6 DEF m, Ignored, Unknown
  <2> QED
    BY <2>4, <2>5, <2>6 DEF WindowSees, m
<1>6. \A g \in Handles : keyboard[g] # Unknown /\ ~(Head(rawQ).handle = g /\ Head(rawQ).kind = "removal")
        => keyboard'[g] # Unknown
  BY <1>4, <1>5
<1>7. NamesRight'
  <2>1. \A h \in Handles : keyboard'[h] \in {BoardOf[h], Unknown}
    BY <1>4, <1>5 DEF RealInv, NamesRight
  <2> QED
    BY <1>1, <1>2, <2>1 DEF RealInv, NamesRight
<1>8. \A h \in Handles, n \in 1 .. Len(rawQ) : Known(h, n + 1) => Known(h, n)'
  BY <1>1, <1>3, <1>5, <1>6, TailKeepsKnown
<1>9. KnownInUse'
  <2>1. ASSUME NEW h \in plugged', NEW n \in Nat, n = Len(rawQ') + 1
        PROVE  Known(h, n)'
    <3>1. n \in 1 .. Len(rawQ) /\ n + 1 = Len(rawQ) + 1 /\ h \in plugged /\ h \in Handles
      BY <1>1, <1>2, <2>1 DEF IInv, KbTypeOK
    <3>2. Known(h, n + 1)
      BY <3>1 DEF RealInv, KnownInUse
    <3> QED
      BY <1>8, <3>1, <3>2
  <2>2. ASSUME NEW h \in Handles, NEW n \in 1 .. Len(rawQ'),
               rawQ'[n].handle = h, rawQ'[n].kind # "arrival"
        PROVE  Known(h, n)'
    <3>1. n \in 1 .. Len(rawQ) /\ Known(h, n + 1)
      BY <1>2, <2>2 DEF RealInv, KnownInUse
    <3> QED
      BY <1>8, <3>1
  <2> QED
    BY <2>1, <2>2 DEF KnownInUse
<1>10. ASSUME NEW b \in Boards, NEW k \in Keys, NEW n \in Nat \ {0}, DownOrEnds(b, k, n + 1)
       PROVE  DownOrEnds(b, k, n)'
  <2>1. CASE k \in fingers[b]
    BY <1>1, <2>1 DEF DownOrEnds
  <2>2. CASE \E i \in n + 1 .. Len(rawQ) : Ends(b, k, i)
    <3>1. PICK i \in n + 1 .. Len(rawQ) : Ends(b, k, i)
      BY <2>2
    <3>2. i - 1 \in 1 .. Len(rawQ) - 1 /\ i - 1 + 1 = i /\ i - 1 \in n .. Len(rawQ')
      BY <1>2, <3>1
    <3>3. Ends(b, k, i - 1)'
      BY <1>1, <1>4, <3>1, <3>2, TailKeepsEnds
    <3> QED
      BY <3>2, <3>3 DEF DownOrEnds
  <2> QED
    BY <1>10, <2>1, <2>2 DEF DownOrEnds
<1>11. ASSUME NEW b \in Boards, NEW k \in Keys, held'[k] = b
       PROVE  DownOrEnds(b, k, 1)'
  <2>1. Presses(b, k, 1) \/ (held[k] = b /\ ~Ends(b, k, 1))
    BY <1>11, WhoHolds
  <2>2. DownOrEnds(b, k, 2)
    <3>1. CASE Presses(b, k, 1)
      <4>1. DownOrEnds(b, k, 1 + 1)
        BY <1>2, <3>1 DEF RealInv
      <4>2. 1 + 1 = 2
        OBVIOUS
      <4> QED
        BY <4>1, <4>2
    <3>2. CASE held[k] = b /\ ~Ends(b, k, 1)
      <4>1. DownOrEnds(b, k, 1)
        BY <3>2 DEF RealInv
      <4>2. \A i \in 1 .. Len(rawQ) : i = 1 \/ i \in 2 .. Len(rawQ)
        BY <1>2
      <4> QED
        BY <3>2, <4>1, <4>2 DEF DownOrEnds
    <3> QED
      BY <2>1, <3>1, <3>2
  <2>3. DownOrEnds(b, k, 1 + 1)
    BY <2>2
  <2> QED
    BY <1>10, <2>3
<1>12. ASSUME NEW b \in Boards, NEW k \in Keys, NEW n \in 1 .. Len(rawQ'), Presses(b, k, n)'
       PROVE  DownOrEnds(b, k, n + 1)'
  <2>1. Presses(b, k, n + 1) /\ n + 1 \in 1 .. Len(rawQ) /\ n + 1 \in Nat \ {0}
    BY <1>2, <1>12 DEF Presses
  <2>2. DownOrEnds(b, k, n + 1 + 1)
    BY <2>1 DEF RealInv
  <2> QED
    BY <1>10, <2>1, <2>2
<1>13. \A b \in Boards : fingers'[b] # {} => \E h \in plugged' : BoardOf[h] = b
  BY <1>1 DEF RealInv
<1> QED
  BY <1>7, <1>9, <1>11, <1>12, <1>13 DEF RealInv

\* A press or a release is sent by a handle that exists.
LEMMA UserKeepsReal ==
  ASSUME IInv, RealInv, NEW h \in Handles, NEW k \in Keys, Press(h, k) \/ Release(h, k)
  PROVE  RealInv'
<1> USE KeyboardAssumption
<1>1. PICK d \in BOOLEAN :
        /\ rawQ' = Append(rawQ, Message("key", h, k, d))
        /\ d => fingers' = [fingers EXCEPT ![BoardOf[h]] = @ \cup {k}]
        /\ ~d => fingers' = [fingers EXCEPT ![BoardOf[h]] = @ \ {k}]
  BY DEF Press, Release, Report
<1> DEFINE m == Message("key", h, k, d)
<1>2. UNCHANGED <<keyboard, held, plugged>> /\ h \in plugged /\ BoardOf[h] \in Boards
  BY DEF Press, Release, board
<1>3. m \in Messages /\ m.kind = "key" /\ m.handle = h /\ m.vk = k /\ m.down = d
  BY DEF Message, Messages
<1>4. fingers \in [Boards -> SUBSET Keys] /\ rawQ \in Seq(Messages)
  BY DEF IInv, KbTypeOK
<1>5. rawQ' = Append(rawQ, m)
  BY <1>1
<1> HIDE DEF m
<1>6. \A n \in Nat : n = Len(rawQ) + 1 => rawQ'[n] = m
  BY <1>3, <1>4, <1>5
<1>7. ASSUME NEW b \in Boards, fingers'[b] # {}
      PROVE  \E g \in plugged' : BoardOf[g] = b
  <2>1. CASE b = BoardOf[h]
    BY <1>2, <2>1
  <2>2. CASE b # BoardOf[h]
    BY <1>1, <1>2, <1>4, <1>7, <2>2 DEF RealInv
  <2> QED
    BY <2>1, <2>2
<1>8. ASSUME NEW b \in Boards, NEW j \in Keys, j \in fingers[b], j \notin fingers'[b],
             NEW n \in Nat, n = Len(rawQ) + 1
      PROVE  Ends(b, j, n)'
  <2>1. ~d /\ b = BoardOf[h] /\ j = k
    BY <1>1, <1>2, <1>4, <1>8
  <2>2. rawQ'[n] = m
    BY <1>6, <1>8
  <2> QED
    BY <1>3, <2>1, <2>2 DEF Ends
<1>9. m.down => m.vk \in fingers'[BoardOf[m.handle]]
  BY <1>1, <1>2, <1>3, <1>4
<1> QED
  BY <1>2, <1>3, <1>5, <1>7, <1>8, <1>9, AppendKeepsReal

\* A handle comes, or goes after its arrival has been read.
LEMMA DevicesKeepReal ==
  ASSUME IInv, RealInv, "hasty" \notin Touches, NEW h \in Handles, Plug(h) \/ Unplug(h)
  PROVE  RealInv'
<1> USE KeyboardAssumption
<1>1. UNCHANGED <<keyboard, held>> /\ rawQ \in Seq(Messages) /\ fingers \in [Boards -> SUBSET Keys]
  BY DEF Plug, Unplug, board, IInv, KbTypeOK
<1>2. CASE Plug(h)
  <2> DEFINE m == Message("arrival", h, NoKey, FALSE)
  <2>1. rawQ' = Append(rawQ, m) /\ plugged' = plugged \cup {h} /\ fingers' = fingers
    BY <1>2 DEF Plug
  <2>2. m \in Messages /\ m.kind = "arrival" /\ m.handle = h
    BY DEF Message, Messages
  <2> HIDE DEF m
  <2>3. \A b \in Boards : fingers'[b] # {} => \E g \in plugged' : BoardOf[g] = b
    BY <2>1 DEF RealInv
  <2> QED
    BY <1>1, <2>1, <2>2, <2>3, AppendKeepsReal
<1>3. CASE Unplug(h)
  <2> DEFINE m == Message("removal", h, NoKey, FALSE)
  <2>1. /\ rawQ' = Append(rawQ, m) /\ plugged' = plugged \ {h} /\ h \in plugged /\ ~Arriving(h)
        /\ fingers' = [b \in Boards |->
             IF \E o \in plugged \ {h} : BoardOf[o] = b THEN fingers[b] ELSE {}]
    BY <1>3 DEF Unplug
  <2>2. m \in Messages /\ m.kind = "removal" /\ m.handle = h
    BY DEF Message, Messages
  <2> HIDE DEF m
  <2>3. \A b \in Boards : fingers'[b] # {} => \E g \in plugged' : BoardOf[g] = b
    BY <2>1
  <2>4. ASSUME NEW b \in Boards, NEW k \in Keys, k \in fingers[b], k \notin fingers'[b],
               NEW n \in Nat, n = Len(rawQ) + 1
        PROVE  Ends(b, k, n)'
    <3>1. \A o \in plugged : BoardOf[o] = b => o = h
      BY <2>1, <2>4
    <3>2. BoardOf[h] = b
      BY <2>4, <3>1 DEF RealInv
    <3>3. \A g \in Handles : g # h /\ BoardOf[g] = b => Forgotten(g, n)
      BY <2>4, <3>1 DEF IInv, GoneIsForgotten
    <3>4. n \in 1 .. Len(rawQ) + 1 /\ rawQ'[n] = m
      BY <1>1, <2>1, <2>2, <2>4
    <3>5. \A g \in Handles : g # h /\ BoardOf[g] = b => Forgotten(g, n)'
      BY <1>1, <2>1, <2>2, <3>3, <3>4, AppendKeepsForgotten
    <3> QED
      BY <2>2, <3>2, <3>4, <3>5 DEF Ends
  <2> QED
    BY <1>1, <2>1, <2>2, <2>3, <2>4, AppendKeepsReal
<1> QED
  BY <1>2, <1>3

\* VIIPER's keyboard has a handle that may not hold a bind.
LEMMA ViiperKeepsReal ==
  ASSUME IInv, RealInv, NEW k \in Keys, NEW d \in BOOLEAN, ViiperTypes(k, d)
  PROVE  RealInv'
<1> USE KeyboardAssumption
<1>1. PICK h \in plugged : BoardOf[h] = Ignored /\ Report(h, k, d)
  BY DEF ViiperTypes
<1> DEFINE m == Message("key", h, k, d)
<1>2. UNCHANGED <<keyboard, held, fingers, plugged>> /\ rawQ' = Append(rawQ, m)
  BY <1>1 DEF ViiperTypes, board, world, Report
<1>3. m \in Messages /\ m.kind = "key" /\ m.handle = h
  BY DEF Message, Messages, IInv, KbTypeOK
<1> HIDE DEF m
<1>4. BoardOf[m.handle] \notin Boards
  BY <1>1, <1>3 DEF Ignored
<1>5. \A b \in Boards : fingers'[b] # {} => \E g \in plugged' : BoardOf[g] = b
  BY <1>2 DEF RealInv
<1> QED
  BY <1>1, <1>2, <1>3, <1>4, <1>5, AppendKeepsReal

LEMMA NextKeepsReal == "hasty" \notin Touches /\ IInv /\ RealInv /\ [KbNext]_kbVars => RealInv'
<1> SUFFICES ASSUME "hasty" \notin Touches, IInv, RealInv, [KbNext]_kbVars PROVE RealInv'
  OBVIOUS
<1>1. CASE HookSees
  <2>1. UNCHANGED <<keyboard, rawQ, fingers, plugged>>
    BY <1>1 DEF HookSees, settings, world
  <2>2. hookQ # <<>> /\ hookQ \in Seq(HookReports)
    BY <1>1 DEF HookSees, IInv, KbTypeOK
  <2>3. Head(hookQ) \in HookReports
    BY <2>2
  <2>4. Head(hookQ).vk \in Keys
    BY <2>3 DEF HookReports
  <2>5. \A k \in Keys : held'[k] \in {held[k], Hook, Nobody}
    BY <1>1, <2>4 DEF HookSees, Held, IInv, KbTypeOK
  <2>6. \A k \in Keys : held'[k] \in Boards => held'[k] = held[k]
    BY <2>5, KeyboardAssumption
  <2> QED
    BY <2>1, <2>6, QuietKeepsReal
<1>2. CASE SwitchWindow \/ UNCHANGED kbVars
           \/ (\E vks \in SUBSET Keys : SwallowPhysicalKeys(vks))
           \/ (\E vk \in Keys \cup {NoKey} : SetTappingVK(vk))
  BY <1>2, QuietKeepsReal
     DEF SwitchWindow, SwallowPhysicalKeys, SetTappingVK, kbVars, board, settings, world
<1> QED
  BY <1>1, <1>2, WindowKeepsReal, UserKeepsReal, DevicesKeepReal, ViiperKeepsReal
     DEF KbNext, KeyboardThread, User, AnyClient

LEMMA InitReal == KbInit => RealInv
<1> SUFFICES ASSUME KbInit PROVE RealInv
  OBVIOUS
<1> USE KeyboardAssumption
<1>1. Len(rawQ) = 0
  BY DEF KbInit
<1>2. NamesRight
  BY <1>1 DEF KbInit, NamesRight
<1>3. KnownInUse
  <2>1. \A h \in plugged : keyboard[h] # Unknown
    BY DEF KbInit, Ignored, Unknown
  <2> QED
    BY <1>1, <2>1 DEF KnownInUse, Known, NoRemoval
<1>4. \A b \in Boards, k \in Keys : held[k] # b
  BY DEF KbInit
<1>5. \A b \in Boards : fingers[b] = {}
  BY DEF KbInit
<1> QED
  BY <1>1, <1>2, <1>3, <1>4, <1>5 DEF RealInv

\* Whatever the hook does, whatever VIIPER types and whichever handles a
\* keystroke is reported on, a keyboard holds only keys that are down on it or
\* whose release, or the loss of their keyboard, is still to be read.
THEOREM HoldsAreReal == "hasty" \notin Touches /\ KbSpec => []RawHoldIsReal
<1>1. RealInv => RawHoldIsReal
  <2> SUFFICES ASSUME RealInv, rawQ = <<>>, NEW k \in Keys, held[k] \in Boards
               PROVE  k \in fingers[held[k]]
    BY DEF RawHoldIsReal
  <2>1. DownOrEnds(held[k], k, 1)
    BY DEF RealInv
  <2> QED
    BY <2>1 DEF DownOrEnds
<1>2. CASE "hasty" \notin Touches
  <2>1. IInv /\ RealInv /\ [KbNext]_kbVars => RealInv'
    BY <1>2, NextKeepsReal
  <2> QED
    BY <1>1, <2>1, InitReal, Invariance, PTL DEF KbSpec
<1> QED
  BY <1>2

-----------------------------------------------------------------------------
(* The loop of KeyChain *)


InTap == {"press", "release", "tapped"}

LoopTypeOK ==
  /\ cfg \in Configs /\ current \in Configs \cup {<<>>}
  /\ pc \in {"off", "poll", "find", "next", "leave", "unswallow"} \cup InTap
  /\ stopAsked \in BOOLEAN /\ failed \in BOOLEAN
  /\ heldVK \in Keys \cup {NoKey}
  /\ sw \in Seq(Keys) /\ step \in 0 .. Len(sw) + 1

\* The loop taps a key of the chain it plays, and has unmarked the last one
\* before it gives the swallowed keys back.
ChainInv ==
  /\ LoopTypeOK
  /\ pc \in InTap => step \in 1 .. Len(sw)
  /\ pc = "next" => step \in 1 .. Len(sw) + 1
  /\ MarkedOnlyInTap
  /\ IdleSwallowsNothing

-----------------------------------------------------------------------------
\* A chain that is not empty starts with a key.
LEMMA ChainsHaveKeys ==
  ASSUME NEW c \in Configs \cup {<<>>}, NEW n \in DOMAIN c
  PROVE  c[n] \in Seq(Keys) /\ (c[n] # <<>> => Head(c[n]) \in Keys)
<1>1. c \in Seq(Seq(Keys))
  BY ChainAssumption
<1>2. c[n] \in Seq(Keys)
  BY <1>1
<1> QED
  BY <1>2

\* Before its first run the loop has marked and swallowed nothing.
LEMMA InitChainInv == Init => ChainInv
<1> SUFFICES ASSUME Init PROVE ChainInv
  OBVIOUS
<1>1. stopAsked \in BOOLEAN /\ failed \in BOOLEAN
  BY Zenon DEF Init
<1>2. sw \in Seq(Keys) /\ step \in 0 .. Len(sw) + 1
  BY DEF Init
<1>3. LoopTypeOK
  BY <1>1, <1>2 DEF Init, LoopTypeOK
<1> QED
  BY <1>3 DEF Init, KbInit, ChainInv, MarkedOnlyInTap, IdleSwallowsNothing, InTap

\* Every step of the loop keeps its invariant, whatever key is held or stuck.
LEMMA NextChainInv == ChainInv /\ [Next]_vars => ChainInv'
<1> SUFFICES ASSUME ChainInv, [Next]_vars PROVE ChainInv'
  OBVIOUS
<1> USE DEF InTap
<1>1. LoopTypeOK /\ sw \in Seq(Keys) /\ Len(sw) \in Nat /\ step \in 0 .. Len(sw) + 1
  BY DEF ChainInv, LoopTypeOK
<1>2. NoKey \notin Keys
  BY KeyboardAssumption
<1>3. CASE Start \/ Stop \/ UpdateSettings
  BY <1>1, <1>3 DEF Start, Stop, UpdateSettings, ChainInv, LoopTypeOK, MarkedOnlyInTap,
     IdleSwallowsNothing, kbVars, settings, loop
<1>4. CASE Poll
  BY <1>1, <1>4 DEF Poll, ChainInv, LoopTypeOK, MarkedOnlyInTap, IdleSwallowsNothing,
     SwallowPhysicalKeys, kbVars, settings
<1>5. CASE Find
  <2>1. CASE \E n \in DOMAIN current :
               /\ Playable(n) /\ heldVK' = Head(current[n]) /\ sw' = current[n]
               /\ step' = 1 /\ pc' = "next"
    <3>1. PICK n \in DOMAIN current :
            /\ Playable(n) /\ heldVK' = Head(current[n]) /\ sw' = current[n]
            /\ step' = 1 /\ pc' = "next"
      BY <2>1
    <3>2. heldVK' \in Keys /\ sw' \in Seq(Keys)
      BY <1>1, <3>1, ChainsHaveKeys DEF LoopTypeOK, Playable
    <3>3. step' \in 1 .. Len(sw') + 1
      BY <3>1, <3>2
    <3> QED
      BY <1>1, <1>5, <3>1, <3>2, <3>3 DEF Find, ChainInv, LoopTypeOK, MarkedOnlyInTap,
         IdleSwallowsNothing, kbVars, settings
  <2>2. CASE heldVK' = NoKey /\ pc' = "poll" /\ UNCHANGED <<sw, step>>
    BY <1>1, <1>5, <2>2 DEF Find, ChainInv, LoopTypeOK, MarkedOnlyInTap,
       IdleSwallowsNothing, kbVars, settings
  <2> QED
    BY <1>5, <2>1, <2>2 DEF Find
<1>6. CASE NextKey
  <2>1. tappingVK = NoKey
    BY <1>6 DEF NextKey, ChainInv, MarkedOnlyInTap
  <2>2. /\ UNCHANGED <<cfg, current, heldVK, failed, stopAsked, swallowVKs>>
        /\ \/ tappingVK' = tappingVK /\ pc' \in {"poll", "leave"} /\ sw' = <<>> /\ step' = 0
           \/ /\ step \in 1 .. Len(sw) /\ tappingVK' = sw[step]
              /\ pc' = "press" /\ sw' = sw /\ step' = step
    BY <1>1, <1>6 DEF NextKey, PassEnds, SetTappingVK, kbVars, settings, ChainInv
  <2>3. stopAsked' \in BOOLEAN /\ failed' \in BOOLEAN
    BY <1>1, <2>2 DEF LoopTypeOK
  <2>4. sw' \in Seq(Keys) /\ step' \in 0 .. Len(sw') + 1
    <3>1. CASE sw' = <<>> /\ step' = 0
      BY <3>1
    <3>2. CASE sw' = sw /\ step' = step
      BY <1>1, <3>2
    <3> QED
      BY <2>2, <3>1, <3>2
  <2>5. LoopTypeOK'
    BY <1>1, <2>2, <2>3, <2>4 DEF LoopTypeOK
  <2> QED
    BY <2>1, <2>2, <2>5 DEF ChainInv, MarkedOnlyInTap, IdleSwallowsNothing
<1>7. CASE TapPress \/ TapRelease
  BY <1>1, <1>7 DEF TapPress, TapRelease, ChainInv, LoopTypeOK, MarkedOnlyInTap,
     IdleSwallowsNothing, ViiperTypes, kbVars, settings
<1>8. CASE Tapped
  <2>1. /\ UNCHANGED <<cfg, current, heldVK, stopAsked, swallowVKs>>
        /\ tappingVK' = NoKey /\ failed' = FALSE
        /\ \/ pc' = "leave" /\ sw' = <<>> /\ step' = 0
           \/ pc' = "next" /\ step' = step + 1 /\ sw' = sw
    BY <1>8 DEF Tapped, PassEnds, SetTappingVK
  <2>2. step \in 1 .. Len(sw)
    BY <1>8 DEF Tapped, ChainInv
  <2>3. stopAsked' \in BOOLEAN /\ failed' \in BOOLEAN
    BY <1>1, <2>1, Zenon DEF LoopTypeOK
  <2>4. sw' \in Seq(Keys) /\ step' \in 0 .. Len(sw') + 1
    <3>1. CASE sw' = <<>> /\ step' = 0
      BY <3>1
    <3>2. CASE sw' = sw /\ step' = step + 1
      BY <1>1, <2>2, <3>2
    <3> QED
      BY <2>1, <3>1, <3>2
  <2>5. LoopTypeOK'
    BY <1>1, <2>1, <2>3, <2>4 DEF LoopTypeOK
  <2> QED
    BY <1>1, <2>1, <2>2, <2>5 DEF ChainInv, MarkedOnlyInTap, IdleSwallowsNothing
<1>9. CASE Leave
  BY <1>1, <1>9 DEF Leave, SwallowNothing, ChainInv, LoopTypeOK, MarkedOnlyInTap,
     IdleSwallowsNothing, SwallowPhysicalKeys, SetTappingVK, kbVars, settings
<1>10. CASE OtherSteps \/ UNCHANGED vars
  <2>1. UNCHANGED <<cfg, loop, stopAsked, settings>>
    BY <1>10 DEF OtherSteps, KeyboardThread, HookSees, WindowSees, User, Press, Release, Plug,
       Unplug, SwitchWindow, vars, kbVars
  <2> QED
    BY <1>1, <2>1 DEF ChainInv, LoopTypeOK, MarkedOnlyInTap, IdleSwallowsNothing, loop, settings
<1> QED
  BY <1>3, <1>4, <1>5, <1>6, <1>7, <1>8, <1>9, <1>10 DEF Next, ChainStep

\* The invariant of the loop holds in every behaviour.
LEMMA ChainInvariance == Spec => []ChainInv
BY InitChainInv, NextChainInv, PTL DEF Spec

-----------------------------------------------------------------------------
\* KeyChain asks of the keyboard only what any client may: it swallows and
\* marks keys of the game and types through the session.
THEOREM ChainIsAClient == Spec => KbSpec
<1>1. Init => KbInit
  BY DEF Init
<1>2. ChainInv /\ [Next]_vars => [KbNext]_kbVars
  <2> SUFFICES ASSUME ChainInv, [Next]_vars PROVE [KbNext]_kbVars
    OBVIOUS
  <2>1. CASE Start \/ Stop \/ UpdateSettings \/ Find \/ UNCHANGED vars
    BY <2>1 DEF Start, Stop, UpdateSettings, Find, vars
  <2>2. CASE Poll
    <3>1. Triggers(cfg) \in SUBSET Keys
      BY ChainsHaveKeys DEF Triggers, ChainInv, LoopTypeOK
    <3> QED
      BY <2>2, <3>1 DEF Poll, KbNext, AnyClient
  <2>3. CASE NextKey
    <3>1. CASE SetTappingVK(sw[step]) /\ step <= Len(sw) /\ pc = "next"
      <4>1. step \in 1 .. Len(sw) /\ sw \in Seq(Keys)
        BY <3>1 DEF ChainInv, LoopTypeOK
      <4>2. sw[step] \in Keys
        BY <4>1
      <4> QED
        BY <3>1, <4>2 DEF KbNext, AnyClient
    <3> QED
      BY <2>3, <3>1 DEF NextKey
  <2>4. CASE TapPress \/ TapRelease
    <3>1. step \in 1 .. Len(sw) /\ sw \in Seq(Keys)
      BY <2>4 DEF TapPress, TapRelease, ChainInv, LoopTypeOK, InTap
    <3>2. sw[step] \in Keys
      BY <3>1
    <3> QED
      BY <2>4, <3>2 DEF TapPress, TapRelease, KbNext, AnyClient
  <2>5. CASE Tapped
    BY <2>5 DEF Tapped, KbNext, AnyClient
  <2>6. CASE Leave
    BY <2>6 DEF Leave, SwallowNothing, KbNext, AnyClient
  <2>7. CASE OtherSteps
    BY <2>7 DEF OtherSteps, KbNext
  <2> QED
    BY <2>1, <2>2, <2>3, <2>4, <2>5, <2>6, <2>7 DEF Next, ChainStep
<1> QED
  BY <1>1, <1>2, ChainInvariance, PTL DEF Spec, KbSpec

\* Every state of the loop and of the keyboard is well typed.
THEOREM ChainTypeCorrect == Spec => []TypeOK
<1>1. ChainInv /\ KbTypeOK => TypeOK
  BY DEF ChainInv, LoopTypeOK, TypeOK, InTap
<1> QED
  BY <1>1, ChainInvariance, ChainIsAClient, KeyboardTypeCorrect, PTL

\* Whichever way a run ends, no key stays swallowed or marked.
THEOREM GivesKeysBack == Spec => []IdleSwallowsNothing
<1>1. ChainInv => IdleSwallowsNothing
  BY DEF ChainInv
<1> QED
  BY <1>1, ChainInvariance, PTL

\* A key is marked as typed by VIIPER only during its own tap.
THEOREM MarksItsTaps == Spec => []MarkedOnlyInTap
<1>1. ChainInv => MarkedOnlyInTap
  BY DEF ChainInv
<1> QED
  BY <1>1, ChainInvariance, PTL

\* With KeyChain at work every hold still belongs to a keyboard with a handle.
THEOREM ChainHoldsAreReleasable == Spec => []HoldHasHandle
BY ChainIsAClient, HoldsAreReleasable, PTL

\* With KeyChain at work the holds it follows are real.
THEOREM ChainHoldsAreReal == "hasty" \notin Touches /\ Spec => []RawHoldIsReal
BY ChainIsAClient, HoldsAreReal, PTL
=============================================================================
