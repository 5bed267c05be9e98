---------------------------- MODULE AutoPotProofs ----------------------------
(***************************************************************************)
(* Proofs about AutoPot for any levels, thresholds and time-outs: its loop,*)
(* and its OCR and pixel readers, neither of which acts on a number it has *)
(* seen fewer times in a row than it promises.                             *)
(***************************************************************************)
EXTENDS AutoPot, StatusReader, PixelReader, TLAPS

-----------------------------------------------------------------------------
(* The loop *)

Healing == {"heal", "tap", "endedNap"}

\* A heal that has slowed down is under way, and only such a heal has the label.
LabelInv ==
  /\ mode = "pots ended" => potsEnded
  /\ potsEnded => pc \in Healing

\* The failure of the pixel reader is no older than the last valid reading that
\* was processed.
LossInv ==
  /\ unused \in 0 .. statusUIRetryInterval
  /\ pixelFailStart \in Never .. statusUIRetryInterval
  /\ pixelFailStart <= unused

-----------------------------------------------------------------------------
\* Publishing a reading does not bring the label.
LEMMA AnnouncedLabel ==
  ASSUME NEW found, NEW err, NEW label
  PROVE  Announced(found, err, label) = "pots ended" => label = "pots ended"
BY DEF Announced

\* The end of a heal takes its label away.
LEMMA ReturnClears ==
  ASSUME NEW label, Return(label), label = "pots ended" => potsEnded
  PROVE  LabelInv'
BY DEF Return, Cleared, LabelInv

\* A pass of the healer keeps the label and the pace together.
LEMMA HealPassLabel ==
  ASSUME LabelInv, NEW r, HealPass(r)
  PROVE  LabelInv'
<1> DEFINE pct == r.level[healing]
           last == IF healStart = Never THEN pct ELSE lastPct
           age == IF healStart = Never THEN 0 ELSE healStart
           ended == potsEnded \/ EndsNow(age, pct, last)
<1>1. CASE Return(IF r.found THEN Announced(TRUE, hadError, mode) ELSE mode)
  BY <1>1, ReturnClears, AnnouncedLabel DEF LabelInv
<1>2. CASE /\ pc' = "tap"
           /\ ended /\ Diff(pct, last) < 1
           /\ potsEnded' = TRUE
  BY <1>2 DEF LabelInv, Healing
<1>3. CASE /\ pc' = "tap"
           /\ ~(ended /\ Diff(pct, last) < 1)
           /\ potsEnded' = FALSE
           /\ mode' = IF ended THEN "" ELSE Announced(TRUE, hadError, mode)
  <2>1. mode' # "pots ended"
    <3>1. CASE ended
      BY <1>3, <3>1
    <3>2. CASE ~ended
      BY <1>3, <3>2, AnnouncedLabel DEF LabelInv
    <3> QED
      BY <3>1, <3>2
  <2> QED
    BY <1>3, <2>1 DEF LabelInv
<1>4. \/ Return(IF r.found THEN Announced(TRUE, hadError, mode) ELSE mode)
      \/ /\ pc' = "tap"
         /\ \/ ended /\ Diff(pct, last) < 1 /\ potsEnded' = TRUE
            \/ /\ ~(ended /\ Diff(pct, last) < 1)
               /\ potsEnded' = FALSE
               /\ mode' = IF ended THEN "" ELSE Announced(TRUE, hadError, mode)
  BY Zenon DEF HealPass, Short
<1> QED
  BY <1>1, <1>2, <1>3, <1>4

\* At first there is no label and no failure.
LEMMA InitInvs == Init => LabelInv /\ LossInv
<1> SUFFICES ASSUME Init PROVE LabelInv /\ LossInv
  OBVIOUS
<1>1. unused = 0 /\ pixelFailStart = -1 /\ statusUIRetryInterval \in Nat
  BY AutoPotAssumption DEF Init, Never
<1>2. ~potsEnded
  BY Zenon DEF Init
<1>3. mode # "pots ended"
  <2>1. mode \in {"Address reading", "Searching...", "Pixelsearch"}
    BY DEF Init
  <2> QED
    BY <2>1
<1>4. LabelInv
  BY <1>2, <1>3, Zenon DEF LabelInv
<1>5. LossInv
  BY <1>1 DEF LossInv, Never
<1> QED
  BY <1>4, <1>5

\* Each step keeps the label of a heal that has slowed down with that heal.
LEMMA NextLabelInv == LabelInv /\ [Next]_vars => LabelInv'
<1> SUFFICES ASSUME LabelInv, [Next]_vars PROVE LabelInv'
  OBVIOUS
<1> USE DEF Healing
<1>1. CASE Loop
  <2>1. ~potsEnded /\ mode # "pots ended" /\ UNCHANGED potsEnded
    BY <1>1 DEF Loop, LabelInv, heal
  <2>2. mode' = mode \/ mode' = Announced(result'.found, hadError, mode)
    BY <1>1, Zenon DEF Loop
  <2>3. mode' # "pots ended"
    BY <2>1, <2>2, AnnouncedLabel
  <2>4. ~potsEnded'
    BY <2>1, Zenon
  <2> QED
    BY <2>3, <2>4 DEF LabelInv
<1>2. CASE Process
  <2>1. ~potsEnded /\ mode # "pots ended"
    BY <1>2 DEF Process, LabelInv
  <2>2. potsEnded' = potsEnded \/ potsEnded' = FALSE
    BY <1>2 DEF Process, Valid, heal
  <2>3. mode' = mode \/ mode' = "Pixelsearch"
    BY <1>2 DEF Process, Valid, AddressFailure, switchToPixel, handlePixelFailure
  <2>4. ~potsEnded'
    BY <2>1, <2>2, Zenon
  <2>5. mode' # "pots ended"
    BY <2>1, <2>3
  <2> QED
    BY <2>4, <2>5, Zenon DEF LabelInv
<1>3. CASE probeOCR
  <2>1. ~potsEnded /\ mode # "pots ended" /\ UNCHANGED potsEnded
    BY <1>3 DEF probeOCR, LabelInv, heal
  <2>2. mode' = mode \/ mode' = "OCR"
    BY <1>3 DEF probeOCR
  <2> QED
    BY <2>1, <2>2 DEF LabelInv
<1>4. CASE Wake
  <2>1. UNCHANGED <<mode, potsEnded>> /\ pc \in {"nap", "endedNap"} /\ (pc = "endedNap" => pc' = "heal")
    BY <1>4 DEF Wake, heal, Go
  <2> QED
    BY <2>1 DEF LabelInv
<1>5. CASE Heal
  <2>1. CASE Return(mode)
    BY <2>1, ReturnClears DEF LabelInv
  <2>2. ASSUME NEW r, HealPass(r) PROVE LabelInv'
    BY <2>2, HealPassLabel
  <2> QED
    BY <1>5, <2>1, <2>2 DEF Heal
<1>6. CASE TapEnds
  <2>1. CASE Return(mode)
    BY <2>1, ReturnClears DEF LabelInv
  <2>2. CASE pc' = "heal" /\ UNCHANGED <<mode, heal>>
    BY <2>2 DEF LabelInv, heal
  <2>3. CASE potsEnded' = FALSE /\ mode' = ""
    BY <2>3 DEF LabelInv
  <2>4. CASE potsEnded /\ pc' = "endedNap" /\ UNCHANGED potsEnded
    BY <2>4 DEF LabelInv
  <2> QED
    BY <1>6, <2>1, <2>2, <2>3, <2>4 DEF TapEnds, Go, Long, heal
<1>7. CASE Change \/ Reappear \/ UpdateSettings \/ Stop \/ Tick \/ UNCHANGED vars
  <2>1. UNCHANGED <<mode, potsEnded, pc>>
    BY <1>7 DEF Change, Reappear, UpdateSettings, Stop, Tick, vars, heal
  <2> QED
    BY <2>1 DEF LabelInv
<1> QED
  BY <1>1, <1>2, <1>3, <1>4, <1>5, <1>6, <1>7 DEF Next, LoopStep

\* Processing a valid reading forgets the failure; otherwise the two clocks go
\* together.
LEMMA NextLossInv == LossInv /\ [Next]_vars => LossInv'
<1> SUFFICES ASSUME LossInv, [Next]_vars PROVE LossInv'
  OBVIOUS
<1> USE AutoPotAssumption
<1> USE DEF LossInv, Never
<1>1. CASE Tick
  <2>1. /\ unused' = Later(unused, statusUIRetryInterval)
        /\ pixelFailStart' = Later(pixelFailStart, statusUIRetryInterval)
    BY <1>1 DEF Tick
  <2> QED
    BY <2>1 DEF Later
<1>2. CASE Process
  <2>1. CASE Valid
    BY <2>1 DEF Valid, Forgotten
  <2>2. CASE handlePixelFailure /\ UNCHANGED unused
    BY <2>2 DEF handlePixelFailure
  <2>3. CASE (AddressFailure \/ switchToPixel) /\ UNCHANGED unused
    BY <2>3 DEF AddressFailure, switchToPixel, reader
  <2> QED
    BY <1>2, <2>1, <2>2, <2>3 DEF Process
<1>3. CASE ~Tick /\ ~Process
  <2>1. UNCHANGED <<unused, pixelFailStart>>
    BY <1>3 DEF Next, LoopStep, Loop, probeOCR, Wake, Heal, TapEnds, Change, Reappear, UpdateSettings, Stop, vars, reader
  <2> QED
    BY <2>1
<1> QED
  BY <1>1, <1>2, <1>3

-----------------------------------------------------------------------------
\* The overlay says "pots ended" only during a heal that has slowed down
\* (healer.go:36-39, 105-145), whatever the game, the tab and a stop do.
THEOREM LabelIsTrue == Spec => []EndedLabelIsTrue
<1>1. LabelInv => EndedLabelIsTrue
  BY DEF LabelInv, EndedLabelIsTrue
<1> QED
  BY <1>1, InitInvs, NextLabelInv, PTL DEF Spec

\* The long sleep follows five seconds in which no reading that the loop processed
\* was valid; a probe's may have been (reader_controller.go:83-118).
THEOREM BlindOnlyAfterLoss == Spec => []LongRetryOnlyAfterLoss
<1>1. LossInv => LongRetryOnlyAfterLoss
  BY AutoPotAssumption DEF LossInv, LongRetryOnlyAfterLoss, Never
<1> QED
  BY <1>1, InitInvs, NextLossInv, PTL DEF Spec
-----------------------------------------------------------------------------
(* The maxima of the OCR reader *)

\* The candidate is the value parsed last, and has been parsed as often in a
\* row as it was counted: a reading that is given up or a parse without
\* maxima leaves both alone, and a confirmed reading ends the count.
CandidateIsLatest ==
  pendingMax > 0 => pending = latest /\ pendingMax <= agreed

StatusInv ==
  /\ truth \in Maxima
  /\ latest \in Maxima \cup {NoMaxima} /\ pending \in Maxima \cup {NoMaxima}
  /\ pendingMax \in 0 .. maxChangeConfirm - 1 /\ agreed \in 0 .. maxChangeConfirm
  /\ CandidateIsLatest

\* No value is a candidate before the first reading.
LEMMA StatusInitInv == StatusInit => StatusInv
BY StatusAssumption DEF StatusInit, StatusInv, CandidateIsLatest, maxChangeConfirm

\* What the reader takes from one parse m: the count of agreeing parses, and
\* the candidate, stay in step; maxima in use change only to a value parsed
\* maxChangeConfirm times in a row.
LEMMA ParsedCounts ==
  ASSUME StatusInv, NEW m \in Maxima \cup {NoMaxima}, Parsed(m)
  PROVE  truth' = truth =>
           /\ StatusInv'
           /\ maxima' # maxima /\ maxima # NoMaxima => latest' = maxima' /\ agreed' >= maxChangeConfirm
<1> HAVE truth' = truth
<1> USE DEF maxChangeConfirm
<1>1. CASE m = NoMaxima
  <2>1. Refused(m)
    BY <1>1 DEF Parsed, Accepted
  <2>2. UNCHANGED <<believed, latest, agreed>>
    BY <1>1, <2>1 DEF Parsed, Refused, believed
  <2> QED
    BY <2>2 DEF StatusInv, CandidateIsLatest, believed
<1>2. CASE m # NoMaxima
  <2>1. /\ latest' = m
        /\ agreed' = IF m = latest /\ agreed < 3 THEN agreed + 1 ELSE IF m = latest THEN agreed ELSE 1
    BY <1>2 DEF Parsed
  <2>2. agreed' \in 1 .. 3 /\ (m = latest /\ agreed >= 2 => agreed' = 3)
    BY <2>1 DEF StatusInv
  <2>3. CASE m = maxima /\ pendingMax' = CountReset /\ UNCHANGED <<maxima, pending>>
    BY <2>1, <2>2, <2>3 DEF StatusInv, CandidateIsLatest, CountReset
  <2>4. CASE m # maxima /\ (maxima = NoMaxima \/ Agreeing(m) >= maxChangeConfirm) /\ Adopt(m)
    <3>1. maxima' = m /\ pending' = NoMaxima /\ pendingMax' = 0
      BY <2>4 DEF Adopt
    <3>2. StatusInv'
      BY <2>1, <2>2, <3>1 DEF StatusInv, CandidateIsLatest
    <3>3. ASSUME maxima # NoMaxima PROVE agreed' >= 3
      <4>1. pending = m /\ pendingMax >= 2
        BY <2>4, <3>3 DEF Agreeing, StatusInv
      <4>2. m = latest /\ agreed >= 2
        BY <4>1 DEF StatusInv, CandidateIsLatest
      <4> QED
        BY <2>2, <4>2
    <3> QED
      BY <2>1, <3>1, <3>2, <3>3
  <2>5. CASE /\ m \notin {NoMaxima, maxima} /\ maxima # NoMaxima /\ Agreeing(m) < maxChangeConfirm
             /\ pending' = m /\ pendingMax' = Agreeing(m) /\ UNCHANGED maxima
    <3>1. pendingMax' \in 1 .. 2 /\ pendingMax' <= agreed'
      <4>1. CASE pending = m /\ pendingMax > 0
        <5>1. m = latest /\ pendingMax <= agreed /\ pendingMax' = pendingMax + 1
          BY <2>5, <4>1 DEF StatusInv, CandidateIsLatest, Agreeing
        <5> QED
          BY <2>1, <2>5, <4>1, <5>1 DEF StatusInv
      <4>2. CASE ~(pending = m /\ pendingMax > 0)
        <5>1. pendingMax' = 1
          BY <2>5, <4>2 DEF StatusInv, Agreeing
        <5> QED
          BY <2>2, <5>1
      <4> QED
        BY <4>1, <4>2
    <3> QED
      BY <2>1, <2>2, <2>5, <3>1 DEF StatusInv, CandidateIsLatest
  <2> QED
    BY <1>2, <2>3, <2>4, <2>5 DEF Parsed, Accepted, Refused
<1> QED
  BY <1>1, <1>2

\* Each step keeps the count and adopts nothing unconfirmed.
LEMMA StatusStepInv ==
  ASSUME StatusInv, [StatusNext]_statusVars
  PROVE  /\ StatusInv'
         /\ maxima' # maxima /\ maxima # NoMaxima => latest' = maxima' /\ agreed' >= maxChangeConfirm
<1>1. CASE truth' \in Maxima /\ UNCHANGED <<believed, seenSoFar>>
  BY <1>1 DEF StatusInv, CandidateIsLatest, believed, seenSoFar
<1>2. CASE Parse
  <2>1. PICK t \in Text : IF t = NoText THEN Unparsed ELSE Parsed(t)
    BY <1>2 DEF Parse
  <2>2. truth' = truth /\ truth \in Maxima
    BY <1>2 DEF Parse, screen, StatusInv
  <2>3. CASE t = NoText
    BY <1>1, <2>1, <2>2, <2>3 DEF Unparsed
  <2>4. CASE t # NoText
    <3>1. t \in Maxima \cup {NoMaxima}
      BY <2>2, <2>4 DEF Text
    <3> QED
      BY <2>1, <2>2, <2>4, <3>1, ParsedCounts
  <2> QED
    BY <2>3, <2>4
<1>3. CASE GameMoves
  BY <1>1, <1>3 DEF GameMoves, StatusInv
<1>4. CASE Blur \/ Expire \/ Begin \/ Validate \/ UNCHANGED statusVars
  <2>1. truth' = truth /\ UNCHANGED <<believed, seenSoFar>>
    BY <1>4 DEF Blur, Expire, Begin, Validate, statusVars, screen
  <2> QED
    BY <1>1, <2>1 DEF StatusInv
<1> QED
  BY <1>2, <1>3, <1>4 DEF StatusNext, StatusStep

\* New maxima are adopted only once maxChangeConfirm parses in a row reported
\* the same ones (bar_reader.go:304-338), wherever the panel is and however
\* often it was lost or misread in between.
THEOREM MaximaAreConfirmed == StatusSpec => MaximaConfirmed
<1>1. StatusInv /\ [StatusNext]_statusVars => StatusInv'
  BY StatusStepInv
<1>2. StatusInv /\ [StatusNext]_statusVars =>
        [maxima' # maxima /\ maxima # NoMaxima => latest' = maxima' /\ agreed' >= maxChangeConfirm]_statusVars
  BY StatusStepInv
<1> QED
  BY <1>1, <1>2, StatusInitInv, PTL DEF StatusSpec, MaximaConfirmed

-----------------------------------------------------------------------------
(* The streak of the pixel reader *)

\* The streak never says more than the measurements do, and a bar that is
\* latched on full has none.
PixelInv ==
  /\ threshold \in Thresholds /\ level \in Nat
  /\ lowStreak \in 0 .. PotConfirmReads
  /\ lows \in [Thresholds -> 0 .. PotConfirmReads]
  /\ lowStreak <= lows[threshold]
  /\ fullLatched => lowStreak = 0

\* There is no streak before the first measurement.
LEMMA PixelInitInv == PixelInit => PixelInv
BY PixelAssumption DEF PixelInit, PixelInv, PotConfirmReads

\* A measurement raises the streak by one at most, and then the bar was below
\* the threshold at the place where it was before.
LEMMA FillCounts ==
  ASSUME PixelInv, applyFill, UNCHANGED <<onScreen, threshold>>
  PROVE  PixelInv' /\ (status' = "low" => lows'[threshold] = PotConfirmReads)
<1> USE DEF PotConfirmReads
<1> DEFINE Counted(t) == IF level >= t THEN 0 ELSE IF drifted THEN 1 ELSE IF lows[t] = 3 THEN lows[t] ELSE lows[t] + 1
<1>1. /\ threshold \in Thresholds /\ threshold \in Nat /\ level \in Nat
      /\ UNCHANGED <<threshold, level>>
      /\ lows[threshold] \in 0 .. 3 /\ lowStreak \in 0 .. 3 /\ lowStreak <= lows[threshold]
  BY PixelAssumption DEF PixelInv, onScreen
<1>2. lows' = [t \in Thresholds |-> Counted(t)]
  BY DEF applyFill
<1>3. lows' \in [Thresholds -> 0 .. 3]
  <2>1. ASSUME NEW t \in Thresholds PROVE Counted(t) \in 0 .. 3
    <3>1. lows[t] \in 0 .. 3 /\ t \in Nat
      BY PixelAssumption DEF PixelInv
    <3> QED
      BY <1>1, <3>1
  <2> QED
    BY <1>2, <2>1
<1>4. lows'[threshold] = Counted(threshold)
  BY <1>1, <1>2
<1> HIDE DEF Counted
<1>5. lows'[threshold] \in 0 .. 3
  BY <1>1, <1>3
<1>6. CASE readFull
  BY <1>1, <1>3, <1>5, <1>6 DEF readFull, PixelInv
<1>7. CASE fullLatched /\ readUnknownFullLatched
  BY <1>1, <1>3, <1>5, <1>7 DEF readUnknownFullLatched, PixelInv
<1>8. CASE applyTrustedRead
  <2>1. NextStreak \in 0 .. 3 /\ NextStreak <= Counted(threshold)
    BY <1>1 DEF NextStreak, Counted
  <2>2. /\ fullLatched' = FALSE /\ lowStreak' = NextStreak
        /\ status' = "low" => lowStreak' = 3
    BY <1>8 DEF applyTrustedRead
  <2> QED
    BY <1>1, <1>3, <1>4, <1>5, <2>1, <2>2 DEF PixelInv
<1> QED
  BY <1>6, <1>7, <1>8 DEF applyFill

\* Each step keeps the streak below the measurements.
LEMMA PixelStepInv ==
  ASSUME PixelInv, [PixelNext]_pixelVars
  PROVE  PixelInv' /\ (ReadBars /\ status' = "low" => lows'[threshold] = PotConfirmReads)
<1> USE DEF PotConfirmReads
<1>1. CASE ReadBars
  <2>1. UNCHANGED <<onScreen, threshold>>
    BY <1>1 DEF ReadBars
  <2>2. CASE applyFill
    BY <2>1, <2>2, FillCounts
  <2>3. CASE UNCHANGED <<stabilizer, lows>> /\ status' # "low"
    BY <2>1, <2>3 DEF PixelInv, stabilizer, onScreen
  <2> QED
    BY <1>1, <2>2, <2>3 DEF ReadBars, PairFound, PairLost, CaptureFails, readUnknownPreserveStreak
<1>2. CASE SetThreshold
  <2>1. /\ threshold' \in Thresholds /\ lowStreak' = 0
        /\ UNCHANGED <<level, fullLatched, lows>>
    BY <1>2 DEF SetThreshold, StreakReset
  <2>2. ~ReadBars
    BY <1>2 DEF SetThreshold, ReadBars
  <2> QED
    BY <2>1, <2>2 DEF PixelInv
<1>3. CASE ScreenChanges \/ Flicker \/ UNCHANGED pixelVars
  <2>1. /\ level' \in Nat
        /\ UNCHANGED <<threshold, lowStreak, lows, fullLatched>>
    BY <1>3, PixelAssumption DEF ScreenChanges, Flicker, pixelVars, onScreen, stabilizer, PixelInv
  <2>2. PixelInv'
    BY <2>1 DEF PixelInv
  <2> QED
    BY <1>1, <2>2
<1> QED
  BY <1>1, <1>2, <1>3 DEF PixelNext

\* A bar is reported low only when the latest PotConfirmReads measurements at
\* its place were below the threshold in force (bar_stabilizer.go:132-207).
THEOREM LowsAreConfirmed == PixelSpec => LowIsConfirmed
<1>1. PixelInv /\ [PixelNext]_pixelVars => PixelInv'
  BY PixelStepInv
<1>2. PixelInv /\ [PixelNext]_pixelVars =>
        [ReadBars /\ status' = "low" => lows'[threshold] = PotConfirmReads]_pixelVars
  BY PixelStepInv
<1> QED
  BY <1>1, <1>2, PixelInitInv, PTL DEF PixelSpec, LowIsConfirmed
=============================================================================
