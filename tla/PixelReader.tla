----------------------------- MODULE PixelReader -----------------------------
(***************************************************************************)
(* The pixel reader of AutoPot: where on the screen it looks for the bars  *)
(* (pixelBarReader, bar_reader.go) and what it makes of one bar from one   *)
(* frame to the next (BarStabilizer, bar_stabilizer.go).                   *)
(*                                                                         *)
(* A place is a number of BarPositionMaxDrift pixels along the screen.     *)
(***************************************************************************)
EXTENDS Integers

CONSTANTS
  FullBar,                  \* a bar is at 1 .. FullBar
  Thresholds,
  LastSpot, Centre, Reach,  \* places 0 .. LastSpot; half the width searched
  MaxJumps                  \* bound: moves of the bar, changes of the threshold

BarPositionMaxDrift == 1
PotConfirmReads == 3
MaxLost == 3
Spots == 0 .. LastSpot
NoRect == -100              \* the empty rectangle

ASSUME PixelAssumption ==
  /\ FullBar \in Nat /\ LastSpot \in Nat /\ Reach \in Nat /\ MaxJumps \in Nat
  /\ Centre \in Spots /\ Thresholds \subseteq Nat

VARIABLES
  level, spot, visible, sharp, jumps,        \* the bar on the screen
  lastScreenRect, lostFrames,                \* pixelBarReader
  threshold, lastValidRect, fullLatched, lowStreak,   \* BarStabilizer
  status,                                    \* what the last reading said
  lows                                       \* per threshold, the latest reads below it

onScreen == <<level, spot, visible, sharp, jumps>>
search == <<lastScreenRect, lostFrames>>
stabilizer == <<lastValidRect, fullLatched, lowStreak>>
pixelVars == <<onScreen, search, threshold, stabilizer, status, lows>>

PixelInit ==
  /\ level \in 1 .. FullBar /\ spot \in Spots /\ visible \in BOOLEAN /\ sharp \in BOOLEAN /\ jumps = 0
  /\ lastScreenRect = NoRect /\ lostFrames = 0
  /\ threshold \in Thresholds
  /\ lastValidRect = NoRect /\ fullLatched = FALSE /\ lowStreak = 0
  /\ status = "unknown" /\ lows = [t \in Thresholds |-> 0]

Distance(a, b) == IF a > b THEN a - b ELSE b - a

\* The character is hit or healed, walks, or is covered; the camera drifts.
ScreenChanges ==
  /\ jumps < MaxJumps /\ jumps' = jumps + 1
  /\ \/ level' \in (1 .. FullBar) \ {level} /\ UNCHANGED <<spot, visible, sharp>>
     \/ spot' \in Spots \ {spot} /\ UNCHANGED <<level, visible, sharp>>
     \/ visible' = ~visible /\ UNCHANGED <<level, spot, sharp>>
  /\ UNCHANGED <<search, threshold, stabilizer, status, lows>>

Flicker ==
  /\ sharp' = ~sharp
  /\ UNCHANGED <<level, spot, visible, jumps, search, threshold, stabilizer, status, lows>>

StreakKept == lowStreak                          \* faulty variant
StreakReset == 0

\* UpdateSettings: SetThreshold does nothing when the threshold is the same.
SetThreshold ==
  /\ jumps < MaxJumps /\ jumps' = jumps + 1
  /\ threshold' \in Thresholds \ {threshold}
  /\ lowStreak' = StreakReset
  /\ UNCHANGED <<level, spot, visible, sharp, search, lastValidRect, fullLatched, status, lows>>

(***************************************************************************)
(* One ReadValues                                                          *)
(***************************************************************************)
\* The search follows the last known place for MaxLost frames.
SearchCentre == IF lastScreenRect # NoRect /\ lostFrames < MaxLost THEN lastScreenRect ELSE Centre

\* Rectangles of a frame are relative to the region it was captured from.
Rect == spot - SearchCentre
drifted == lastValidRect # NoRect /\ Distance(lastValidRect, Rect) > BarPositionMaxDrift

PairLost ==
  /\ ~visible \/ ~sharp \/ Distance(spot, SearchCentre) > Reach
  /\ lostFrames' = IF lostFrames = MaxLost THEN MaxLost ELSE lostFrames + 1
  /\ lastScreenRect' = IF lostFrames' = MaxLost THEN NoRect ELSE lastScreenRect
  /\ status' = "lost"
  /\ UNCHANGED <<stabilizer, lows>>

\* The pair is there but the fill was not measured consistently.
readUnknownPreserveStreak == status' = "unknown" /\ UNCHANGED <<stabilizer, lows>>

readFull ==
  /\ status' = "full"
  /\ fullLatched' = TRUE /\ lowStreak' = 0 /\ lastValidRect' = Rect

StillAtOldRect == lastValidRect                  \* faulty variant
Followed == IF drifted THEN Rect ELSE lastValidRect

\* Latched on full, and the bar jumped or its right end is not clearly empty.
readUnknownFullLatched ==
  /\ status' = "unknown"
  /\ lastValidRect' = Followed
  /\ UNCHANGED <<fullLatched, lowStreak>>

NextStreak ==
  LET before == IF drifted THEN 0 ELSE lowStreak
  IN IF level >= threshold THEN 0
     ELSE IF before = PotConfirmReads THEN before ELSE before + 1

applyTrustedRead ==
  /\ fullLatched' = FALSE
  /\ lowStreak' = NextStreak
  /\ lastValidRect' = Rect
  /\ status' = IF lowStreak' = PotConfirmReads THEN "low" ELSE "ok"

applyFill ==
  /\ \/ level = FullBar /\ readFull
     \/ level < FullBar /\ fullLatched /\ (drifted \/ ~sharp) /\ readUnknownFullLatched
     \/ level < FullBar /\ (fullLatched => ~drifted) /\ applyTrustedRead
  /\ lows' = [t \in Thresholds |->
                IF level >= t THEN 0
                ELSE IF drifted THEN 1
                ELSE IF lows[t] = PotConfirmReads THEN lows[t] ELSE lows[t] + 1]

PairFound ==
  /\ visible /\ Distance(spot, SearchCentre) <= Reach
  /\ lastScreenRect' = spot /\ lostFrames' = 0
  /\ \/ applyFill
     \/ ~sharp /\ readUnknownPreserveStreak

\* A failed capture changes nothing.
CaptureFails == status' = "unknown" /\ UNCHANGED <<search, stabilizer, lows>>

ReadBars ==
  /\ \/ PairFound
     \/ PairLost
     \/ ~sharp /\ CaptureFails
  /\ UNCHANGED <<onScreen, threshold>>

PixelNext == ScreenChanges \/ Flicker \/ SetThreshold \/ ReadBars

\* The loop asks for a reading again and again.
PixelSpec == PixelInit /\ [][PixelNext]_pixelVars /\ WF_pixelVars(ReadBars)

(***************************************************************************)
(* Properties                                                              *)
(***************************************************************************)
PixelTypeOK ==
  /\ level \in 1 .. FullBar /\ spot \in Spots /\ visible \in BOOLEAN /\ sharp \in BOOLEAN
  /\ jumps \in 0 .. MaxJumps
  /\ lastScreenRect \in Spots \cup {NoRect} /\ lostFrames \in 0 .. MaxLost
  /\ threshold \in Thresholds
  /\ lastValidRect \in (-LastSpot .. LastSpot) \cup {NoRect} /\ fullLatched \in BOOLEAN
  /\ lowStreak \in 0 .. PotConfirmReads
  /\ status \in {"unknown", "lost", "full", "ok", "low"}
  /\ lows \in [Thresholds -> 0 .. PotConfirmReads]

\* A bar is reported low only when its latest PotConfirmReads measurements, at
\* one place, were all below the threshold now in force, through changes of
\* the threshold, noise and lost frames (bar_stabilizer.go:44-52, 132-207).
LowIsConfirmed == [][ReadBars /\ status' = "low" => lows'[threshold] = PotConfirmReads]_pixelVars

\* A bar that stays low in plain view near the middle of the screen is reported
\* low in the end, wherever it was seen before and whatever it was latched to.
InView == visible /\ sharp /\ Distance(spot, Centre) <= Reach /\ level < threshold /\ level < FullBar
ReactsInTime == InView ~> (status = "low" \/ ~InView)
=============================================================================
