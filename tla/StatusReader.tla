---------------------------- MODULE StatusReader ----------------------------
(***************************************************************************)
(* The OCR reader of AutoPot: where the status panel is (strip_poller.go), *)
(* and which HP and SP maxima are believed (bar_reader.go).  The game may  *)
(* move or hide the panel and raise the maxima at any time; while the      *)
(* screen is not clear a capture may fail and a digit may be misread.      *)
(***************************************************************************)
EXTENDS Naturals

CONSTANTS
  Places, Nowhere,          \* where the panel can be; the empty rectangle
  Maxima, NoMaxima,         \* pairs HPMax, SPMax; one with a zero in it
  NoText,                   \* a parse error
  MaxMoves                  \* bound: moves of the panel, changes of the maxima

ASSUME StatusAssumption ==
  /\ NoMaxima \notin Maxima /\ NoText \notin Maxima \cup {NoMaxima} /\ Nowhere \notin Places
  /\ MaxMoves \in Nat

maxChangeConfirm == 3

VARIABLES
  panel, clear, truth, moves,     \* the game
  cached, validated,              \* StripPoller: panelRect, lastValidate is recent
  maxima, pending, pendingMax,    \* statusUIReader
  stage, round,                   \* where ReadValues is; confirmMaxima's i
  reading,                        \* the maxima of the reading it returned
  latest, agreed                  \* the last maxima parsed, how often in a row

screen == <<panel, clear, truth, moves>>
poller == <<cached, validated>>
believed == <<maxima, pending, pendingMax>>
seenSoFar == <<latest, agreed>>
statusVars == <<screen, poller, believed, stage, round, reading, seenSoFar>>

StatusInit ==
  /\ panel \in Places \cup {Nowhere} /\ clear \in BOOLEAN /\ truth \in Maxima /\ moves = 0
  /\ cached = Nowhere /\ validated = FALSE
  /\ maxima = NoMaxima /\ pending = NoMaxima /\ pendingMax = 0
  /\ stage = "idle" /\ round = 0 /\ reading = NoMaxima
  /\ latest = NoMaxima /\ agreed = 0

GameMoves ==
  /\ moves < MaxMoves /\ moves' = moves + 1
  /\ \/ panel' \in (Places \cup {Nowhere}) \ {panel} /\ UNCHANGED truth
     \/ truth' \in Maxima \ {truth} /\ UNCHANGED panel
  /\ UNCHANGED <<clear, poller, believed, stage, round, reading, seenSoFar>>

Blur ==
  /\ clear' = ~clear
  /\ UNCHANGED <<panel, truth, moves, poller, believed, stage, round, reading, seenSoFar>>

\* ValidateEvery has gone by.
Expire ==
  /\ validated /\ validated' = FALSE
  /\ UNCHANGED <<screen, cached, believed, stage, round, reading, seenSoFar>>

(***************************************************************************)
(* ReadValues                                                              *)
(***************************************************************************)
Begin ==
  /\ stage = "idle"
  /\ stage' = IF validated THEN "parse" ELSE "validate"
  /\ reading' = NoMaxima /\ round' = 0
  /\ UNCHANGED <<screen, poller, believed, seenSoFar>>

\* The cached rectangle first, then the whole screen; either may fail on a
\* frame that is not clear.
Confirmed == cached # Nowhere /\ panel = cached
Located == panel # Nowhere

Validate ==
  /\ stage \in {"validate", "retry", "revalidate"}
  /\ \/ /\ Confirmed \/ Located
        /\ cached' = panel /\ validated' = TRUE
        /\ stage' = IF stage = "revalidate" THEN "reparse" ELSE "parse"
     \/ /\ ~clear \/ ~Located
        /\ stage' = IF stage = "validate" THEN "retry" ELSE "idle"
        /\ UNCHANGED poller
  /\ UNCHANGED <<screen, believed, round, reading, seenSoFar>>

\* What a parse of the cached strip may give.
Text ==
  IF clear THEN {IF panel = cached THEN truth ELSE NoText}
  ELSE Maxima \cup {NoMaxima, NoText}

Invalidate == cached' = Nowhere /\ validated' = FALSE

Unparsed ==
  /\ IF stage = "parse" THEN Invalidate /\ stage' = "revalidate"
                        ELSE UNCHANGED poller /\ stage' = "idle"
  /\ UNCHANGED <<believed, round, reading, seenSoFar>>

Adopt(m) == maxima' = m /\ pending' = NoMaxima /\ pendingMax' = 0

CountKept == pendingMax                          \* faulty variant
CountReset == 0

Kept(m) == 1                                     \* faulty variant
Agreeing(m) == IF pending = m THEN pendingMax + 1 ELSE 1

\* acceptMaxima, when it accepts and when it does not.
Accepted(m) ==
  /\ m # NoMaxima
  /\ \/ m = maxima /\ pendingMax' = CountReset /\ UNCHANGED <<maxima, pending>>
     \/ m # maxima /\ (maxima = NoMaxima \/ Agreeing(m) >= maxChangeConfirm) /\ Adopt(m)

Refused(m) ==
  \/ m = NoMaxima /\ UNCHANGED believed
  \/ /\ m \notin {NoMaxima, maxima} /\ maxima # NoMaxima /\ Agreeing(m) < maxChangeConfirm
     /\ pending' = m /\ pendingMax' = Agreeing(m) /\ UNCHANGED maxima

\* confirmMaxima reads again at once, up to maxChangeConfirm times.
Parsed(m) ==
  /\ latest' = IF m = NoMaxima THEN latest ELSE m
  /\ agreed' = IF m = NoMaxima THEN agreed ELSE IF m = latest /\ agreed < maxChangeConfirm THEN agreed + 1
               ELSE IF m = latest THEN agreed ELSE 1
  /\ \/ Accepted(m) /\ reading' = m /\ stage' = "idle" /\ UNCHANGED round
     \/ /\ Refused(m) /\ UNCHANGED reading
        /\ round' = round + 1
        /\ stage' = IF round' < maxChangeConfirm THEN "confirm" ELSE "idle"
  /\ UNCHANGED poller

Parse ==
  /\ stage \in {"parse", "reparse", "confirm"}
  /\ \E t \in Text : IF t = NoText THEN Unparsed ELSE Parsed(t)
  /\ UNCHANGED screen

StatusStep == Begin \/ Validate \/ Parse
StatusNext == GameMoves \/ Blur \/ Expire \/ StatusStep

\* AutoPot asks for a reading again and again (mainLoop and probeOCR).
StatusSpec == StatusInit /\ [][StatusNext]_statusVars /\ WF_statusVars(StatusStep)

(***************************************************************************)
(* Properties                                                              *)
(***************************************************************************)
StatusTypeOK ==
  /\ panel \in Places \cup {Nowhere} /\ clear \in BOOLEAN /\ truth \in Maxima /\ moves \in 0 .. MaxMoves
  /\ cached \in Places \cup {Nowhere} /\ validated \in BOOLEAN
  /\ {maxima, pending, reading, latest} \subseteq Maxima \cup {NoMaxima}
  /\ pendingMax \in 0 .. maxChangeConfirm /\ agreed \in 0 .. maxChangeConfirm
  /\ stage \in {"idle", "validate", "retry", "parse", "revalidate", "reparse", "confirm"}
  /\ round \in 0 .. maxChangeConfirm

\* "New maxima are adopted only once maxChangeConfirm reads in a row report the
\* same ones" (bar_reader.go:305-315), also across readings that were given up.
MaximaConfirmed ==
  [][maxima' # maxima /\ maxima # NoMaxima => latest' = maxima' /\ agreed' >= maxChangeConfirm]_statusVars

\* A panel that can be seen is read with its true maxima in the end, wherever
\* it has moved and whatever was misread before.
ReadsAgain ==
  (clear /\ panel # Nowhere) ~> (reading = truth \/ ~clear \/ panel = Nowhere)
=============================================================================
