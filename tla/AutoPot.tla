------------------------------ MODULE AutoPot ------------------------------
(***************************************************************************)
(* The loop of app/runner/autopot: mainLoop (autopot.go), the choice of    *)
(* the reader and its recovery (reader_controller.go, reader_factory.go),  *)
(* the healer (healer.go) and the mode the overlay shows (status_sink.go). *)
(*                                                                         *)
(* A reader is what it returns: a snapshot of HP and SP, or nothing.       *)
(* HP and SP are levels one valueChangeTol apart.  Seconds are counted in  *)
(* ticks; a poll, a tap or a retry delay lasts less than one.              *)
(***************************************************************************)
EXTENDS Integers, FiniteSets

CONSTANTS
  Modes,                    \* what is configured: "address", "visual", "pixel"
  Full, Threshold,          \* a bar is at 0 .. Full, low below Threshold
  Lowest,                   \* bound: how far down each bar goes
  ocrProbeInterval, statusUIRetryInterval, noChangeTimeout, potsEndedDelay

Bars == {"HP", "SP"}
Levels == {f \in [Bars -> 0 .. Full] : \A b \in Bars : f[b] >= Lowest[b]}
Never == -1                 \* the zero time

ASSUME AutoPotAssumption ==
  /\ Full \in Nat /\ Threshold \in Nat /\ Lowest \in [Bars -> Nat]
  /\ {ocrProbeInterval, statusUIRetryInterval, noChangeTimeout, potsEndedDelay} \subseteq Nat

VARIABLES
  world,                    \* [level, readable]: the game, who can read it
  bound,                    \* live settings: the bars with a potion key
  pc, cancelled, left,      \* the goroutine, its context, what is left of a sleep
  address, ocr, using,      \* readerController: fixed readers, the active one
  nextOCRRetry, pixelFailStart,
  hadError,                 \* addressReader: its last read failed
  result,                   \* the reading in use, with the settings it goes with
  healing, initial,         \* the bar being healed, its first reading is at hand
  healStart, lastPct, potsEnded,
  mode,                     \* the label on the overlay
  unused                    \* history: ticks since mainLoop processed a valid reading

reader == <<address, ocr, using, nextOCRRetry, pixelFailStart, hadError>>
heal == <<healing, initial, healStart, lastPct, potsEnded>>
env == <<world, bound>>
vars == <<env, pc, cancelled, left, reader, result, heal, mode, unused>>

Diff(a, b) == IF a > b THEN a - b ELSE b - a

NoReading == [found |-> FALSE, level |-> [b \in Bars |-> 0], low |-> {}, keys |-> {}]

LowTogether(w) == IF \A b \in Bars : w.level[b] < Threshold THEN Bars ELSE {}   \* faulty variant
LowBars(w) == {b \in Bars : w.level[b] < Threshold}

\* What a reader makes of the game: the pixel bars must be low three times in
\* a row, so a low bar need not be reported.
Snapshot(w, by) ==
  IF by \notin w.readable THEN {NoReading}
  ELSE [found : {TRUE}, level : {w.level}, keys : {bound},
        low : IF by = "pixel" THEN SUBSET LowBars(w) ELSE {LowBars(w)}]

\* publishStatus: the address reader speaks up when its state changes.
Announced(found, err, label) ==
  IF using # "address" \/ found = ~err THEN label
  ELSE IF found THEN "Address reading" ELSE "Address err"

Readers == IF address THEN {"address"} ELSE IF ocr THEN {"ocr", "pixel"} ELSE {"pixel"}

Init ==
  /\ bound \in SUBSET Bars
  /\ pc = "loop" /\ cancelled = FALSE /\ left = 0
  /\ \E m \in Modes :
       /\ address = (m = "address") /\ ocr = (m = "visual")
       /\ using = IF m = "address" THEN "address" ELSE IF m = "visual" THEN "ocr" ELSE "pixel"
  /\ world \in [level : Levels, readable : SUBSET Readers]
  /\ mode = CASE address -> "Address reading" [] ocr -> "Searching..." [] OTHER -> "Pixelsearch"
  /\ nextOCRRetry = 0 /\ pixelFailStart = Never /\ hadError = FALSE
  /\ result = NoReading
  /\ healing = "no" /\ initial = FALSE /\ healStart = Never /\ lastPct = Never /\ potsEnded = FALSE
  /\ unused = 0

(***************************************************************************)
(* The game, the tab and the clock                                         *)
(***************************************************************************)
\* Blows, potions and rest.  The game moves on while the loop sleeps, taps or
\* probes, and a reading takes it as it is then.
Change ==
  /\ left > 0
  /\ \E b \in Bars, f \in Levels :
       Diff(f[b], world.level[b]) = 1 /\ world' = [world EXCEPT !.level = [@ EXCEPT ![b] = f[b]]]
  /\ UNCHANGED <<bound, pc, cancelled, left, reader, result, heal, mode, unused>>

Toggled(s, x) == IF x \in s THEN s \ {x} ELSE s \cup {x}

Reappear ==
  /\ left > 0
  /\ \E r \in Readers : world' = [world EXCEPT !.readable = Toggled(@, r)]
  /\ UNCHANGED <<bound, pc, cancelled, left, reader, result, heal, mode, unused>>

UpdateSettings ==
  /\ \E b \in Bars : bound' = Toggled(bound, b)
  /\ UNCHANGED <<world, pc, cancelled, left, reader, result, heal, mode, unused>>

Stop ==
  /\ pc # "off" /\ ~cancelled /\ cancelled' = TRUE
  /\ UNCHANGED <<env, pc, left, reader, result, heal, mode, unused>>

Later(t, most) == IF t = Never \/ t = most THEN t ELSE t + 1

\* A tap, a probe or a short sleep has at most one tick in it, a long one all of
\* its own.
Tick ==
  /\ left > 0 /\ left' = left - 1
  /\ nextOCRRetry' = IF nextOCRRetry = 0 THEN 0 ELSE nextOCRRetry - 1
  /\ pixelFailStart' = Later(pixelFailStart, statusUIRetryInterval)
  /\ healStart' = Later(healStart, noChangeTimeout)
  /\ unused' = Later(unused, statusUIRetryInterval)
  /\ UNCHANGED <<env, pc, cancelled, address, ocr, using, hadError,
                 result, healing, initial, lastPct, potsEnded, mode>>

Short(to) == pc' = to /\ left' = 1
Long(to, n) == pc' = to /\ left' = n
Go(to) == pc' = to /\ left' = 0

(***************************************************************************)
(* mainLoop and readerController                                           *)
(***************************************************************************)
Loop ==
  /\ pc = "loop"
  /\ IF cancelled THEN Go("off") /\ UNCHANGED <<result, hadError, mode>>
     ELSE /\ result' \in Snapshot(world, using)
          /\ hadError' = (using = "address" /\ ~result'.found)
          /\ mode' = Announced(result'.found, hadError, mode)
          /\ Go("process")
  /\ UNCHANGED <<env, cancelled, address, ocr, using, nextOCRRetry, pixelFailStart, heal, unused>>

AddressFailure ==
  /\ using = "address" /\ ~result.found
  /\ Short("nap")
  /\ UNCHANGED <<reader, mode>>

switchToPixel ==
  /\ using = "ocr" /\ ~result.found
  /\ using' = "pixel" /\ mode' = "Pixelsearch"
  /\ nextOCRRetry' = ocrProbeInterval
  /\ Go("loop")                                  \* too early for a probe
  /\ UNCHANGED <<address, ocr, pixelFailStart, hadError>>

handlePixelFailure ==
  /\ using = "pixel" /\ ~result.found
  /\ pixelFailStart' = IF pixelFailStart = Never THEN 0 ELSE pixelFailStart
  /\ IF pixelFailStart' < statusUIRetryInterval
     THEN Short("retry")
     ELSE Long("longRetry", statusUIRetryInterval)
  /\ UNCHANGED <<address, ocr, using, nextOCRRetry, hadError, mode>>

ForgetNothing == pixelFailStart                  \* faulty variant
Forgotten == Never

\* HP first, then SP; the healer starts with the reading at hand.
Neediest == IF "HP" \in result.low \cap result.keys THEN "HP" ELSE "SP"

Valid ==
  /\ result.found
  /\ pixelFailStart' = Forgotten                          \* markValid
  /\ IF result.low \cap result.keys = {} THEN Go("probe") /\ UNCHANGED heal
     ELSE /\ healing' = Neediest /\ initial' = TRUE
          /\ healStart' = Never /\ lastPct' = Never /\ potsEnded' = FALSE
          /\ Go("heal")
  /\ unused' = 0
  /\ UNCHANGED <<address, ocr, using, nextOCRRetry, hadError, mode>>

Process ==
  /\ pc = "process"
  /\ \/ (AddressFailure \/ switchToPixel \/ handlePixelFailure) /\ UNCHANGED <<heal, unused>>
     \/ Valid
  /\ result' = IF pc' = "heal" THEN result ELSE NoReading
  /\ UNCHANGED <<env, cancelled>>

PutOff == ocrProbeInterval                       \* faulty variant
Due == nextOCRRetry
Probing == using = "pixel" /\ ocr /\ Due = 0

\* A failed pass probes after its sleep and does not poll; a valid one polls.
\* A probe that succeeds brings the OCR reader back, but neither is its reading
\* processed nor is pixelFailStart forgotten: the next reading decides.
probeOCR ==
  /\ pc \in {"probe", "retry", "longRetry"} /\ (pc = "longRetry" => left = 0 \/ cancelled)
  /\ IF Probing
     THEN /\ nextOCRRetry' = ocrProbeInterval
          /\ IF ~cancelled /\ "ocr" \in world.readable
             THEN using' = "ocr" /\ mode' = "OCR"
             ELSE UNCHANGED <<using, mode>>
     ELSE nextOCRRetry' = Due /\ UNCHANGED <<using, mode>>
  /\ IF pc = "probe" THEN Short("nap") ELSE IF Probing THEN Short("loop") ELSE Go("loop")
  /\ UNCHANGED <<env, cancelled, address, ocr, pixelFailStart, hadError, result, heal, unused>>

Wake ==
  /\ pc \in {"nap", "endedNap"} /\ (pc = "endedNap" => left = 0 \/ cancelled)
  /\ Go(IF pc = "nap" THEN "loop" ELSE "heal")
  /\ UNCHANGED <<env, cancelled, reader, result, heal, mode, unused>>

(***************************************************************************)
(* healUntilWithInitial                                                    *)
(***************************************************************************)
\* The deferred clearPotsEndedMode, given the label at the return.
ClearAlways(label) == label                      \* faulty variant
Cleared(label) == IF potsEnded THEN "" ELSE label

Return(label) ==
  /\ healing' = "no" /\ initial' = FALSE /\ healStart' = Never /\ lastPct' = Never
  /\ potsEnded' = FALSE
  /\ mode' = Cleared(label)
  /\ Go("loop")

\* potsEndedStep: from noChangeTimeout after the start of the heal on, two
\* readings in a row that agree are enough.
EndsNow(age, pct, last) == ~potsEnded /\ age >= noChangeTimeout /\ Diff(pct, last) < 1

HealPass(r) ==
  LET pct == r.level[healing]
      age == IF healStart = Never THEN 0 ELSE healStart
      last == IF healStart = Never THEN pct ELSE lastPct
      ended == potsEnded \/ EndsNow(age, pct, last)
  IN /\ hadError' = (using = "address" /\ ~r.found)
     /\ \/ /\ ~r.found \/ pct >= Threshold
           /\ Return(IF r.found THEN Announced(TRUE, hadError, mode) ELSE mode)
        \/ /\ r.found /\ pct < Threshold
           /\ initial' = FALSE
           /\ Short("tap")
           /\ IF ended /\ Diff(pct, last) < 1
              THEN /\ potsEnded' = TRUE /\ healStart' = age /\ lastPct' = last
                   /\ mode' = "pots ended"
              ELSE /\ potsEnded' = FALSE /\ lastPct' = pct
                   /\ healStart' = IF ended THEN 0 ELSE age
                   /\ mode' = IF ended THEN "" ELSE Announced(TRUE, hadError, mode)
           /\ UNCHANGED healing

Heal ==
  /\ pc = "heal"
  /\ result' = NoReading
  /\ \/ /\ cancelled \/ healing \notin bound
        /\ Return(mode) /\ UNCHANGED hadError
     \/ /\ ~cancelled /\ healing \in bound
        /\ \E r \in IF initial THEN {result} ELSE Snapshot(world, using) : HealPass(r)
  /\ UNCHANGED <<env, cancelled, address, ocr, using, nextOCRRetry, pixelFailStart, unused>>

\* With empty pots the effect of the tap is read at once, and the next tap
\* waits; a failed tap ends the heal.
TapEnds ==
  /\ pc = "tap"
  /\ \/ Return(mode) /\ UNCHANGED hadError
     \/ /\ ~potsEnded /\ Go("heal") /\ UNCHANGED <<heal, mode, hadError>>
     \/ /\ potsEnded
        /\ \E r \in Snapshot(world, using) :
             /\ hadError' = (using = "address" /\ ~r.found)
             /\ IF r.found /\ Diff(r.level[healing], lastPct) >= 1
                THEN /\ potsEnded' = FALSE /\ healStart' = 0 /\ mode' = ""
                     /\ Go("heal")
                ELSE /\ mode' = IF r.found THEN Announced(TRUE, hadError, mode) ELSE mode
                     /\ Long("endedNap", potsEndedDelay)
                     /\ UNCHANGED <<potsEnded, healStart>>
        /\ UNCHANGED <<healing, initial, lastPct>>
  /\ UNCHANGED <<env, cancelled, address, ocr, using, nextOCRRetry, pixelFailStart, result, unused>>

LoopStep == Loop \/ Process \/ probeOCR \/ Wake \/ Heal \/ TapEnds

Next == Change \/ Reappear \/ UpdateSettings \/ Stop \/ Tick \/ LoopStep

\* The goroutine is scheduled, reads and taps return, and time goes on.
Spec == Init /\ [][Next]_vars /\ WF_vars(LoopStep) /\ SF_vars(Tick)

(***************************************************************************)
(* Properties                                                              *)
(***************************************************************************)
TypeOK ==
  /\ world \in [level : Levels, readable : SUBSET {"address", "ocr", "pixel"}]
  /\ bound \subseteq Bars
  /\ pc \in {"loop", "process", "probe", "retry", "longRetry", "nap", "heal", "tap", "endedNap", "off"}
  /\ cancelled \in BOOLEAN /\ left \in 0 .. statusUIRetryInterval
  /\ address \in BOOLEAN /\ ocr \in BOOLEAN /\ using \in {"address", "ocr", "pixel"}
  /\ nextOCRRetry \in 0 .. ocrProbeInterval
  /\ pixelFailStart \in Never .. statusUIRetryInterval
  /\ hadError \in BOOLEAN
  /\ healing \in Bars \cup {"no"} /\ initial \in BOOLEAN
  /\ healStart \in Never .. noChangeTimeout /\ lastPct \in Never .. Full /\ potsEnded \in BOOLEAN
  /\ unused \in 0 .. statusUIRetryInterval

\* The loop goes blind for five seconds only when no reading it processed in the
\* last five was valid, through whichever switches between the readers
\* (reader_controller.go:83-118).  The reading of a probe is not processed, and
\* does not count: after a probe that succeeds at 4.9 seconds and an OCR reading
\* that fails, the loop goes blind just after it has seen the panel.
LongRetryOnlyAfterLoss ==
  pc = "process" /\ using = "pixel" /\ ~result.found /\ pixelFailStart = statusUIRetryInterval
    => unused = statusUIRetryInterval

\* The overlay says "pots ended" only during a heal that has slowed down
\* (healer.go:36-39, 105-145).
EndedLabelIsTrue == mode = "pots ended" => potsEnded

\* The OCR reader comes back into use when it can read again, unless potions
\* are being drunk (reader_controller.go:98-113).
OCRComesBack ==
  (using = "pixel" /\ ocr /\ "ocr" \in world.readable)
    ~> (using = "ocr" \/ "ocr" \notin world.readable \/ healing # "no" \/ cancelled)

\* A low HP that the OCR or the address reader can see is answered with its
\* potion, unless the loop is busy with SP.
LowIsAnswered ==
  (using \in world.readable \ {"pixel"} /\ world.level["HP"] < Threshold /\ "HP" \in bound)
    ~> (\/ pc = "tap" \/ healing = "SP" \/ cancelled
        \/ using \notin world.readable \ {"pixel"}
        \/ world.level["HP"] >= Threshold \/ "HP" \notin bound)
=============================================================================
