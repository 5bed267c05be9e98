----------------------------- MODULE MCReaders -----------------------------
(* The three readers of AutoPot, which share no state: a behaviour is one  *)
(* of one reader, with the other two at rest.                              *)
EXTENDS StatusReader, PixelReader, AddressReader

VARIABLE inUse

readerVars == <<inUse, statusVars, pixelVars, addressVars>>

OCRAlone == inUse = "ocr" /\ UNCHANGED <<inUse, pixelVars, addressVars>>
PixelAlone == inUse = "pixel" /\ UNCHANGED <<inUse, statusVars, addressVars>>
AddressAlone == inUse = "address" /\ UNCHANGED <<inUse, statusVars, pixelVars>>

OCRAtRest == panel = Nowhere /\ clear /\ truth = CHOOSE m \in Maxima : TRUE
PixelAtRest == level = FullBar /\ spot = Centre /\ ~visible /\ sharp /\ threshold = CHOOSE t \in Thresholds : TRUE
AddressAtRest == running = {} /\ calm /\ titled

ReadersInit ==
  /\ StatusInit /\ PixelInit /\ AddressInit
  /\ \/ inUse = "ocr" /\ PixelAtRest /\ AddressAtRest
     \/ inUse = "pixel" /\ OCRAtRest /\ AddressAtRest
     \/ inUse = "address" /\ OCRAtRest /\ PixelAtRest

ReadersNext ==
  \/ OCRAlone /\ GameMoves
  \/ OCRAlone /\ Blur
  \/ OCRAlone /\ Expire
  \/ OCRAlone /\ StatusStep
  \/ PixelAlone /\ ScreenChanges
  \/ PixelAlone /\ Flicker
  \/ PixelAlone /\ SetThreshold
  \/ PixelAlone /\ ReadBars
  \/ AddressAlone /\ ClientsChange
  \/ AddressAlone /\ Disturb
  \/ AddressAlone /\ PassTime
  \/ AddressAlone /\ ReadMemory

\* The fairness of the three specifications.
ReadersSpec ==
  /\ ReadersInit /\ [][ReadersNext]_readerVars
  /\ WF_statusVars(OCRAlone /\ StatusStep)
  /\ WF_pixelVars(PixelAlone /\ ReadBars)
  /\ WF_addressVars(AddressAlone /\ ReadMemory) /\ WF_addressVars(AddressAlone /\ PassTime)
=============================================================================
