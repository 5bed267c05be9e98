----------------------------- MODULE MCAutoPot -----------------------------
(* HP has two low levels and a good one, SP one of each.                   *)
EXTENDS AutoPot

TwoBars == [HP |-> 0, SP |-> 1]

\* The OCR reader, once back, is not given up while the failure of the pixel
\* reader is still held against it.  (MCAutoPotProbe.cfg: it may be, and the next
\* failure of the pixel reader puts the loop to sleep at once.)
StartsAfresh == [][using = "ocr" /\ using' = "pixel" => pixelFailStart # statusUIRetryInterval]_vars
=============================================================================
