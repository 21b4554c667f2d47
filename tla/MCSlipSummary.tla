--------------------------- MODULE MCSlipSummary ---------------------------
(***************************************************************************)
(* Instances of SlipSummary for TLC: one image whose OCR claim may be      *)
(* overtaken, and two finalizers.                                          *)
(***************************************************************************)
EXTENDS SlipSummary

CONSTANTS i1, f1, f2
=============================================================================
