------------------------- MODULE MCPurchaseCapture -------------------------
(***************************************************************************)
(* Instances of PurchaseCapture for TLC: a document of three messages, one *)
(* sent after the close, the sweep and one finalizer that overlaps it.     *)
(***************************************************************************)
EXTENDS PurchaseCapture

CONSTANTS h, c, i1, z1, p1, f1, w1
=============================================================================
