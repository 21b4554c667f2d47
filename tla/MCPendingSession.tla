--------------------------- MODULE MCPendingSession ---------------------------
(***************************************************************************)
(* Instances of PendingSession for TLC.                                    *)
(***************************************************************************)
EXTENDS PendingSession

CONSTANTS w1, w2

(* An item to review; two headers; two items that may come late, of which  *)
(* one is bad or to be reviewed.                                           *)
Short == {<<"opener", "risky", "close", "close">>, <<"opener", "opener", "item", "close">>,
          <<"opener", "item", "bad", "close">>, <<"opener", "item", "risky", "close">>}
OneAnnounced == <<0, 0, 0, 1>>

(* The list is confirmed by its second closing message, or by its third.   *)
Thrice == {<<"opener", "risky", "close", "close", "close">>}
NoneAnnounced == <<0, 0, 0, 0, 0>>
=============================================================================
