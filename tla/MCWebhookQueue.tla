--------------------------- MODULE MCWebhookQueue ---------------------------
(***************************************************************************)
(* Instances of WebhookQueue for TLC.  One group sends an item and a close *)
(* in one payload, and an item whose LINE time lies before the close but   *)
(* whose webhook arrives on its own, at any time.                          *)
(***************************************************************************)
EXTENDS WebhookQueue, TLC

CONSTANTS image, close, late, group

OneGroup == {group}
MCEvents == {image, close, late}
MCSource == [e \in MCEvents |-> group]
MCStamp == [e \in MCEvents |-> CASE e = image -> 1 [] e = late -> 2 [] e = close -> 3]
MCImages == {image}
MCPayloads == {<<image, close>>, <<late>>}

(* A lone pair of events of one group, the later one received first. *)
PairEvents == {close, late}
PairSource == [e \in PairEvents |-> group]
PairStamp == [e \in PairEvents |-> IF e = late THEN 1 ELSE 2]
PairPayloads == {<<close>>, <<late>>}

Symmetry == Permutations(Invocations)
=============================================================================
