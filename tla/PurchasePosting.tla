--------------------------- MODULE PurchasePosting ---------------------------
(***************************************************************************)
(* What a purchase capture promises to its sender and to the stock ledger, *)
(* without barriers, finalizers, revisions or retries.  Messages are taken *)
(* until a document is shown to the sender or found not to be one; what is *)
(* posted is the draft that was shown last, once, after the sender agreed  *)
(* to it; from then on nothing takes the agreement back.                   *)
(***************************************************************************)
CONSTANTS
    Messages,
    Drafts,         \* what a document may say
    Postable,       \* the drafts with every product resolved
    Nothing         \* no draft

VARIABLES
    stage,      \* "taking", "shown", "agreed", "posted", "failed" or "cancelled"
    taken,      \* the messages taken
    whole,      \* whether they make a document, as long as they are taken
    shown,      \* the draft the sender was shown last
    stock       \* the draft that was posted

vars == <<stage, taken, whole, shown, stock>>

Init ==
    /\ stage = "taking"
    /\ taken = {}
    /\ whole \in BOOLEAN
    /\ shown = Nothing
    /\ stock = Nothing

(* Messages come in, or the document is declared to end.                   *)
Take(M) ==
    /\ stage = "taking"
    /\ taken' = taken \cup M
    /\ whole' \in BOOLEAN
    /\ UNCHANGED <<stage, shown, stock>>

(* A draft is shown for a document that is whole, and another one as long  *)
(* as the sender has not agreed.                                           *)
Show ==
    /\ \/ stage = "taking" /\ whole
       \/ stage = "shown"
    /\ stage' = "shown"
    /\ shown' \in Drafts \ {shown}
    /\ UNCHANGED <<taken, whole, stock>>

Agree ==
    /\ stage = "shown" /\ shown \in Postable
    /\ stage' = "agreed"
    /\ UNCHANGED <<taken, whole, shown, stock>>

Post ==
    /\ stage = "agreed" /\ stock = Nothing
    /\ stock' = shown
    /\ UNCHANGED <<stage, taken, whole, shown>>

Announce ==
    /\ stage = "agreed" /\ stock # Nothing
    /\ stage' = "posted"
    /\ UNCHANGED <<taken, whole, shown, stock>>

Fail ==
    /\ stage = "taking" /\ ~whole
    /\ stage' = "failed"
    /\ UNCHANGED <<taken, whole, shown, stock>>

Cancel ==
    /\ stage \in {"taking", "shown"}
    /\ stage' = "cancelled"
    /\ UNCHANGED <<taken, whole, shown, stock>>

Next ==
    \/ \E M \in SUBSET Messages : Take(M)
    \/ Show \/ Agree \/ Post \/ Announce \/ Fail \/ Cancel

Spec == Init /\ [][Next]_vars
=============================================================================
