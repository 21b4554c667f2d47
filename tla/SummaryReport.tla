---------------------------- MODULE SummaryReport ----------------------------
(***************************************************************************)
(* What the summary of a slip batch promises to its chat and to its row,   *)
(* without OCR claims, row locks, leases, retry keys and crashes.  Images  *)
(* join a session and are verified; a cancelled session counts none of     *)
(* them, ever.  A claimed one is told about once, in verified images that  *)
(* stay so, and only then is its outcome stored: what was told, unless the *)
(* images were counted again, and once, unless an administrator sums the   *)
(* batch up beside another finalizer.                                      *)
(***************************************************************************)
CONSTANTS
    Images,
    Nothing         \* no stored outcome

VARIABLES
    stage,      \* "collecting", "closing", "claimed" or "cancelled"
    members,    \* the images of the batch
    good,       \* those whose check is verified
    told,       \* the summaries in the chat
    record,     \* the stored outcome
    rival,      \* two finalizers have been at work beside each other
    again       \* the images are counted again after a first telling

history == <<rival, again>>
vars == <<stage, members, good, told, record, history>>

Taking == {"collecting", "closing"}

Init ==
    /\ stage = "collecting"
    /\ members = {} /\ good = {}
    /\ told = <<>> /\ record = Nothing
    /\ rival = FALSE /\ again = FALSE

Join(i) ==
    /\ stage \in Taking
    /\ members' = members \cup {i}
    /\ UNCHANGED <<stage, good, told, record, history>>

(* A check may be verified, by a correction, after the summary is out. *)
Verify(i) ==
    /\ stage # "cancelled" /\ i \in members
    /\ good' = good \cup {i}
    /\ UNCHANGED <<stage, members, told, record, history>>

Close ==
    /\ stage = "collecting"
    /\ stage' = "closing"
    /\ UNCHANGED <<members, good, told, record, history>>

Cancel ==
    /\ stage = "collecting"
    /\ stage' = "cancelled"
    /\ good' = {}
    /\ UNCHANGED <<members, told, record, history>>

Claim ==
    /\ stage \in Taking
    /\ stage' = "claimed"
    /\ UNCHANGED <<members, good, told, record, history>>

Tell ==
    /\ stage = "claimed" /\ told = <<>>
    /\ \E S \in SUBSET good, gap \in BOOLEAN : told' = <<[counted |-> S, missing |-> gap]>>
    /\ UNCHANGED <<stage, members, good, record, history>>

(* What an outcome says of a batch of which S was counted. *)
Verdict(S, gap) ==
    IF S = {} THEN "failed" ELSE IF S = members /\ ~gap THEN "completed" ELSE "review_needed"

(* It is stored after it was told, as it was told or as counted again, and *)
(* more than once only by rivals.                                          *)
Store(S, gap) ==
    /\ stage = "claimed" /\ told # <<>>
    /\ S \subseteq good
    /\ ~rival => record = Nothing
    /\ ~rival /\ ~again => told[1] = [counted |-> S, missing |-> gap]
    /\ record' = [counted |-> S, as |-> Verdict(S, gap)]
    /\ UNCHANGED <<stage, members, good, told, history>>

(* Another finalizer takes the batch on. *)
TakeOn ==
    /\ stage = "claimed"
    /\ rival' \in {rival, TRUE} /\ again' \in {again, TRUE}
    /\ UNCHANGED <<stage, members, good, told, record>>

Next ==
    \/ \E i \in Images : Join(i) \/ Verify(i)
    \/ Close \/ Cancel \/ Claim \/ Tell \/ TakeOn
    \/ \E S \in SUBSET Images, gap \in BOOLEAN : Store(S, gap)

Spec == Init /\ [][Next]_vars
=============================================================================
