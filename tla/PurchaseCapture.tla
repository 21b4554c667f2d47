-------------------------- MODULE PurchaseCapture --------------------------
(***************************************************************************)
(* One purchase-capture session from its opening message to the stock      *)
(* movement: the messages admitted under the close barrier, the finalizers *)
(* that read a candidate, save the receipt's draft and finalize, the       *)
(* commands confirm, recheck and cancel, the recovery of sessions stuck in *)
(* confirming and the outbox of previews and of the success notice.        *)
(*                                                                         *)
(* Every RPC is one step: it locks the session, then the receipt.  What a  *)
(* run carries from one call to the next is in fin and req; a run that     *)
(* dies is one that takes no further step.  A call that is refused changes *)
(* nothing and ends its run.                                               *)
(***************************************************************************)
EXTENDS Naturals, Sequences

CONSTANTS
    Header, Close,  \* the opening message and the closing one
    Before,         \* messages sent between the two
    After,          \* messages sent after the closing one
    Document,       \* the messages that assemble to a complete document
    Identities,     \* products a line of the document may resolve to
    Unresolved,     \* it resolves to none
    Finalizers,     \* runs of finalizePurchaseCaptureSession
    Runners,        \* runs of a command or of the recovery
    Sweep,          \* the cron's: a finalizer and a runner
    MaxOverlap,     \* bound on the runs of finalizers beside the sweep's
    MaxRechecks,    \* bound on rechecks
    MaxFaults,      \* bound on kills of the sweep and failed pushes
    Nobody

Messages == {Header, Close} \cup Before \cup After
ASSUME SweepAssumption == Sweep \in Finalizers /\ Sweep \in Runners
ASSUME BoundAssumption ==
    MaxOverlap \in Nat /\ MaxRechecks \in Nat /\ MaxFaults \in Nat
ASSUME NullAssumption == Nobody \notin Messages

VARIABLES
    form,       \* "one": the opening message holds the whole document
    status,     \* purchase_capture_sessions.status
    admitted,   \* purchase_capture_session_ingests
    boundary,   \* the message that set close_event_timestamp_ms
    phase,      \* of the close barrier, while closing: quiet, due, over its deadline
    bound,      \* purchase_capture_sessions.draft_revision, 0 for null
    receipt,    \* the receipt keyed by the opening message
    movement,   \* the draft posted to the inventory ledger
    outbox,     \* purchase_capture_notifications
    fin,        \* what each finalizer is doing
    req,        \* what each command or recovery is doing
    overlaps,   \* runs of finalizers beside the sweep's so far
    rechecks,   \* rechecks so far
    faults      \* kills and failed pushes so far

session == <<form, status, admitted, boundary, phase, bound>>
ledger == <<receipt, movement>>
budget == <<overlaps, rechecks, faults>>
vars == <<session, ledger, outbox, fin, req, budget>>

Whos == Identities \cup {Unresolved}
NoMovement == [rev |-> 0, who |-> Unresolved]
NoReceipt == [state |-> "none", rev |-> 0, who |-> Unresolved]
NoRun == [at |-> "idle", seen |-> {}, who |-> Unresolved, rev |-> 0]
NoRequest == [at |-> "idle", rev |-> 0, who |-> Unresolved]
Posted == movement # NoMovement

Part(kind, rev, who) == [kind |-> kind, rev |-> rev, who |-> who, state |-> "pending"]

Fault == faults < MaxFaults /\ faults' = faults + 1

-----------------------------------------------------------------------------
(***************************************************************************)
(* Messages: open, admit, the close barrier.                               *)
(***************************************************************************)
(* The messages of a set whose LINE time is not after the boundary.        *)
Eligible(set) ==
    CASE boundary = Nobody -> set
      [] boundary = Header -> set \cap {Header}
      [] OTHER -> set \ After

(* assemblePurchaseEvidence: the close declares how many items there are,  *)
(* so neither a missing nor an extra message makes a document.             *)
Complete(set) == Eligible(set) = IF form = "one" THEN {Header} ELSE Document

OpenSession ==
    /\ status = "none"
    /\ status' = "open"
    /\ admitted' = {Header}
    /\ UNCHANGED <<form, boundary, phase, bound, ledger, outbox, fin, req, budget>>

(* Mutant: the barrier's times are not set with the status.                *)
StartClosingBare(message) ==
    /\ status' = "closing"
    /\ boundary' = message
    /\ UNCHANGED phase

(* The barrier starts: 8 seconds of quiet, a deadline of 30.               *)
StartClosing(message) ==
    /\ status' = "closing"
    /\ boundary' = message
    /\ phase' = "quiet"

(* close_purchase_capture_open_event, for a whole document in one message. *)
(* Its run may be late, or die after the open: a redelivery then finds an  *)
(* open session, admits the event as a close and is refused, because the   *)
(* event is known as a header.                                             *)
CloseOpenEvent ==
    /\ form = "one" /\ status = "open"
    /\ StartClosing(Header)
    /\ UNCHANGED <<form, admitted, bound, ledger, outbox, fin, req, budget>>

(* What admit_purchase_capture_event accepts as a new message.  Who sends  *)
(* a whole document sends no parts of it.                                  *)
Admits(m) ==
    /\ m \in Before => form = "many"
    /\ \/ status = "open"
       \/ status = "closing" /\ phase # "over" /\ m # Close /\ Eligible({m}) = {m}

Admit(m) ==
    /\ Admits(m) /\ m \notin admitted
    /\ admitted' = admitted \cup {m}
    /\ IF m = Close THEN StartClosing(Close) ELSE UNCHANGED <<status, boundary, phase>>
    /\ UNCHANGED <<form, bound, ledger, outbox, fin, req, budget>>

BarrierPasses ==
    /\ status = "closing"
    /\ \/ phase = "quiet" /\ phase' = "due"
       \/ phase = "due" /\ phase' = "over"
    /\ UNCHANGED <<form, status, admitted, boundary, bound, ledger, outbox, fin,
                   req, budget>>

Cancellable == status \in {"open", "closing", "awaiting_confirmation"}

Cancel ==
    /\ Cancellable
    /\ status' = "cancelled" /\ phase' = "none"
    /\ UNCHANGED <<form, admitted, boundary, bound, ledger, outbox, fin, req, budget>>

-----------------------------------------------------------------------------
(***************************************************************************)
(* finalizePurchaseCaptureSession.                                         *)
(***************************************************************************)
(* Mutant: a session whose deadline has passed is not due any more.        *)
DueBeforeDeadline == status = "closing" /\ phase = "due"

Due == status = "closing" /\ phase \in {"due", "over"}

FinEnds(f) == fin' = [fin EXCEPT ![f] = NoRun]

(* The candidate and the product registry, read outside every lock.  An    *)
(* administrator may change the registry at any time, so any read may find *)
(* any product.  A run beside the sweep's starts when sweeps overlap; the  *)
(* reads after a stale candidate belong to the same run.                   *)
ReadCandidate(f, who) ==
    /\ fin[f].at \in {"idle", "again"} /\ Due
    /\ IF f = Sweep \/ fin[f].at = "again"
       THEN UNCHANGED overlaps
       ELSE overlaps < MaxOverlap /\ overlaps' = overlaps + 1
    /\ fin' = [fin EXCEPT ![f] =
                  [at |-> IF Complete(admitted) THEN "parsed" ELSE "flawed",
                   seen |-> admitted, who |-> IF Complete(admitted) THEN who ELSE Unresolved,
                   rev |-> 0]]
    /\ UNCHANGED <<session, ledger, outbox, req, rechecks, faults>>

(* saveDraft: upsert_purchase_receipt_draft knows nothing of the session.  *)
SaveDraft(f) ==
    /\ fin[f].at = "parsed"
    /\ IF receipt.state = "confirmed"
       THEN FinEnds(f) /\ UNCHANGED receipt
       ELSE /\ receipt' = [state |-> "draft", rev |-> receipt.rev + 1, who |-> fin[f].who]
            /\ fin' = [fin EXCEPT ![f].at = "saved", ![f].rev = receipt.rev + 1]
    /\ UNCHANGED <<session, movement, outbox, req, budget>>

(* The preview is rendered from what the receipt holds by then.            *)
LoadPreview(f) ==
    /\ fin[f].at = "saved"
    /\ fin' = [fin EXCEPT ![f].at = "rendered", ![f].who = receipt.who]
    /\ UNCHANGED <<session, ledger, outbox, req, budget>>

(* Mutant: the candidate's revision and hash are not compared.             *)
CurrentAlways(f) == TRUE

(* The ingest revision and the hash are still the candidate's.             *)
Current(f) == fin[f].seen = admitted

(* A run that finds its candidate stale reads again; one that is refused   *)
(* ends, and the next sweep finds the session again if it is still due.    *)
FinalizeRefused(f) ==
    /\ fin[f].at \in {"flawed", "rendered"}
    /\ IF Due /\ ~Current(f) THEN fin' = [fin EXCEPT ![f] = [NoRun EXCEPT !.at = "again"]] ELSE
       /\ ~(Due /\ fin[f].at = "flawed")
       /\ ~(Due /\ receipt.state = "draft" /\ receipt.rev = fin[f].rev)
       /\ FinEnds(f)
    /\ UNCHANGED <<session, ledger, outbox, req, budget>>

FinalizeFailed(f) ==
    /\ fin[f].at = "flawed" /\ Due /\ Current(f)
    /\ status' = "failed_closed" /\ phase' = "none"
    /\ FinEnds(f)
    /\ UNCHANGED <<form, admitted, boundary, bound, ledger, outbox, req, budget>>

FinalizeSucceeds(f) ==
    /\ fin[f].at = "rendered" /\ Due /\ Current(f)
    /\ receipt.state = "draft" /\ receipt.rev = fin[f].rev
    /\ status' = "awaiting_confirmation" /\ phase' = "none"
    /\ bound' = fin[f].rev
    /\ outbox' = Append(outbox, Part("preview_ready", fin[f].rev, fin[f].who))
    /\ FinEnds(f)
    /\ UNCHANGED <<form, admitted, boundary, ledger, req, budget>>

-----------------------------------------------------------------------------
(***************************************************************************)
(* Confirm and its recovery.                                               *)
(***************************************************************************)
ReqAt(r, at) == req' = [req EXCEPT ![r].at = at]
ReqEnds(r) == req' = [req EXCEPT ![r] = NoRequest]

(* runShared reads the session.  A command begins when its lookup finds it *)
(* awaiting, which may be over by this read; the recovery never begins a   *)
(* confirmation.                                                           *)
StartConfirm(r) ==
    /\ req[r].at = "idle"
    /\ status \in IF r = Sweep THEN {"confirming"} ELSE {"awaiting_confirmation", "confirming"}
    /\ req' = [req EXCEPT ![r] =
                  [at |-> IF status = "confirming" THEN "confirm" ELSE "begin",
                   rev |-> bound, who |-> Unresolved]]
    /\ UNCHANGED <<session, ledger, outbox, fin, budget>>

(* begin_purchase_capture_confirmation.                                    *)
BeginsOn(r) ==
    /\ status = "awaiting_confirmation" /\ bound = req[r].rev
    /\ receipt.state = "draft" /\ receipt.rev = req[r].rev
    /\ receipt.who # Unresolved

Begin(r) ==
    /\ req[r].at = "begin"
    /\ IF BeginsOn(r)
       THEN status' = "confirming" /\ ReqAt(r, "confirm")
       ELSE ReqEnds(r) /\ UNCHANGED status
    /\ UNCHANGED <<form, admitted, boundary, phase, bound, ledger, outbox, fin, budget>>

(* Mutant: confirm takes the draft as it is.                               *)
ConfirmsAnyDraft(r) == receipt.state = "draft"

(* confirm_purchase_receipt freezes the draft of the expected revision.    *)
ConfirmsDraft(r) == receipt.state = "draft" /\ receipt.rev = req[r].rev

Confirm(r) ==
    /\ req[r].at = "confirm"
    /\ IF receipt.state = "confirmed" THEN ReqAt(r, "post") /\ UNCHANGED receipt
       ELSE IF ConfirmsDraft(r)
       THEN receipt' = [receipt EXCEPT !.state = "confirmed"] /\ ReqAt(r, "post")
       ELSE ReqEnds(r) /\ UNCHANGED receipt
    /\ UNCHANGED <<session, movement, outbox, fin, budget>>

(* post_purchase_receipt_inventory_movement: what is posted is the frozen  *)
(* receipt, once; a replay is told so.                                     *)
Post(r) ==
    /\ req[r].at = "post"
    /\ IF Posted THEN UNCHANGED movement /\ ReqAt(r, "complete")
       ELSE IF receipt.who # Unresolved
       THEN movement' = [rev |-> receipt.rev, who |-> receipt.who] /\ ReqAt(r, "complete")
       ELSE UNCHANGED movement /\ ReqEnds(r)
    /\ UNCHANGED <<session, receipt, outbox, fin, budget>>

(* complete_purchase_capture_posting: the success notice with the status.  *)
(* A replay finds the parts it would create.                               *)
CompletePosting(r) ==
    /\ req[r].at = "complete"
    /\ IF status = "confirming"
       THEN /\ status' = "posted"
            /\ outbox' = Append(outbox, Part("posted_success", bound, movement.who))
       ELSE UNCHANGED <<status, outbox>>
    /\ ReqEnds(r)
    /\ UNCHANGED <<form, admitted, boundary, phase, bound, ledger, fin, budget>>

-----------------------------------------------------------------------------
(***************************************************************************)
(* Recheck: the draft is built again from the same messages.               *)
(***************************************************************************)
StartRecheck(r, who) ==
    /\ r # Sweep /\ req[r].at = "idle"
    /\ status = "awaiting_confirmation"
    /\ rechecks < MaxRechecks /\ rechecks' = rechecks + 1
    /\ req' = [req EXCEPT ![r] = [at |-> "replace", rev |-> bound, who |-> who]]
    /\ UNCHANGED <<session, ledger, outbox, fin, overlaps, faults>>

ReplacesOn(r) ==
    /\ status = "awaiting_confirmation" /\ bound = req[r].rev
    /\ receipt.state = "draft" /\ receipt.rev = req[r].rev

(* Older previews that are not being pushed are superseded.                *)
Superseded(p) ==
    IF p.kind = "preview_ready" /\ p.state \in {"pending", "failed"}
    THEN [p EXCEPT !.state = "superseded"] ELSE p

(* replace_purchase_capture_draft.                                         *)
Replace(r) ==
    /\ req[r].at = "replace"
    /\ IF ReplacesOn(r)
       THEN /\ receipt' = [receipt EXCEPT !.rev = @ + 1, !.who = req[r].who]
            /\ bound' = receipt.rev + 1
            /\ outbox' = Append([k \in DOMAIN outbox |-> Superseded(outbox[k])],
                                Part("preview_ready", receipt.rev + 1, req[r].who))
       ELSE UNCHANGED <<receipt, bound, outbox>>
    /\ ReqEnds(r)
    /\ UNCHANGED <<form, status, admitted, boundary, phase, movement, fin, budget>>

-----------------------------------------------------------------------------
(***************************************************************************)
(* The outbox, and what may go wrong.                                      *)
(***************************************************************************)
(* Mutant: only previews are looked for.                                   *)
DiscoverableAwaiting == status = "awaiting_confirmation"

(* Sessions whose undelivered parts the sweep looks for.                   *)
Discoverable == status \in {"awaiting_confirmation", "posted"}

(* claim_next_purchase_capture_notification_part; "lapsed" is a part being *)
(* sent under a lease that has ended.  The run that made the part delivers *)
(* it too, perhaps after the session has moved on.                         *)
Claim(k) ==
    /\ outbox[k].state \in {"pending", "failed", "lapsed"}
    /\ outbox' = [outbox EXCEPT ![k].state = "sending"]
    /\ UNCHANGED <<session, ledger, fin, req, budget>>

ClaimDiscovered(k) == Discoverable /\ Claim(k)

(* LINE takes the message and the claim is still the part's.               *)
Delivered(k) ==
    /\ outbox[k].state = "sending"
    /\ outbox' = [outbox EXCEPT ![k].state = "delivered"]
    /\ UNCHANGED <<session, ledger, fin, req, budget>>

(* The push fails, or nothing is recorded before the lease ends.           *)
PushFails(k) ==
    /\ outbox[k].state = "sending" /\ Fault
    /\ \E state \in {"failed", "lapsed"} : outbox' = [outbox EXCEPT ![k].state = state]
    /\ UNCHANGED <<session, ledger, fin, req, overlaps, rechecks>>

(* The platform kills the sweep in the middle of a session.                *)
KillSweep ==
    /\ fin[Sweep].at # "idle" \/ req[Sweep].at # "idle"
    /\ Fault
    /\ FinEnds(Sweep) /\ ReqEnds(Sweep)
    /\ UNCHANGED <<session, ledger, outbox, overlaps, rechecks>>

-----------------------------------------------------------------------------
Init ==
    /\ form \in {"one", "many"}
    /\ status = "none"
    /\ admitted = {}
    /\ boundary = Nobody
    /\ phase = "none"
    /\ bound = 0
    /\ receipt = NoReceipt
    /\ movement = NoMovement
    /\ outbox = <<>>
    /\ fin = [f \in Finalizers |-> NoRun]
    /\ req = [r \in Runners |-> NoRequest]
    /\ overlaps = 0 /\ rechecks = 0 /\ faults = 0

Capturing ==
    \/ OpenSession
    \/ CloseOpenEvent
    \/ \E m \in Messages : Admit(m)
    \/ BarrierPasses
    \/ Cancel

Finalizing(f) ==
    \/ \E who \in Whos : ReadCandidate(f, who)
    \/ SaveDraft(f)
    \/ LoadPreview(f)
    \/ FinalizeRefused(f)
    \/ FinalizeFailed(f)
    \/ FinalizeSucceeds(f)

Confirming(r) ==
    \/ StartConfirm(r)
    \/ Begin(r)
    \/ Confirm(r)
    \/ Post(r)
    \/ CompletePosting(r)

Rechecking(r) ==
    \/ \E who \in Whos : StartRecheck(r, who)
    \/ Replace(r)

Delivering(k) ==
    \/ Claim(k)
    \/ Delivered(k)
    \/ PushFails(k)

Next ==
    \/ Capturing
    \/ \E f \in Finalizers : Finalizing(f)
    \/ \E r \in Runners : Confirming(r) \/ Rechecking(r)
    \/ \E k \in DOMAIN outbox : Delivering(k)
    \/ KillSweep

Spec == Init /\ [][Next]_vars

(* A session has one preview more than it has rechecks, and one notice.    *)
Parts == 1..MaxRechecks + 2

(* The barrier's clock, the cron's sweep and what the sweep pushes are     *)
(* fair.  Users, and runs beside the sweep's, may stop at any point.       *)
Fairness ==
    /\ WF_vars(BarrierPasses)
    /\ WF_vars(Finalizing(Sweep))
    /\ WF_vars(Confirming(Sweep))
    /\ \A k \in Parts :
         /\ WF_vars(k \in DOMAIN outbox /\ ClaimDiscovered(k))
         /\ WF_vars(k \in DOMAIN outbox /\ Delivered(k))

FairSpec == Spec /\ Fairness

-----------------------------------------------------------------------------
(***************************************************************************)
(* Properties.                                                             *)
(***************************************************************************)
Statuses == {"none", "open", "closing", "awaiting_confirmation", "confirming", "posted",
             "failed_closed", "cancelled"}

ReceiptType == [state : {"none", "draft", "confirmed"}, rev : Nat, who : Whos]
PartType ==
    [kind : {"preview_ready", "posted_success"}, rev : Nat, who : Whos,
     state : {"pending", "sending", "lapsed", "failed", "delivered", "superseded"}]
RunType ==
    [at : {"idle", "parsed", "flawed", "saved", "rendered", "again"},
     seen : SUBSET Messages, who : Whos, rev : Nat]
RequestType ==
    [at : {"idle", "begin", "confirm", "post", "complete", "replace"}, rev : Nat, who : Whos]

(* Every variable keeps its type, and the barrier runs exactly while the   *)
(* session is closing.                                                     *)
TypeOK ==
    /\ form \in {"one", "many"}
    /\ status \in Statuses
    /\ admitted \subseteq Messages
    /\ boundary \in {Nobody, Header, Close}
    /\ phase \in {"none", "quiet", "due", "over"}
    /\ (phase = "none") <=> (status # "closing")
    /\ bound \in Nat
    /\ receipt \in ReceiptType
    /\ movement \in [rev : Nat, who : Whos]
    /\ outbox \in Seq(PartType)
    /\ fin \in [Finalizers -> RunType]
    /\ req \in [Runners -> RequestType]
    /\ overlaps \in 0..MaxOverlap /\ rechecks \in 0..MaxRechecks /\ faults \in 0..MaxFaults

(* The outbox has the preview of a draft.                                  *)
Shown(rev, who) ==
    \E k \in DOMAIN outbox :
        outbox[k].kind = "preview_ready" /\ outbox[k].rev = rev /\ outbox[k].who = who

(* Stock is posted only as the sender last saw it: a movement belongs to a *)
(* session that is confirming or posted, and is the session's draft as its *)
(* preview showed it, with every product resolved -- whichever finalizer   *)
(* or recheck saved another draft in between.                              *)
PostedAsPreviewed ==
    Posted =>
        /\ status \in {"confirming", "posted"}
        /\ movement.rev = bound /\ movement.who # Unresolved
        /\ Shown(movement.rev, movement.who)

(* A session ends on what it admitted, not on what a finalizer read before *)
(* a late message came in: it fails closed only if its messages make no    *)
(* document, and posts only if they do.                                    *)
EndsOnWhole ==
    /\ status = "failed_closed" => ~Complete(admitted)
    /\ Posted => Complete(admitted)

(* Every session that is closed leaves closing: sweeps that overlap, late  *)
(* messages and kills delay its preview and never prevent it.              *)
ClosingEnds == status = "closing" ~> status # "closing"

(* A draft saved after begin: the receipt has moved on from the session.   *)
Overwritten == receipt.state = "draft" /\ receipt.rev # bound

(* A confirmation that has begun ends with the success notice in the chat, *)
(* whatever dies on the way, unless a late finalizer overwrote the draft.  *)
ConfirmedIsAnnounced ==
    status = "confirming" ~>
        \/ \E k \in DOMAIN outbox :
             outbox[k].kind = "posted_success" /\ outbox[k].state = "delivered"
        \/ Overwritten

(* A confirming session becomes posted: whatever died, its recovery        *)
(* "re-enters the same state and completes it".                            *)
ConfirmingEnds == status = "confirming" ~> status = "posted"

-----------------------------------------------------------------------------
(***************************************************************************)
(* The capture implements PurchasePosting: while its session is open or    *)
(* closing it takes messages; the draft it shows is the newest preview's.  *)
(***************************************************************************)
Stage ==
    CASE status \in {"none", "open", "closing"} -> "taking"
      [] status = "awaiting_confirmation" -> "shown"
      [] status = "confirming" -> "agreed"
      [] status = "posted" -> "posted"
      [] status = "failed_closed" -> "failed"
      [] status = "cancelled" -> "cancelled"

(* The part that previews the draft the session is bound to.               *)
IsNewest(k) == outbox[k].kind = "preview_ready" /\ outbox[k].rev = bound
NewestDraft ==
    IF bound = 0 THEN NoMovement
    ELSE [rev |-> bound, who |-> outbox[CHOOSE k \in DOMAIN outbox : IsNewest(k)].who]

Posting == INSTANCE PurchasePosting
    WITH Drafts <- [rev : Nat \ {0}, who : Whos],
         Postable <- [rev : Nat \ {0}, who : Identities],
         Nothing <- NoMovement,
         stage <- Stage, taken <- admitted, whole <- Complete(admitted),
         shown <- NewestDraft, stock <- movement

(* Every step of the capture is a step of the posting it promises, or      *)
(* none: whatever finalizers, rechecks and confirmations interleave, what  *)
(* is posted is the draft previewed last, for a whole document, once, and  *)
(* only after a confirmation that nothing takes back.                      *)
Refines == Posting!Spec
=============================================================================
