----------------------- MODULE PurchaseCaptureProofs -----------------------
(***************************************************************************)
(* Theorems about PurchaseCapture, for every set of messages, identities,  *)
(* finalizers and runners and every choice of the bounds.                  *)
(***************************************************************************)
EXTENDS PurchaseCapture, TLAPS

(* The statuses after a draft was bound to the session. *)
BoundStates == {"awaiting_confirmation", "confirming", "posted"}

(* The statuses in which messages are still taken without a boundary. *)
Unclosed == {"none", "open"}

-----------------------------------------------------------------------------
(***************************************************************************)
(* The inductive invariant, by parts.                                      *)
(***************************************************************************)
(* A finalizer works on a session that was closed, and judged what it saw  *)
(* by the boundary that still stands.                                      *)
RunJudges ==
    \A f \in Finalizers :
        /\ fin[f].at \in {"parsed", "saved", "rendered"} => Complete(fin[f].seen)
        /\ fin[f].at = "flawed" => ~Complete(fin[f].seen)
        /\ fin[f].at \notin {"idle", "again"} => status \notin Unclosed

(* A finalizer's draft is not ahead of the receipt, and while it is the    *)
(* receipt's the preview shows it.                                         *)
RunDrafts ==
    \A f \in Finalizers :
        /\ fin[f].at \in {"saved", "rendered"} => 0 < fin[f].rev /\ fin[f].rev <= receipt.rev
        /\ fin[f].at = "rendered" /\ fin[f].rev = receipt.rev => fin[f].who = receipt.who

(* A session with a draft holds a whole document, and as long as nobody    *)
(* has saved another draft its preview shows the receipt.                  *)
DraftIsShown ==
    status \in BoundStates =>
        /\ Complete(admitted)
        /\ 0 < bound /\ bound <= receipt.rev
        /\ receipt.rev = bound => Shown(receipt.rev, receipt.who)

(* The receipt is frozen only by a confirmation of the session's draft. *)
FrozenIsBound ==
    receipt.state = "confirmed" => status \in {"confirming", "posted"} /\ receipt.rev = bound

(* A confirmation under way is the session's. *)
RequestFollows ==
    \A r \in Runners :
        /\ req[r].at = "confirm" => status \in {"confirming", "posted"} /\ req[r].rev = bound
        /\ req[r].at \in {"post", "complete"} => receipt.state = "confirmed"

(* What is posted is the frozen receipt. *)
PostedIsFrozen ==
    Posted =>
        /\ receipt.state = "confirmed" /\ receipt.who # Unresolved
        /\ movement = [rev |-> receipt.rev, who |-> receipt.who]

FailedIsFlawed == status = "failed_closed" => ~Complete(admitted)

IInv ==
    /\ TypeOK
    /\ RunJudges /\ RunDrafts
    /\ DraftIsShown /\ FailedIsFlawed
    /\ FrozenIsBound /\ RequestFollows /\ PostedIsFrozen

-----------------------------------------------------------------------------
(***************************************************************************)
(* Lemmas.                                                                 *)
(***************************************************************************)
LEMMA Bounds == MaxOverlap \in Nat /\ MaxRechecks \in Nat /\ MaxFaults \in Nat
BY BoundAssumption

(* What makes a document depends on the form and the boundary alone. *)
LEMMA SameDocument ==
  ASSUME UNCHANGED <<form, boundary>>
  PROVE  \A set : Complete(set)' <=> Complete(set)
BY DEF Complete, Eligible

(* A new part is a part, and takes none away. *)
LEMMA AppendKeeps ==
  ASSUME NEW parts \in Seq(PartType), NEW p \in PartType, outbox' = Append(parts, p)
  PROVE  /\ outbox' \in Seq(PartType)
         /\ \A k \in DOMAIN parts : k \in DOMAIN outbox' /\ outbox'[k] = parts[k]
         /\ Len(parts) + 1 \in DOMAIN outbox' /\ outbox'[Len(parts) + 1] = p
OBVIOUS

LEMMA PartIsPart ==
  ASSUME NEW kind \in {"preview_ready", "posted_success"}, NEW rev \in Nat, NEW who \in Whos
  PROVE  Part(kind, rev, who) \in PartType
BY DEF Part, PartType

(* Superseding changes the state of parts only. *)
LEMMA SupersededParts ==
  ASSUME outbox \in Seq(PartType)
  PROVE  /\ [k \in DOMAIN outbox |-> Superseded(outbox[k])] \in Seq(PartType)
         /\ \A k \in DOMAIN outbox :
              /\ Superseded(outbox[k]).kind = outbox[k].kind
              /\ Superseded(outbox[k]).rev = outbox[k].rev
              /\ Superseded(outbox[k]).who = outbox[k].who
<1>1. \A k \in DOMAIN outbox : outbox[k] \in PartType
  OBVIOUS
<1>2. \A k \in DOMAIN outbox : Superseded(outbox[k]) \in PartType
  BY <1>1 DEF Superseded, PartType
<1>3. DOMAIN outbox = 1..Len(outbox) /\ Len(outbox) \in Nat
  OBVIOUS
<1>4. [k \in DOMAIN outbox |-> Superseded(outbox[k])] \in Seq(PartType)
  BY <1>2, <1>3
<1>5. \A k \in DOMAIN outbox :
         /\ Superseded(outbox[k]).kind = outbox[k].kind
         /\ Superseded(outbox[k]).rev = outbox[k].rev
         /\ Superseded(outbox[k]).who = outbox[k].who
  BY <1>1 DEF Superseded, PartType
<1> QED
  BY <1>4, <1>5

(* Changing the state of a part keeps what previews show. *)
LEMMA StateKeeps ==
  ASSUME outbox \in Seq(PartType), NEW k \in DOMAIN outbox,
         NEW state \in {"sending", "lapsed", "failed", "delivered"},
         outbox' = [outbox EXCEPT ![k].state = state]
  PROVE  /\ outbox' \in Seq(PartType)
         /\ \A rev, who : Shown(rev, who) => Shown(rev, who)'
<1>1. outbox[k] \in PartType
  OBVIOUS
<1>2. [outbox[k] EXCEPT !.state = state] \in PartType
  BY <1>1 DEF PartType
<1>3. outbox' \in Seq(PartType)
  BY <1>2
<1>4. /\ DOMAIN outbox' = DOMAIN outbox
      /\ \A j \in DOMAIN outbox : /\ outbox'[j].kind = outbox[j].kind
                                  /\ outbox'[j].rev = outbox[j].rev
                                  /\ outbox'[j].who = outbox[j].who
  BY <1>1 DEF PartType
<1> QED
  BY <1>3, <1>4 DEF Shown

(* The initial states satisfy the invariant. *)
LEMMA InitIInv == Init => IInv
<1> SUFFICES ASSUME Init PROVE IInv
  OBVIOUS
<1> USE DEF Init
<1>1. TypeOK
  <2>1. NoRun \in RunType /\ NoRequest \in RequestType
    BY DEF NoRun, NoRequest, RunType, RequestType, Whos
  <2>2. fin \in [Finalizers -> RunType] /\ req \in [Runners -> RequestType]
    BY <2>1
  <2>3. receipt \in ReceiptType /\ movement \in [rev : Nat, who : Whos]
    BY DEF NoReceipt, NoMovement, ReceiptType, Whos
  <2>4. outbox \in Seq(PartType)
    OBVIOUS
  <2> QED
    BY <2>2, <2>3, <2>4, Bounds DEF TypeOK, Statuses
<1>2. RunJudges /\ RunDrafts
  BY DEF RunJudges, RunDrafts, NoRun
<1>3. DraftIsShown /\ FailedIsFlawed
  BY DEF DraftIsShown, FailedIsFlawed, BoundStates
<1>4. FrozenIsBound /\ RequestFollows /\ PostedIsFrozen
  BY DEF FrozenIsBound, RequestFollows, PostedIsFrozen, Posted, NoReceipt, NoRequest
<1> QED
  BY <1>1, <1>2, <1>3, <1>4 DEF IInv

-----------------------------------------------------------------------------
(***************************************************************************)
(* Messages and the barrier.                                               *)
(***************************************************************************)
LEMMA OpenStep == IInv /\ OpenSession => IInv'
<1> SUFFICES ASSUME IInv, OpenSession PROVE IInv'
  OBVIOUS
<1> USE DEF IInv, OpenSession, ledger, budget
<1>1. TypeOK'
  BY DEF TypeOK, Statuses, Messages
<1>2. (RunJudges /\ RunDrafts)'
  BY SameDocument DEF RunJudges, RunDrafts, Unclosed
<1>3. (DraftIsShown /\ FailedIsFlawed)'
  BY DEF DraftIsShown, FailedIsFlawed, BoundStates
<1>4. (FrozenIsBound /\ RequestFollows /\ PostedIsFrozen)'
  BY DEF FrozenIsBound, RequestFollows, PostedIsFrozen, Posted
<1> QED
  BY <1>1, <1>2, <1>3, <1>4

(* Nothing is under way in a session that begins to close. *)
LEMMA StartClosingStep ==
  ASSUME IInv, NEW m \in {Header, Close}, status = "open", StartClosing(m),
         admitted' \in SUBSET Messages,
         UNCHANGED <<form, bound, ledger, outbox, fin, req, budget>>
  PROVE  IInv'
<1> USE DEF IInv, StartClosing, ledger, budget
<1>1. TypeOK'
  BY DEF TypeOK, Statuses
<1>2. (RunJudges /\ RunDrafts)'
  BY DEF RunJudges, RunDrafts, Unclosed, TypeOK, RunType
<1>3. (DraftIsShown /\ FailedIsFlawed)'
  BY DEF DraftIsShown, FailedIsFlawed, BoundStates
<1>4. (FrozenIsBound /\ RequestFollows /\ PostedIsFrozen)'
  BY DEF FrozenIsBound, RequestFollows, PostedIsFrozen, Posted
<1> QED
  BY <1>1, <1>2, <1>3, <1>4

LEMMA CloseOpenStep == IInv /\ CloseOpenEvent => IInv'
BY StartClosingStep DEF IInv, TypeOK, CloseOpenEvent

LEMMA AdmitStep ==
  ASSUME IInv, NEW m \in Messages, Admit(m)
  PROVE  IInv'
<1> USE DEF Admit, Admits
<1>1. admitted' \in SUBSET Messages /\ status \in {"open", "closing"}
  BY DEF IInv, TypeOK
<1>2. CASE m = Close
  BY <1>1, <1>2, StartClosingStep
<1>3. CASE m # Close
  <2> USE <1>3 DEF IInv, ledger, budget
  <2>1. TypeOK'
    BY <1>1 DEF TypeOK
  <2>2. (RunJudges /\ RunDrafts)'
    BY SameDocument DEF RunJudges, RunDrafts
  <2>3. (DraftIsShown /\ FailedIsFlawed)'
    BY <1>1 DEF DraftIsShown, FailedIsFlawed, BoundStates
  <2>4. (FrozenIsBound /\ RequestFollows /\ PostedIsFrozen)'
    BY DEF FrozenIsBound, RequestFollows, PostedIsFrozen, Posted
  <2> QED
    BY <2>1, <2>2, <2>3, <2>4
<1> QED
  BY <1>2, <1>3

LEMMA BarrierStep == IInv /\ BarrierPasses => IInv'
<1> SUFFICES ASSUME IInv, BarrierPasses PROVE IInv'
  OBVIOUS
<1> USE DEF IInv, BarrierPasses, ledger, budget
<1>1. TypeOK'
  BY DEF TypeOK
<1>2. (RunJudges /\ RunDrafts)'
  BY SameDocument DEF RunJudges, RunDrafts
<1>3. (DraftIsShown /\ FailedIsFlawed)'
  BY DEF DraftIsShown, FailedIsFlawed, BoundStates
<1>4. (FrozenIsBound /\ RequestFollows /\ PostedIsFrozen)'
  BY DEF FrozenIsBound, RequestFollows, PostedIsFrozen, Posted
<1> QED
  BY <1>1, <1>2, <1>3, <1>4

(* A cancel finds no receipt that is frozen, nor a confirmation. *)
LEMMA CancelStep == IInv /\ Cancel => IInv'
<1> SUFFICES ASSUME IInv, Cancel PROVE IInv'
  OBVIOUS
<1> USE DEF IInv, Cancel, Cancellable, ledger, budget
<1>1. TypeOK'
  BY DEF TypeOK, Statuses
<1>2. (RunJudges /\ RunDrafts)'
  BY SameDocument DEF RunJudges, RunDrafts, Unclosed
<1>3. (DraftIsShown /\ FailedIsFlawed)'
  BY DEF DraftIsShown, FailedIsFlawed, BoundStates
<1>4. (FrozenIsBound /\ RequestFollows /\ PostedIsFrozen)'
  BY DEF FrozenIsBound, RequestFollows, PostedIsFrozen, Posted
<1> QED
  BY <1>1, <1>2, <1>3, <1>4

-----------------------------------------------------------------------------
(***************************************************************************)
(* The finalizers.                                                         *)
(***************************************************************************)
LEMMA RunTypes ==
  ASSUME IInv, NEW f \in Finalizers
  PROVE  /\ fin \in [Finalizers -> RunType] /\ fin[f] \in RunType
         /\ NoRun \in RunType /\ [NoRun EXCEPT !.at = "again"] \in RunType
BY DEF IInv, TypeOK, NoRun, RunType, Whos

LEMMA ReadStep ==
  ASSUME IInv, NEW f \in Finalizers, NEW who \in Whos, ReadCandidate(f, who)
  PROVE  IInv'
<1> USE DEF IInv, ReadCandidate, Due, session, ledger
<1> DEFINE run == [at |-> IF Complete(admitted) THEN "parsed" ELSE "flawed",
                   seen |-> admitted,
                   who |-> IF Complete(admitted) THEN who ELSE Unresolved, rev |-> 0]
<1>1. fin' = [fin EXCEPT ![f] = run] /\ fin \in [Finalizers -> RunType]
  BY DEF TypeOK
<1>2. run \in RunType
  BY DEF TypeOK, RunType, Whos
<1>3. TypeOK'
  <2>1. fin' \in [Finalizers -> RunType]
    BY <1>1, <1>2
  <2>2. overlaps' \in 0..MaxOverlap
    BY Bounds DEF TypeOK
  <2> QED
    BY <2>1, <2>2 DEF TypeOK
<1>4. \A g \in Finalizers : fin'[g] = IF g = f THEN run ELSE fin[g]
  BY <1>1
<1>5. (RunJudges /\ RunDrafts)'
  BY <1>4, SameDocument DEF RunJudges, RunDrafts, Unclosed
<1>6. (DraftIsShown /\ FailedIsFlawed)'
  BY DEF DraftIsShown, FailedIsFlawed, BoundStates
<1>7. (FrozenIsBound /\ RequestFollows /\ PostedIsFrozen)'
  BY DEF FrozenIsBound, RequestFollows, PostedIsFrozen, Posted
<1> QED
  BY <1>3, <1>5, <1>6, <1>7

(* A run that only ends, or reads again, disturbs nothing. *)
LEMMA RunEnds ==
  ASSUME IInv, NEW f \in Finalizers,
         \/ FinEnds(f)
         \/ fin' = [fin EXCEPT ![f] = [NoRun EXCEPT !.at = "again"]],
         UNCHANGED <<session, ledger, outbox, req, budget>>
  PROVE  IInv'
<1> USE DEF IInv, session, ledger, budget
<1>1. fin' \in [Finalizers -> RunType]
  BY RunTypes DEF FinEnds
<1>2. TypeOK'
  BY <1>1 DEF TypeOK
<1>3. \A g \in Finalizers : fin'[g] = fin[g] \/ fin'[g].at \in {"idle", "again"}
  BY RunTypes DEF FinEnds, NoRun
<1>4. (RunJudges /\ RunDrafts)'
  BY <1>3, SameDocument DEF RunJudges, RunDrafts
<1>5. (DraftIsShown /\ FailedIsFlawed)'
  BY SameDocument DEF DraftIsShown, FailedIsFlawed, Shown
<1>6. (FrozenIsBound /\ RequestFollows /\ PostedIsFrozen)'
  BY DEF FrozenIsBound, RequestFollows, PostedIsFrozen, Posted
<1> QED
  BY <1>2, <1>4, <1>5, <1>6

(* Whoever saves a draft, the receipt moves past every draft before it. *)
LEMMA SaveStep ==
  ASSUME IInv, NEW f \in Finalizers, SaveDraft(f)
  PROVE  IInv'
<1> USE DEF SaveDraft
<1>1. CASE receipt.state = "confirmed"
  BY <1>1, RunEnds DEF ledger
<1>2. CASE receipt.state # "confirmed"
  <2> USE <1>2 DEF IInv, session, budget
  <2>1. /\ receipt' = [state |-> "draft", rev |-> receipt.rev + 1, who |-> fin[f].who]
        /\ receipt.rev \in Nat /\ fin[f] \in RunType
    BY RunTypes DEF TypeOK, ReceiptType
  <2>2. fin' \in [Finalizers -> RunType]
    BY <2>1, RunTypes DEF RunType
  <2>3. TypeOK'
    BY <2>1, <2>2 DEF TypeOK, ReceiptType, RunType
  <2>4. /\ \A g \in Finalizers : g # f => fin'[g] = fin[g]
        /\ fin'[f].at = "saved" /\ fin'[f].rev = receipt'.rev
        /\ fin'[f].seen = fin[f].seen
        /\ receipt'.rev = receipt.rev + 1 /\ receipt'.state = "draft"
    BY <2>1, RunTypes DEF RunType
  <2>5. (RunJudges)'
    BY <2>4, SameDocument DEF RunJudges
  <2>6. (RunDrafts)'
    <3> SUFFICES ASSUME NEW g \in Finalizers
                 PROVE  /\ fin'[g].at \in {"saved", "rendered"} =>
                              0 < fin'[g].rev /\ fin'[g].rev <= receipt'.rev
                        /\ fin'[g].at = "rendered" /\ fin'[g].rev = receipt'.rev =>
                              fin'[g].who = receipt'.who
      BY DEF RunDrafts
    <3>1. fin[g].rev \in Nat
      BY RunTypes DEF RunType
    <3> QED
      BY <2>1, <2>4, <3>1 DEF RunDrafts
  <2>7. (DraftIsShown /\ FailedIsFlawed)'
    <3>1. bound \in Nat
      BY DEF TypeOK
    <3> QED
      BY <2>1, <2>4, <3>1, SameDocument DEF DraftIsShown, FailedIsFlawed, BoundStates
  <2>8. (FrozenIsBound /\ RequestFollows /\ PostedIsFrozen)'
    BY <2>4 DEF FrozenIsBound, RequestFollows, PostedIsFrozen, Posted
  <2> QED
    BY <2>3, <2>5, <2>6, <2>7, <2>8
<1> QED
  BY <1>1, <1>2

LEMMA LoadStep ==
  ASSUME IInv, NEW f \in Finalizers, LoadPreview(f)
  PROVE  IInv'
<1> USE DEF IInv, LoadPreview, session, ledger, budget
<1>1. fin' \in [Finalizers -> RunType]
  BY RunTypes DEF RunType, TypeOK, ReceiptType
<1>2. TypeOK'
  BY <1>1 DEF TypeOK
<1>3. /\ \A g \in Finalizers : g # f => fin'[g] = fin[g]
      /\ fin'[f].at = "rendered" /\ fin'[f].who = receipt.who
      /\ fin'[f].rev = fin[f].rev /\ fin'[f].seen = fin[f].seen
  BY RunTypes DEF RunType
<1>4. (RunJudges /\ RunDrafts)'
  BY <1>3, SameDocument DEF RunJudges, RunDrafts
<1>5. (DraftIsShown /\ FailedIsFlawed)'
  BY SameDocument DEF DraftIsShown, FailedIsFlawed, Shown
<1>6. (FrozenIsBound /\ RequestFollows /\ PostedIsFrozen)'
  BY DEF FrozenIsBound, RequestFollows, PostedIsFrozen, Posted
<1> QED
  BY <1>2, <1>4, <1>5, <1>6

LEMMA RefusedStep ==
  ASSUME IInv, NEW f \in Finalizers, FinalizeRefused(f)
  PROVE  IInv'
BY RunEnds DEF FinalizeRefused

(* The candidate is still what the session holds, and makes no document. *)
LEMMA FailedStep ==
  ASSUME IInv, NEW f \in Finalizers, FinalizeFailed(f)
  PROVE  IInv'
<1> USE DEF IInv, FinalizeFailed, FinEnds, Due, Current, ledger, budget
<1>1. fin' \in [Finalizers -> RunType]
  BY RunTypes
<1>2. TypeOK'
  BY <1>1 DEF TypeOK, Statuses
<1>3. \A g \in Finalizers : fin'[g] = fin[g] \/ fin'[g].at = "idle"
  BY RunTypes DEF NoRun
<1>4. (RunJudges /\ RunDrafts)'
  BY <1>3, SameDocument DEF RunJudges, RunDrafts, Unclosed
<1>5. ~Complete(admitted)
  BY DEF RunJudges
<1>6. (DraftIsShown /\ FailedIsFlawed)'
  BY <1>5, SameDocument DEF DraftIsShown, FailedIsFlawed, BoundStates
<1>7. (FrozenIsBound /\ RequestFollows /\ PostedIsFrozen)'
  BY DEF FrozenIsBound, RequestFollows, PostedIsFrozen, Posted
<1> QED
  BY <1>2, <1>4, <1>6, <1>7

(* The candidate is still what the session holds, and its draft is still   *)
(* the receipt's: the preview shows it.                                    *)
LEMMA SucceedsStep ==
  ASSUME IInv, NEW f \in Finalizers, FinalizeSucceeds(f)
  PROVE  IInv'
<1> USE DEF IInv, FinalizeSucceeds, FinEnds, Due, Current, ledger, budget
<1> DEFINE p == Part("preview_ready", fin[f].rev, fin[f].who)
<1>1. fin' \in [Finalizers -> RunType] /\ fin[f] \in RunType
  BY RunTypes
<1>2. p \in PartType
  BY <1>1, PartIsPart DEF RunType
<1>3. outbox' = Append(outbox, p) /\ outbox \in Seq(PartType)
  BY DEF TypeOK
<1> HIDE DEF p
<1>4. outbox' \in Seq(PartType) /\ \E k \in DOMAIN outbox' : outbox'[k] = p
  BY <1>2, <1>3, AppendKeeps
<1>5. TypeOK'
  BY <1>1, <1>4 DEF TypeOK, Statuses, RunType
<1>6. \A g \in Finalizers : fin'[g] = fin[g] \/ fin'[g].at = "idle"
  BY RunTypes DEF NoRun
<1>7. (RunJudges /\ RunDrafts)'
  BY <1>6, SameDocument DEF RunJudges, RunDrafts, Unclosed
<1>8. Complete(admitted)' /\ bound' = receipt.rev /\ 0 < receipt.rev
  BY SameDocument DEF RunJudges, RunDrafts
<1>9. Shown(receipt.rev, receipt.who)'
  BY <1>4 DEF Shown, RunDrafts, p, Part
<1>10. (DraftIsShown /\ FailedIsFlawed)'
  BY <1>8, <1>9 DEF DraftIsShown, FailedIsFlawed, TypeOK, ReceiptType
<1>11. (FrozenIsBound /\ RequestFollows /\ PostedIsFrozen)'
  BY DEF FrozenIsBound, RequestFollows, PostedIsFrozen, Posted
<1> QED
  BY <1>5, <1>7, <1>10, <1>11

-----------------------------------------------------------------------------
(***************************************************************************)
(* Confirm, recheck and the outbox.                                        *)
(***************************************************************************)
LEMMA RequestTypes ==
  ASSUME IInv, NEW r \in Runners
  PROVE  /\ req \in [Runners -> RequestType] /\ req[r] \in RequestType
         /\ NoRequest \in RequestType
         /\ bound \in Nat /\ receipt.rev \in Nat /\ receipt.who \in Whos
BY DEF IInv, TypeOK, NoRequest, RequestType, ReceiptType, Whos

(* A step of a confirmation moves only the run's own request. *)
LEMMA ReqSteps ==
  ASSUME IInv, NEW r \in Runners,
         NEW at \in {"idle", "begin", "confirm", "post", "complete", "replace"},
         ReqAt(r, at) \/ ReqEnds(r)
  PROVE  /\ req' \in [Runners -> RequestType]
         /\ \A q \in Runners :
              \/ req'[q] = req[q]
              \/ req'[q].at = "idle"
              \/ q = r /\ ReqAt(r, at) /\ req'[q].at = at /\ req'[q].rev = req[q].rev
BY RequestTypes DEF ReqAt, ReqEnds, RequestType, NoRequest

(* What the other parts of the invariant say is not about requests. *)
LEMMA OthersKeep ==
  ASSUME IInv, UNCHANGED <<session, ledger, outbox, fin>>
  PROVE  /\ (RunJudges /\ RunDrafts)'
         /\ (DraftIsShown /\ FailedIsFlawed)'
         /\ (FrozenIsBound /\ PostedIsFrozen)'
<1> USE DEF IInv, session, ledger
<1>1. (RunJudges /\ RunDrafts)'
  BY SameDocument DEF RunJudges, RunDrafts
<1>2. (DraftIsShown /\ FailedIsFlawed)'
  BY SameDocument DEF DraftIsShown, FailedIsFlawed, Shown
<1>3. (FrozenIsBound /\ PostedIsFrozen)'
  BY DEF FrozenIsBound, PostedIsFrozen, Posted
<1> QED
  BY <1>1, <1>2, <1>3

LEMMA StartConfirmStep ==
  ASSUME IInv, NEW r \in Runners, StartConfirm(r)
  PROVE  IInv'
<1> USE DEF StartConfirm, session, ledger, budget
<1> DEFINE new == [at |-> IF status = "confirming" THEN "confirm" ELSE "begin",
                   rev |-> bound, who |-> Unresolved]
<1>1. new \in RequestType
  BY RequestTypes DEF RequestType, Whos
<1>2. req' = [req EXCEPT ![r] = new]
  OBVIOUS
<1> HIDE DEF new
<1>3. req' \in [Runners -> RequestType] /\ \A q \in Runners : req'[q] = IF q = r THEN new ELSE req[q]
  BY <1>1, <1>2, RequestTypes
<1>4. TypeOK'
  BY <1>3 DEF IInv, TypeOK
<1>5. RequestFollows'
  BY <1>3 DEF IInv, RequestFollows, new
<1> QED
  BY <1>4, <1>5, OthersKeep DEF IInv

LEMMA BeginStep ==
  ASSUME IInv, NEW r \in Runners, Begin(r)
  PROVE  IInv'
<1> USE DEF Begin, BeginsOn, ledger, budget
<1>1. /\ req' \in [Runners -> RequestType]
      /\ \A q \in Runners :
           \/ req'[q] = req[q]
           \/ req'[q].at = "idle"
           \/ q = r /\ BeginsOn(r) /\ req'[q].rev = req[r].rev /\ req'[q].at = "confirm"
  BY ReqSteps, RequestTypes DEF ReqAt, ReqEnds, RequestType, NoRequest
<1>2. status' = status \/ (status = "awaiting_confirmation" /\ status' = "confirming")
  <2>1. CASE BeginsOn(r)
    BY <2>1
  <2>2. CASE ~BeginsOn(r)
    BY <2>2
  <2> QED
    BY <2>1, <2>2
<1> USE DEF IInv
<1>3. TypeOK'
  BY <1>1, <1>2 DEF TypeOK, Statuses
<1>4. (RunJudges /\ RunDrafts)'
  BY <1>2, SameDocument DEF RunJudges, RunDrafts, Unclosed
<1>5. (DraftIsShown /\ FailedIsFlawed)'
  BY <1>2, SameDocument DEF DraftIsShown, FailedIsFlawed, BoundStates, Shown
<1>6. (FrozenIsBound /\ PostedIsFrozen)'
  BY <1>2 DEF FrozenIsBound, PostedIsFrozen, Posted
<1>7. RequestFollows'
  BY <1>1, <1>2 DEF RequestFollows
<1> QED
  BY <1>3, <1>4, <1>5, <1>6, <1>7

(* The draft that is frozen is the session's. *)
LEMMA ConfirmStep ==
  ASSUME IInv, NEW r \in Runners, Confirm(r)
  PROVE  IInv'
<1> USE DEF Confirm, session, budget
<1>1. /\ req' \in [Runners -> RequestType]
      /\ \A q \in Runners :
           \/ req'[q] = req[q]
           \/ req'[q].at = "idle"
           \/ req'[q].at = "post" /\ receipt'.state = "confirmed"
  <2>1. receipt \in ReceiptType
    BY DEF IInv, TypeOK
  <2>2. \/ ReqEnds(r)
        \/ ReqAt(r, "post") /\ receipt'.state = "confirmed"
    BY <2>1 DEF ReceiptType
  <2> QED
    BY <2>2, ReqSteps
<1>2. CASE UNCHANGED receipt
  <2> USE <1>2
  <2>1. TypeOK'
    BY <1>1 DEF IInv, TypeOK
  <2>2. RequestFollows'
    BY <1>1 DEF IInv, RequestFollows
  <2> QED
    BY <2>1, <2>2, OthersKeep DEF IInv, ledger
<1>3. CASE /\ receipt.state = "draft" /\ receipt.rev = req[r].rev
           /\ receipt' = [receipt EXCEPT !.state = "confirmed"]
  <2> USE <1>3 DEF IInv
  <2>1. receipt' = [state |-> "confirmed", rev |-> receipt.rev, who |-> receipt.who]
    BY DEF TypeOK, ReceiptType
  <2>2. status \in {"confirming", "posted"} /\ req[r].rev = bound
    BY DEF RequestFollows
  <2>3. TypeOK'
    BY <1>1, <2>1 DEF TypeOK, ReceiptType
  <2>4. (RunJudges /\ RunDrafts)'
    BY <2>1, SameDocument DEF RunJudges, RunDrafts
  <2>5. (DraftIsShown /\ FailedIsFlawed)'
    BY <2>1, SameDocument DEF DraftIsShown, FailedIsFlawed, Shown
  <2>6. (FrozenIsBound /\ PostedIsFrozen)'
    BY <2>1, <2>2 DEF FrozenIsBound, PostedIsFrozen, Posted
  <2>7. RequestFollows'
    BY <1>1, <2>1 DEF RequestFollows
  <2> QED
    BY <2>3, <2>4, <2>5, <2>6, <2>7
<1> QED
  BY <1>2, <1>3 DEF ConfirmsDraft

LEMMA PostStep ==
  ASSUME IInv, NEW r \in Runners, Post(r)
  PROVE  IInv'
<1> USE DEF Post, session, budget
<1>1. /\ req' \in [Runners -> RequestType]
      /\ \A q \in Runners : req'[q] = req[q] \/ req'[q].at \in {"idle", "complete"}
  BY ReqSteps
<1>2. receipt.state = "confirmed"
  BY DEF IInv, RequestFollows
<1>3. RequestFollows'
  BY <1>1, <1>2 DEF IInv, RequestFollows
<1>4. CASE UNCHANGED movement
  BY <1>1, <1>3, <1>4, OthersKeep DEF IInv, TypeOK, ledger
<1>5. CASE /\ receipt.who # Unresolved
           /\ movement' = [rev |-> receipt.rev, who |-> receipt.who]
  <2> USE <1>5 DEF IInv
  <2>1. TypeOK'
    BY <1>1, RequestTypes DEF TypeOK
  <2>2. (RunJudges /\ RunDrafts)'
    BY SameDocument DEF RunJudges, RunDrafts
  <2>3. (DraftIsShown /\ FailedIsFlawed)'
    BY SameDocument DEF DraftIsShown, FailedIsFlawed, Shown
  <2>4. (FrozenIsBound /\ PostedIsFrozen)'
    BY <1>2 DEF FrozenIsBound, PostedIsFrozen, Posted
  <2> QED
    BY <1>3, <2>1, <2>2, <2>3, <2>4
<1> QED
  BY <1>4, <1>5

(* Appending a part keeps the previews there are. *)
LEMMA AppendShows ==
  ASSUME NEW p \in PartType, outbox \in Seq(PartType), outbox' = Append(outbox, p)
  PROVE  /\ outbox' \in Seq(PartType)
         /\ \A rev, who : Shown(rev, who) => Shown(rev, who)'
BY AppendKeeps DEF Shown

LEMMA CompleteStep ==
  ASSUME IInv, NEW r \in Runners, CompletePosting(r)
  PROVE  IInv'
<1> USE DEF CompletePosting, ledger, budget
<1>1. /\ req' \in [Runners -> RequestType]
      /\ \A q \in Runners : req'[q] = req[q] \/ req'[q].at = "idle"
  BY RequestTypes DEF ReqEnds, NoRequest
<1>2. CASE UNCHANGED <<status, outbox>>
  <2> USE <1>2
  <2>1. TypeOK' /\ RequestFollows'
    BY <1>1 DEF IInv, TypeOK, RequestFollows
  <2> QED
    BY <2>1, OthersKeep DEF IInv, session
<1>3. CASE /\ status = "confirming" /\ status' = "posted"
           /\ outbox' = Append(outbox, Part("posted_success", bound, movement.who))
  <2> USE <1>3 DEF IInv
  <2>1. Part("posted_success", bound, movement.who) \in PartType
    BY PartIsPart DEF TypeOK
  <2>2. outbox' \in Seq(PartType) /\ \A rev, who : Shown(rev, who) => Shown(rev, who)'
    BY <2>1, AppendShows DEF TypeOK
  <2>3. TypeOK'
    BY <1>1, <2>2 DEF TypeOK, Statuses
  <2>4. (RunJudges /\ RunDrafts)'
    BY SameDocument DEF RunJudges, RunDrafts, Unclosed
  <2>5. (DraftIsShown /\ FailedIsFlawed)'
    <3>1. Complete(admitted)' /\ 0 < bound /\ bound <= receipt.rev
      BY SameDocument DEF DraftIsShown, BoundStates
    <3>2. receipt.rev = bound => Shown(receipt.rev, receipt.who)
      BY DEF DraftIsShown, BoundStates
    <3>3. receipt.rev = bound => Shown(receipt.rev, receipt.who)'
      BY <2>2, <3>2
    <3> QED
      BY <3>1, <3>3 DEF DraftIsShown, FailedIsFlawed
  <2>6. (FrozenIsBound /\ RequestFollows /\ PostedIsFrozen)'
    BY <1>1 DEF FrozenIsBound, RequestFollows, PostedIsFrozen, Posted
  <2> QED
    BY <2>3, <2>4, <2>5, <2>6
<1> QED
  BY <1>2, <1>3

LEMMA StartRecheckStep ==
  ASSUME IInv, NEW r \in Runners, NEW who \in Whos, StartRecheck(r, who)
  PROVE  IInv'
<1> USE DEF StartRecheck, session, ledger
<1>1. /\ req' \in [Runners -> RequestType]
      /\ \A q \in Runners : req'[q] = req[q] \/ req'[q].at = "replace"
  BY RequestTypes DEF RequestType
<1>2. rechecks' \in 0..MaxRechecks
  BY Bounds DEF IInv, TypeOK
<1>3. TypeOK' /\ RequestFollows'
  BY <1>1, <1>2 DEF IInv, TypeOK, RequestFollows
<1> QED
  BY <1>3, OthersKeep DEF IInv

(* The new draft is bound and shown in the same step. *)
LEMMA ReplaceStep ==
  ASSUME IInv, NEW r \in Runners, Replace(r)
  PROVE  IInv'
<1> USE DEF Replace, budget
<1>1. /\ req' \in [Runners -> RequestType]
      /\ \A q \in Runners : req'[q] = req[q] \/ req'[q].at = "idle"
  BY RequestTypes DEF ReqEnds, NoRequest
<1>2. CASE ~ReplacesOn(r)
  <2> USE <1>2
  <2>1. TypeOK' /\ RequestFollows'
    BY <1>1 DEF IInv, TypeOK, RequestFollows
  <2> QED
    BY <2>1, OthersKeep DEF IInv, session, ledger
<1>3. CASE ReplacesOn(r)
  <2> USE <1>3 DEF IInv, ReplacesOn
  <2> DEFINE p == Part("preview_ready", receipt.rev + 1, req[r].who)
             kept == [k \in DOMAIN outbox |-> Superseded(outbox[k])]
  <2>1. /\ receipt' = [state |-> "draft", rev |-> receipt.rev + 1, who |-> req[r].who]
        /\ req[r].who \in Whos /\ receipt.rev \in Nat
    BY RequestTypes DEF TypeOK, ReceiptType, RequestType
  <2>2. p \in PartType
    <3>1. receipt.rev + 1 \in Nat /\ req[r].who \in Whos
      BY <2>1
    <3> HIDE DEF ReplacesOn, Replace, IInv
    <3> QED
      BY <3>1, PartIsPart
  <2>3. kept \in Seq(PartType)
    BY SupersededParts DEF TypeOK
  <2>4. outbox' = Append(kept, p)
    OBVIOUS
  <2> HIDE DEF p, kept
  <2>5. outbox' \in Seq(PartType) /\ \E k \in DOMAIN outbox' : outbox'[k] = p
    BY <2>2, <2>3, <2>4, AppendKeeps
  <2>6. TypeOK'
    BY <1>1, <2>1, <2>5 DEF TypeOK, ReceiptType
  <2>7. (RunJudges)'
    BY SameDocument DEF RunJudges
  <2>8. (RunDrafts)'
    <3> SUFFICES ASSUME NEW g \in Finalizers, fin[g].at \in {"saved", "rendered"}
                 PROVE  0 < fin[g].rev /\ fin[g].rev <= receipt.rev /\ fin[g].rev # receipt'.rev
                        /\ receipt'.rev = receipt.rev + 1
      BY <2>1, RunTypes DEF RunDrafts, RunType
    <3> QED
      BY <2>1, RunTypes DEF RunDrafts, RunType
  <2>9. (DraftIsShown /\ FailedIsFlawed)'
    <3>1. Complete(admitted)' /\ bound' = receipt'.rev /\ 0 < bound'
      BY <2>1, SameDocument DEF DraftIsShown, BoundStates
    <3>2. Shown(receipt.rev, receipt.who)'
      BY <2>1, <2>5 DEF Shown, p, Part
    <3> QED
      BY <2>1, <3>1, <3>2 DEF DraftIsShown, FailedIsFlawed
  <2>10. (FrozenIsBound /\ RequestFollows /\ PostedIsFrozen)'
    BY <1>1, <2>1 DEF FrozenIsBound, RequestFollows, PostedIsFrozen, Posted
  <2> QED
    BY <2>6, <2>7, <2>8, <2>9, <2>10
<1> QED
  BY <1>2, <1>3

LEMMA DeliveringStep ==
  ASSUME IInv, NEW k \in DOMAIN outbox, Delivering(k)
  PROVE  IInv'
<1> USE DEF IInv, Delivering, session, ledger, budget
<1>1. \E state \in {"sending", "lapsed", "failed", "delivered"} :
         outbox' = [outbox EXCEPT ![k].state = state]
  BY DEF Claim, Delivered, PushFails
<1>2. outbox' \in Seq(PartType) /\ \A rev, who : Shown(rev, who) => Shown(rev, who)'
  BY <1>1, StateKeeps DEF TypeOK
<1>3. /\ UNCHANGED <<session, ledger, fin, req>>
      /\ UNCHANGED <<overlaps, rechecks>> /\ faults' \in 0..MaxFaults
  BY Bounds DEF Claim, Delivered, PushFails, Fault, TypeOK
<1>4. TypeOK'
  BY <1>2, <1>3 DEF TypeOK
<1>5. (RunJudges /\ RunDrafts)'
  BY <1>3, SameDocument DEF RunJudges, RunDrafts
<1>6. (DraftIsShown /\ FailedIsFlawed)'
  <2>1. UNCHANGED <<receipt, bound, status>> /\ (Complete(admitted)' <=> Complete(admitted))
    BY <1>3, SameDocument
  <2>2. receipt.rev = bound /\ Shown(receipt.rev, receipt.who) => Shown(receipt.rev, receipt.who)'
    BY <1>2, <2>1
  <2> QED
    BY <2>1, <2>2 DEF DraftIsShown, FailedIsFlawed
<1>7. (FrozenIsBound /\ RequestFollows /\ PostedIsFrozen)'
  BY <1>3 DEF FrozenIsBound, RequestFollows, PostedIsFrozen, Posted
<1> QED
  BY <1>4, <1>5, <1>6, <1>7

LEMMA KillStep == IInv /\ KillSweep => IInv'
<1> SUFFICES ASSUME IInv, KillSweep PROVE IInv'
  OBVIOUS
<1> USE DEF IInv, KillSweep, FinEnds, ReqEnds, session, ledger
<1>1. fin' \in [Finalizers -> RunType] /\ req' \in [Runners -> RequestType]
  BY SweepAssumption, RunTypes, RequestTypes
<1>2. /\ \A g \in Finalizers : fin'[g] = fin[g] \/ fin'[g].at = "idle"
      /\ \A q \in Runners : req'[q] = req[q] \/ req'[q].at = "idle"
  BY SweepAssumption, RunTypes, RequestTypes DEF NoRun, NoRequest
<1>3. TypeOK'
  BY <1>1, Bounds DEF TypeOK, Fault
<1>4. (RunJudges /\ RunDrafts)'
  BY <1>2, SameDocument DEF RunJudges, RunDrafts
<1>5. (DraftIsShown /\ FailedIsFlawed)'
  BY SameDocument DEF DraftIsShown, FailedIsFlawed, Shown
<1>6. (FrozenIsBound /\ RequestFollows /\ PostedIsFrozen)'
  BY <1>2 DEF FrozenIsBound, RequestFollows, PostedIsFrozen, Posted
<1> QED
  BY <1>3, <1>4, <1>5, <1>6

LEMMA StutterStep == IInv /\ UNCHANGED vars => IInv'
<1> SUFFICES ASSUME IInv, UNCHANGED vars PROVE IInv'
  OBVIOUS
<1> USE DEF vars, session, ledger, budget
<1>1. TypeOK' /\ RequestFollows'
  BY DEF IInv, TypeOK, RequestFollows
<1> QED
  BY <1>1, OthersKeep DEF IInv

-----------------------------------------------------------------------------
(***************************************************************************)
(* The theorems.                                                           *)
(***************************************************************************)
(* Every step keeps the invariant: one case per action. *)
LEMMA NextIInv == IInv /\ [Next]_vars => IInv'
<1> SUFFICES ASSUME IInv, [Next]_vars PROVE IInv'
  OBVIOUS
<1>1. CASE Capturing
  BY <1>1, OpenStep, CloseOpenStep, AdmitStep, BarrierStep, CancelStep DEF Capturing
<1>2. CASE \E f \in Finalizers : Finalizing(f)
  <2> PICK f \in Finalizers : Finalizing(f)
    BY <1>2
  <2> QED
    BY ReadStep, SaveStep, LoadStep, RefusedStep, FailedStep, SucceedsStep DEF Finalizing
<1>3. CASE \E r \in Runners : Confirming(r)
  <2> PICK r \in Runners : Confirming(r)
    BY <1>3
  <2> QED
    BY StartConfirmStep, BeginStep, ConfirmStep, PostStep, CompleteStep DEF Confirming
<1>4. CASE \E r \in Runners : Rechecking(r)
  BY <1>4, StartRecheckStep, ReplaceStep DEF Rechecking
<1>5. CASE \E k \in DOMAIN outbox : Delivering(k)
  BY <1>5, DeliveringStep
<1>6. CASE KillSweep
  BY <1>6, KillStep
<1>7. CASE UNCHANGED vars
  BY <1>7, StutterStep
<1> QED
  BY <1>1, <1>2, <1>3, <1>4, <1>5, <1>6, <1>7 DEF Next

(* The invariant holds in every state of every session. *)
THEOREM InvariantHolds == Spec => []IInv
<1>1. Init => IInv
  BY InitIInv
<1>2. IInv /\ [Next]_vars => IInv'
  BY NextIInv
<1> QED
  BY <1>1, <1>2, PTL DEF Spec

(* Every variable keeps its type, and the close barrier runs exactly while *)
(* the session is closing.                                                 *)
THEOREM TypeCorrect == Spec => []TypeOK
<1>1. IInv => TypeOK
  BY DEF IInv
<1> QED
  BY <1>1, InvariantHolds, PTL

(* Whatever finalizers, rechecks and confirmations interleave, stock is    *)
(* posted only from the draft bound to the session, as a preview in the    *)
(* outbox showed it, with every product resolved, and only in a session    *)
(* that can no longer be cancelled.                                        *)
THEOREM PostedPreviewed == Spec => []PostedAsPreviewed
<1>1. IInv => PostedAsPreviewed
  <2> SUFFICES ASSUME IInv, Posted PROVE
        /\ status \in {"confirming", "posted"}
        /\ movement.rev = bound /\ movement.who # Unresolved
        /\ Shown(movement.rev, movement.who)
    BY DEF PostedAsPreviewed
  <2>1. /\ receipt.state = "confirmed" /\ receipt.who # Unresolved
        /\ movement.rev = receipt.rev /\ movement.who = receipt.who
    BY DEF IInv, PostedIsFrozen
  <2>2. status \in {"confirming", "posted"} /\ receipt.rev = bound
    BY <2>1 DEF IInv, FrozenIsBound
  <2>3. Shown(receipt.rev, receipt.who)
    BY <2>2 DEF IInv, DraftIsShown, BoundStates
  <2> QED
    BY <2>1, <2>2, <2>3
<1> QED
  BY <1>1, InvariantHolds, PTL

(* A session fails closed only when the messages it holds make no document *)
(* and posts only when they make one, however late a message came in.      *)
THEOREM EndsWhole == Spec => []EndsOnWhole
<1>1. IInv => EndsOnWhole
  BY DEF IInv, EndsOnWhole, FailedIsFlawed, PostedIsFrozen, FrozenIsBound, DraftIsShown,
         BoundStates
<1> QED
  BY <1>1, InvariantHolds, PTL

-----------------------------------------------------------------------------
(***************************************************************************)
(* The capture implements PurchasePosting: what more has to be known of a  *)
(* reachable state, by parts.                                              *)
(***************************************************************************)
(* Previews belong to revisions up to the bound one, and those of one      *)
(* revision show the same draft.                                           *)
PreviewsAgree ==
    /\ \A k \in DOMAIN outbox : outbox[k].kind = "preview_ready" =>
           0 < outbox[k].rev /\ outbox[k].rev <= bound
    /\ \A j, k \in DOMAIN outbox :
           /\ outbox[j].kind = "preview_ready" /\ outbox[k].kind = "preview_ready"
           /\ outbox[j].rev = outbox[k].rev
           => outbox[j].who = outbox[k].who

(* The draft bound to the session is previewed, and none is bound before   *)
(* the session was finalized.                                              *)
BoundIsPreviewed ==
    /\ bound # 0 => \E k \in DOMAIN outbox : IsNewest(k)
    /\ status \in {"none", "open", "closing", "failed_closed"} => bound = 0

(* A capture is complete only after its movement was posted. *)
CompleteIsPosted ==
    /\ status = "posted" => Posted
    /\ \A r \in Runners : req[r].at = "complete" => Posted

StartsEmpty == status = "none" => admitted = {}

PInv == PreviewsAgree /\ BoundIsPreviewed /\ CompleteIsPosted /\ StartsEmpty

(* The outbox keeps the previews it has and gets no other. *)
SamePreviews ==
    /\ \A k \in DOMAIN outbox :
           /\ k \in DOMAIN outbox'
           /\ outbox'[k].kind = outbox[k].kind /\ outbox'[k].rev = outbox[k].rev
           /\ outbox'[k].who = outbox[k].who
    /\ \A k \in DOMAIN outbox' : outbox'[k].kind = "preview_ready" => k \in DOMAIN outbox

(* It keeps them and gets, at n, the preview of a draft. *)
AddsPreview(n, rev, who) ==
    /\ n \in DOMAIN outbox'
    /\ outbox'[n].kind = "preview_ready" /\ outbox'[n].rev = rev /\ outbox'[n].who = who
    /\ \A k \in DOMAIN outbox' : k # n =>
           /\ k \in DOMAIN outbox
           /\ outbox'[k].kind = outbox[k].kind /\ outbox'[k].rev = outbox[k].rev
           /\ outbox'[k].who = outbox[k].who

-----------------------------------------------------------------------------
(***************************************************************************)
(* The draft shown last.                                                   *)
(***************************************************************************)
(* Of parts of which those that preview one revision agree, any one tells  *)
(* what it is.                                                             *)
LEMMA AnyPreview ==
  ASSUME NEW parts, NEW rev, NEW k \in DOMAIN parts,
         parts[k].kind = "preview_ready" /\ parts[k].rev = rev,
         \A i, j \in DOMAIN parts :
            /\ parts[i].kind = "preview_ready" /\ parts[j].kind = "preview_ready"
            /\ parts[i].rev = parts[j].rev
            => parts[i].who = parts[j].who,
         NEW n, n = CHOOSE i \in DOMAIN parts :
                       parts[i].kind = "preview_ready" /\ parts[i].rev = rev
  PROVE  parts[n].who = parts[k].who
<1>1. n \in DOMAIN parts /\ parts[n].kind = "preview_ready" /\ parts[n].rev = rev
  OBVIOUS
<1> QED
  BY <1>1

(* Any part that previews the bound draft tells which it is, in this state *)
(* and in the next.                                                        *)
LEMMA NewestIs ==
  ASSUME NEW k
  PROVE  /\ PreviewsAgree /\ bound # 0 /\ k \in DOMAIN outbox /\ IsNewest(k) =>
              NewestDraft = [rev |-> bound, who |-> outbox[k].who]
         /\ (PreviewsAgree /\ bound # 0 /\ k \in DOMAIN outbox /\ IsNewest(k) =>
              NewestDraft = [rev |-> bound, who |-> outbox[k].who])'
BY AnyPreview DEF NewestDraft, PreviewsAgree, IsNewest

(* The draft shown last is the one bound, if any is. *)
LEMMA NewestType ==
  ASSUME TypeOK, PInv
  PROVE  /\ NewestDraft \in [rev : Nat, who : Whos]
         /\ NewestDraft.rev = bound
<1>1. CASE bound = 0
  BY <1>1 DEF NewestDraft, NoMovement, Whos
<1>2. CASE bound # 0
  <2>1. PICK k \in DOMAIN outbox : IsNewest(k)
    BY <1>2 DEF PInv, BoundIsPreviewed
  <2>2. outbox[k] \in PartType /\ bound \in Nat
    BY DEF TypeOK
  <2> QED
    BY <1>2, <2>1, <2>2, NewestIs DEF PInv, PartType
<1> QED
  BY <1>1, <1>2

(* A step that touches neither a preview nor the bound revision shows      *)
(* nothing new.                                                            *)
LEMMA NothingNew ==
  ASSUME PInv, UNCHANGED bound, SamePreviews
  PROVE  /\ PreviewsAgree'
         /\ (bound # 0 => \E k \in DOMAIN outbox : IsNewest(k))'
         /\ NewestDraft' = NewestDraft
<1> USE DEF SamePreviews
<1>1. PreviewsAgree'
  BY DEF PInv, PreviewsAgree
<1>2. \A k \in DOMAIN outbox : IsNewest(k) => k \in DOMAIN outbox' /\ IsNewest(k)'
  BY DEF IsNewest
<1>3. (bound # 0 => \E k \in DOMAIN outbox : IsNewest(k))'
  BY <1>2 DEF PInv, BoundIsPreviewed
<1>4. NewestDraft' = NewestDraft
  <2>1. CASE bound = 0
    BY <2>1 DEF NewestDraft
  <2>2. CASE bound # 0
    <3>1. PICK k \in DOMAIN outbox : IsNewest(k)
      BY <2>2 DEF PInv, BoundIsPreviewed
    <3>2. NewestDraft = [rev |-> bound, who |-> outbox[k].who]
      BY <2>2, <3>1, NewestIs DEF PInv
    <3>3. k \in DOMAIN outbox' /\ IsNewest(k)' /\ outbox'[k].who = outbox[k].who
      BY <1>2, <3>1
    <3>4. NewestDraft' = [rev |-> bound', who |-> outbox'[k].who]
      BY <1>1, <2>2, <3>3, NewestIs
    <3> QED
      BY <3>2, <3>3, <3>4
  <2> QED
    BY <2>1, <2>2
<1> QED
  BY <1>1, <1>3, <1>4

(* The preview of a later draft, bound by the same step, is shown. *)
LEMMA NewPreview ==
  ASSUME TypeOK, PInv, bound' \in Nat, bound < bound', NEW n, NEW who,
         AddsPreview(n, bound', who)
  PROVE  /\ PreviewsAgree'
         /\ (bound # 0 => \E k \in DOMAIN outbox : IsNewest(k))'
         /\ NewestDraft' = [rev |-> bound', who |-> who]
<1>1. bound \in Nat /\ \A k \in DOMAIN outbox : outbox[k].rev \in Nat
  <2>1. \A k \in DOMAIN outbox : outbox[k] \in PartType
    BY DEF TypeOK
  <2> QED
    BY <2>1 DEF TypeOK, PartType
<1> USE DEF AddsPreview
<1>2. \A k \in DOMAIN outbox' : outbox'[k].kind = "preview_ready" /\ k # n =>
         0 < outbox'[k].rev /\ outbox'[k].rev <= bound
  BY DEF PInv, PreviewsAgree
<1>3. \A k \in DOMAIN outbox' : outbox'[k].kind = "preview_ready" =>
         0 < outbox'[k].rev /\ outbox'[k].rev <= bound'
  BY <1>1, <1>2
<1>4. \A j, k \in DOMAIN outbox' :
           /\ outbox'[j].kind = "preview_ready" /\ outbox'[k].kind = "preview_ready"
           /\ outbox'[j].rev = outbox'[k].rev
           => outbox'[j].who = outbox'[k].who
  <2> SUFFICES ASSUME NEW j \in DOMAIN outbox', NEW k \in DOMAIN outbox',
                      outbox'[j].kind = "preview_ready", outbox'[k].kind = "preview_ready",
                      outbox'[j].rev = outbox'[k].rev
               PROVE  outbox'[j].who = outbox'[k].who
    OBVIOUS
  <2>1. CASE j # n /\ k # n
    BY <2>1 DEF PInv, PreviewsAgree
  <2>2. CASE j = n \/ k = n
    BY <1>1, <1>2, <2>2
  <2> QED
    BY <2>1, <2>2
<1>5. PreviewsAgree'
  BY <1>3, <1>4 DEF PreviewsAgree
<1>6. IsNewest(n)'
  BY DEF IsNewest
<1>7. bound' # 0
  BY <1>1
<1> QED
  BY <1>5, <1>6, <1>7, NewestIs

LEMMA SameOutbox ==
  ASSUME UNCHANGED outbox
  PROVE  SamePreviews
BY DEF SamePreviews

-----------------------------------------------------------------------------
(***************************************************************************)
(* Every step is a step of the posting, or none.                           *)
(***************************************************************************)
LEMMA StageOf ==
  ASSUME TypeOK
  PROVE  /\ status \in {"none", "open", "closing"} <=> Stage = "taking"
         /\ status = "awaiting_confirmation" <=> Stage = "shown"
         /\ status = "confirming" <=> Stage = "agreed"
         /\ status = "posted" <=> Stage = "posted"
         /\ status = "failed_closed" <=> Stage = "failed"
         /\ status = "cancelled" <=> Stage = "cancelled"
BY DEF TypeOK, Statuses, Stage

LEMMA SameWhole ==
  ASSUME UNCHANGED <<form, boundary, admitted>>
  PROVE  UNCHANGED Complete(admitted)
BY DEF Complete, Eligible

(* What is not in the mapping may change. *)
LEMMA PostingStutters ==
  ASSUME PInv, UNCHANGED <<form, boundary, admitted, status, bound, movement>>, SamePreviews,
         \A r \in Runners : req'[r].at = "complete" => req[r].at = "complete" \/ Posted
  PROVE  PInv' /\ UNCHANGED Posting!vars
<1>1. PInv'
  BY NothingNew DEF PInv, BoundIsPreviewed, CompleteIsPosted, StartsEmpty, Posted
<1>2. UNCHANGED <<Stage, Complete(admitted), NewestDraft>>
  BY NothingNew, SameWhole DEF Stage
<1> QED
  BY <1>1, <1>2 DEF Posting!vars

(* Messages are taken as long as no draft is shown. *)
LEMMA PostingTakes ==
  ASSUME IInv, IInv', PInv, NEW M \in SUBSET Messages,
         status \in {"none", "open", "closing"}, status' \in {"none", "open", "closing"},
         admitted' = admitted \cup M, status' # "none",
         UNCHANGED <<bound, movement, outbox, req>>
  PROVE  PInv' /\ Posting!Next
<1>1. PInv'
  BY SameOutbox, NothingNew DEF PInv, BoundIsPreviewed, CompleteIsPosted, StartsEmpty, Posted
<1>2. Stage = "taking" /\ Stage' = "taking" /\ NewestDraft' = NewestDraft
  BY SameOutbox, NothingNew DEF Stage
<1>3. Complete(admitted)' \in BOOLEAN
  BY DEF Complete
<1>4. Posting!Take(M)
  BY <1>2, <1>3 DEF Posting!Take
<1> QED
  BY <1>1, <1>4 DEF Posting!Next

(* The status changes, and with it the stage, and nothing else that is     *)
(* mapped.                                                                 *)
LEMMA PostingMoves ==
  ASSUME PInv, UNCHANGED <<form, boundary, admitted, bound, movement>>, SamePreviews,
         status' \notin {"none", "open", "closing"},
         status' = "failed_closed" => bound = 0,
         status' = "posted" => Posted,
         \A r \in Runners : req'[r].at = "complete" => req[r].at = "complete"
  PROVE  PInv' /\ UNCHANGED <<admitted, Complete(admitted), NewestDraft, movement>>
<1>1. PInv'
  BY NothingNew DEF PInv, BoundIsPreviewed, CompleteIsPosted, StartsEmpty, Posted
<1>2. UNCHANGED <<Complete(admitted), NewestDraft>>
  BY NothingNew, SameWhole
<1> QED
  BY <1>1, <1>2

LEMMA CapturingPosts ==
  ASSUME IInv, IInv', PInv, Capturing
  PROVE  PInv' /\ [Posting!Next]_(Posting!vars)
<1>1. CASE OpenSession
  <2>1. admitted' = admitted \cup {Header} /\ {Header} \in SUBSET Messages
    BY <1>1 DEF OpenSession, PInv, StartsEmpty, Messages
  <2> QED
    BY <1>1, <2>1, PostingTakes DEF OpenSession, ledger
<1>2. CASE CloseOpenEvent
  <2>1. admitted' = admitted \cup {} /\ {} \in SUBSET Messages
    BY <1>2 DEF CloseOpenEvent
  <2> QED
    BY <1>2, <2>1, PostingTakes DEF CloseOpenEvent, StartClosing, ledger
<1>3. ASSUME NEW m \in Messages, Admit(m) PROVE PInv' /\ [Posting!Next]_(Posting!vars)
  <2>1. admitted' = admitted \cup {m} /\ {m} \in SUBSET Messages
    BY <1>3 DEF Admit
  <2> QED
    BY <1>3, <2>1, PostingTakes DEF Admit, Admits, StartClosing, ledger
<1>4. CASE BarrierPasses
  BY <1>4, PostingStutters, SameOutbox DEF BarrierPasses, ledger
<1>5. CASE Cancel
  <2>1. PInv' /\ UNCHANGED <<admitted, Complete(admitted), NewestDraft, movement>>
    BY <1>5, PostingMoves, SameOutbox DEF Cancel, ledger
  <2>2. Stage \in {"taking", "shown"} /\ Stage' = "cancelled"
    BY <1>5, StageOf DEF Cancel, Cancellable, IInv, Stage
  <2> QED
    BY <2>1, <2>2 DEF Posting!Cancel, Posting!Next
<1> QED
  BY <1>1, <1>2, <1>3, <1>4, <1>5 DEF Capturing

LEMMA FinalizingPosts ==
  ASSUME IInv, IInv', PInv, NEW f \in Finalizers, Finalizing(f)
  PROVE  PInv' /\ [Posting!Next]_(Posting!vars)
<1>1. CASE \/ \E who \in Whos : ReadCandidate(f, who)
           \/ SaveDraft(f) \/ LoadPreview(f) \/ FinalizeRefused(f)
  <2>1. UNCHANGED <<session, movement, outbox, req>>
    BY <1>1 DEF ReadCandidate, SaveDraft, LoadPreview, FinalizeRefused, ledger
  <2> QED
    BY <2>1, PostingStutters, SameOutbox DEF session
<1>2. CASE FinalizeFailed(f)
  <2> USE <1>2 DEF FinalizeFailed, Due, ledger
  <2>1. bound = 0
    BY DEF PInv, BoundIsPreviewed
  <2>2. PInv' /\ UNCHANGED <<admitted, Complete(admitted), NewestDraft, movement>>
    BY <2>1, PostingMoves, SameOutbox
  <2>3. ~Complete(admitted)
    BY DEF Current, IInv, RunJudges
  <2>4. Stage = "taking" /\ Stage' = "failed"
    BY DEF Stage
  <2> QED
    BY <2>2, <2>3, <2>4 DEF Posting!Fail, Posting!Next
<1>3. CASE FinalizeSucceeds(f)
  <2> USE <1>3 DEF FinalizeSucceeds, Due, ledger
  <2> DEFINE p == Part("preview_ready", fin[f].rev, fin[f].who)
  <2>1. fin[f] \in RunType /\ p \in PartType /\ outbox \in Seq(PartType)
    BY RunTypes, PartIsPart DEF IInv, TypeOK, RunType
  <2>2. /\ bound = 0 /\ bound' = fin[f].rev /\ 0 < fin[f].rev
        /\ fin[f].rev \in Nat /\ fin[f].who \in Whos
    BY <2>1 DEF PInv, BoundIsPreviewed, IInv, RunDrafts, RunType
  <2>3. p.kind = "preview_ready" /\ p.rev = fin[f].rev /\ p.who = fin[f].who
    BY DEF Part
  <2>4. outbox' = Append(outbox, p)
    OBVIOUS
  <2> HIDE DEF p
  <2>5. AddsPreview(Len(outbox) + 1, bound', fin[f].who)
    BY <2>1, <2>2, <2>3, <2>4 DEF AddsPreview
  <2>6. /\ PreviewsAgree' /\ (bound # 0 => \E k \in DOMAIN outbox : IsNewest(k))'
        /\ NewestDraft' = [rev |-> bound', who |-> fin[f].who]
    BY <2>2, <2>5, NewPreview DEF IInv
  <2>7. PInv'
    BY <2>6 DEF PInv, BoundIsPreviewed, CompleteIsPosted, StartsEmpty, Posted
  <2>8. Complete(admitted) /\ UNCHANGED Complete(admitted)
    BY SameWhole DEF Current, IInv, RunJudges
  <2>9. Stage = "taking" /\ Stage' = "shown"
    BY DEF Stage
  <2>10. NewestDraft' \in [rev : Nat \ {0}, who : Whos] /\ NewestDraft' # NewestDraft
    BY <2>2, <2>6, NewestType DEF IInv
  <2> QED
    BY <2>7, <2>8, <2>9, <2>10 DEF Posting!Show, Posting!Next
<1> QED
  BY <1>1, <1>2, <1>3 DEF Finalizing

LEMMA ConfirmingPosts ==
  ASSUME IInv, IInv', PInv, NEW r \in Runners, Confirming(r)
  PROVE  PInv' /\ [Posting!Next]_(Posting!vars)
<1>1. CASE StartConfirm(r)
  <2>1. \A q \in Runners : req'[q].at = "complete" => req[q].at = "complete"
    BY <1>1, RequestTypes DEF StartConfirm
  <2> QED
    BY <1>1, <2>1, PostingStutters, SameOutbox DEF StartConfirm, session, ledger
<1>2. CASE Begin(r)
  <2> USE <1>2 DEF Begin, ledger
  <2>1. \A q \in Runners : req'[q].at = "complete" => req[q].at = "complete"
    BY ReqSteps
  <2>2. CASE ~BeginsOn(r)
    BY <2>1, <2>2, PostingStutters, SameOutbox
  <2>3. CASE BeginsOn(r)
    <3> USE <2>3 DEF BeginsOn
    <3>1. PInv' /\ UNCHANGED <<admitted, Complete(admitted), NewestDraft, movement>>
      BY <2>1, PostingMoves, SameOutbox
    <3>2. bound # 0 /\ receipt.rev = bound /\ Shown(receipt.rev, receipt.who)
      BY DEF IInv, DraftIsShown, BoundStates, TypeOK
    <3>3. NewestDraft = [rev |-> bound, who |-> receipt.who]
      BY <3>2, NewestIs DEF Shown, IsNewest, PInv
    <3>4. bound \in Nat \ {0} /\ receipt.who \in Identities
      BY <3>2, RequestTypes DEF Whos
    <3>5. Stage = "shown" /\ Stage' = "agreed"
      BY DEF Stage
    <3> QED
      BY <3>1, <3>3, <3>4, <3>5 DEF Posting!Agree, Posting!Next
  <2> QED
    BY <2>2, <2>3
<1>3. CASE Confirm(r)
  <2> USE <1>3 DEF Confirm
  <2>1. \A q \in Runners : req'[q].at = "complete" => req[q].at = "complete"
    BY ReqSteps
  <2> QED
    BY <2>1, PostingStutters, SameOutbox DEF session
<1>4. CASE Post(r)
  <2> USE <1>4 DEF Post, session
  <2>1. CASE Posted \/ receipt.who = Unresolved
    <3>1. \A q \in Runners : req'[q].at = "complete" => req[q].at = "complete" \/ Posted
      BY <2>1, ReqSteps
    <3> QED
      BY <2>1, <3>1, PostingStutters, SameOutbox
  <2>2. CASE ~Posted /\ receipt.who # Unresolved
    <3>1. receipt.state = "confirmed" /\ status \in {"confirming", "posted"} /\ receipt.rev = bound
      BY DEF IInv, RequestFollows, FrozenIsBound
    <3>2. status = "confirming" /\ Posted'
      BY <2>2, <3>1 DEF PInv, CompleteIsPosted, Posted, NoMovement
    <3>3. bound # 0 /\ Shown(receipt.rev, receipt.who)
      BY <3>1, <3>2 DEF IInv, DraftIsShown, BoundStates, TypeOK
    <3>4. NewestDraft = movement'
      BY <2>2, <3>1, <3>3, NewestIs DEF Shown, IsNewest, PInv
    <3>5. PInv' /\ UNCHANGED NewestDraft
      BY <3>2, SameOutbox, NothingNew DEF PInv, BoundIsPreviewed, CompleteIsPosted, StartsEmpty
    <3>6. UNCHANGED <<Stage, Complete(admitted)>> /\ Stage = "agreed"
      BY <3>2, SameWhole DEF Stage
    <3> QED
      BY <2>2, <3>4, <3>5, <3>6 DEF Posting!Post, Posting!Next, Posted
  <2> QED
    BY <2>1, <2>2
<1>5. CASE CompletePosting(r)
  <2> USE <1>5 DEF CompletePosting, ledger
  <2>1. \A q \in Runners : req'[q].at = "complete" => req[q].at = "complete"
    BY ReqSteps
  <2>2. CASE status # "confirming"
    BY <2>1, <2>2, PostingStutters, SameOutbox
  <2>3. CASE status = "confirming"
    <3> DEFINE p == Part("posted_success", bound, movement.who)
    <3>1. Posted
      BY DEF PInv, CompleteIsPosted
    <3>2. p \in PartType /\ p.kind # "preview_ready" /\ outbox \in Seq(PartType)
      BY PartIsPart DEF IInv, TypeOK, Part
    <3>3. outbox' = Append(outbox, p)
      BY <2>3
    <3> HIDE DEF p
    <3>4. SamePreviews
      BY <3>2, <3>3 DEF SamePreviews
    <3>5. PInv' /\ UNCHANGED <<admitted, Complete(admitted), NewestDraft, movement>>
      BY <2>1, <2>3, <3>1, <3>4, PostingMoves
    <3>6. Stage = "agreed" /\ Stage' = "posted"
      BY <2>3 DEF Stage
    <3> QED
      BY <3>1, <3>5, <3>6 DEF Posting!Announce, Posting!Next, Posted
  <2> QED
    BY <2>2, <2>3
<1> QED
  BY <1>1, <1>2, <1>3, <1>4, <1>5 DEF Confirming

LEMMA RecheckingPosts ==
  ASSUME IInv, IInv', PInv, NEW r \in Runners, Rechecking(r)
  PROVE  PInv' /\ [Posting!Next]_(Posting!vars)
<1>1. ASSUME NEW who \in Whos, StartRecheck(r, who)
      PROVE  PInv' /\ [Posting!Next]_(Posting!vars)
  <2>1. \A q \in Runners : req'[q].at = "complete" => req[q].at = "complete"
    BY <1>1, RequestTypes DEF StartRecheck
  <2> QED
    BY <1>1, <2>1, PostingStutters, SameOutbox DEF StartRecheck, session, ledger
<1>2. CASE Replace(r)
  <2> USE <1>2 DEF Replace
  <2>1. \A q \in Runners : req'[q].at = "complete" => req[q].at = "complete"
    BY ReqSteps
  <2>2. CASE ~ReplacesOn(r)
    BY <2>1, <2>2, PostingStutters, SameOutbox
  <2>3. CASE ReplacesOn(r)
    <3> USE <2>3 DEF ReplacesOn
    <3> DEFINE p == Part("preview_ready", receipt.rev + 1, req[r].who)
               kept == [k \in DOMAIN outbox |-> Superseded(outbox[k])]
    <3>1. /\ bound \in Nat /\ bound' = bound + 1 /\ bound' = receipt.rev + 1
          /\ req[r].who \in Whos
      BY RequestTypes DEF RequestType
    <3>2. p \in PartType /\ p.kind = "preview_ready" /\ p.rev = bound' /\ p.who = req[r].who
      BY <3>1, PartIsPart DEF Part
    <3>3. outbox \in Seq(PartType)
      BY DEF IInv, TypeOK
    <3>4. /\ kept \in Seq(PartType) /\ DOMAIN kept = DOMAIN outbox
          /\ \A k \in DOMAIN outbox :
               /\ kept[k].kind = outbox[k].kind /\ kept[k].rev = outbox[k].rev
               /\ kept[k].who = outbox[k].who
      BY <3>3, SupersededParts
    <3>5. outbox' = Append(kept, p)
      OBVIOUS
    <3> HIDE DEF p, kept
    <3>6. AddsPreview(Len(kept) + 1, bound', req[r].who)
      BY <3>2, <3>4, <3>5 DEF AddsPreview
    <3>7. /\ PreviewsAgree' /\ (bound # 0 => \E k \in DOMAIN outbox : IsNewest(k))'
          /\ NewestDraft' = [rev |-> bound', who |-> req[r].who]
      BY <3>1, <3>6, NewPreview DEF IInv
    <3>8. PInv'
      BY <2>1, <3>7 DEF PInv, BoundIsPreviewed, CompleteIsPosted, StartsEmpty, Posted
    <3>9. NewestDraft' \in [rev : Nat \ {0}, who : Whos] /\ NewestDraft' # NewestDraft
      BY <3>1, <3>7, NewestType DEF IInv
    <3>10. UNCHANGED <<Stage, Complete(admitted)>> /\ Stage = "shown"
      BY SameWhole DEF Stage
    <3> QED
      BY <3>8, <3>9, <3>10 DEF Posting!Show, Posting!Next
  <2> QED
    BY <2>2, <2>3
<1> QED
  BY <1>1, <1>2 DEF Rechecking

LEMMA DeliveringPosts ==
  ASSUME IInv, IInv', PInv, NEW k \in DOMAIN outbox, Delivering(k)
  PROVE  PInv' /\ [Posting!Next]_(Posting!vars)
<1>1. \E state \in {"sending", "lapsed", "failed", "delivered"} :
         outbox' = [outbox EXCEPT ![k].state = state]
  BY DEF Delivering, Claim, Delivered, PushFails
<1>2. \A j \in DOMAIN outbox : outbox[j] \in PartType
  BY DEF IInv, TypeOK
<1>3. SamePreviews
  BY <1>1, <1>2 DEF SamePreviews, PartType
<1>4. UNCHANGED <<session, movement, req>>
  BY DEF Delivering, Claim, Delivered, PushFails, ledger
<1> QED
  BY <1>3, <1>4, PostingStutters DEF session

LEMMA KillPosts ==
  ASSUME IInv, IInv', PInv, KillSweep
  PROVE  PInv' /\ [Posting!Next]_(Posting!vars)
<1>1. \A q \in Runners : req'[q].at = "complete" => req[q].at = "complete"
  BY SweepAssumption, RequestTypes DEF KillSweep, ReqEnds, NoRequest
<1> QED
  BY <1>1, PostingStutters, SameOutbox DEF KillSweep, session, ledger

LEMMA NextPosts ==
  ASSUME IInv, IInv', PInv, [Next]_vars
  PROVE  PInv' /\ [Posting!Next]_(Posting!vars)
<1>1. CASE Capturing
  BY <1>1, CapturingPosts
<1>2. CASE \E f \in Finalizers : Finalizing(f)
  BY <1>2, FinalizingPosts
<1>3. CASE \E r \in Runners : Confirming(r)
  BY <1>3, ConfirmingPosts
<1>4. CASE \E r \in Runners : Rechecking(r)
  BY <1>4, RecheckingPosts
<1>5. CASE \E k \in DOMAIN outbox : Delivering(k)
  BY <1>5, DeliveringPosts
<1>6. CASE KillSweep
  BY <1>6, KillPosts
<1>7. CASE UNCHANGED vars
  BY <1>7, PostingStutters, SameOutbox DEF vars, session, ledger
<1> QED
  BY <1>1, <1>2, <1>3, <1>4, <1>5, <1>6, <1>7 DEF Next

LEMMA InitPosts == Init => PInv /\ Posting!Init
<1> SUFFICES ASSUME Init PROVE PInv /\ Posting!Init
  OBVIOUS
<1> USE DEF Init
<1>1. PInv
  BY DEF PInv, PreviewsAgree, BoundIsPreviewed, CompleteIsPosted, StartsEmpty, Posted, NoRequest
<1>2. Stage = "taking" /\ NewestDraft = NoMovement /\ Complete(admitted) \in BOOLEAN
  BY DEF Stage, NewestDraft, Complete
<1> QED
  BY <1>1, <1>2 DEF Posting!Init

(* Whatever finalizers, rechecks, confirmations and the outbox interleave, *)
(* every step of a capture is a step of PurchasePosting or none: it posts  *)
(* the draft it previewed last, once, for a document that is whole, after  *)
(* a confirmation that no recheck, cancel or failure follows.              *)
THEOREM CaptureImplementsPosting == Spec => Refines
<1>1. Init => PInv /\ Posting!Init
  BY InitPosts
<1>2. IInv /\ IInv' /\ PInv /\ [Next]_vars => PInv' /\ [Posting!Next]_(Posting!vars)
  BY NextPosts
<1> QED
  BY <1>1, <1>2, InvariantHolds, PTL DEF Spec, Refines, Posting!Spec
=============================================================================
