----------------------------- MODULE SlipSummary -----------------------------
(***************************************************************************)
(* One slip batch from its images' OCR checks to its summary in the chat:  *)
(* claims and answers of OCR workers, the cancel of a session, corrections *)
(* typed as a quote, and the finalizers (the cron's first claim, its sweep *)
(* of stale batches, an administrator's recovery) that sum the checks up,  *)
(* push the summary under the batch's retry key and store the outcome.     *)
(*                                                                         *)
(* How images come into the batch is SlipIngest's subject: here they are   *)
(* attached while it is open, and the ledger's accounting is any.          *)
(* An RPC is one step, except the two that hold one row lock while they    *)
(* wait for, or refuse to wait for, another: cancel and correction.        *)
(***************************************************************************)
EXTENDS Naturals, Sequences

CONSTANTS
    Images,         \* images of the batch
    Finalizers,     \* runs of the finalizers
    Admins,         \* those that may be an administrator's
    MaxClaims,      \* bound on the OCR claims of an image
    MaxFaults,      \* bound on crashes and failed calls
    StaleAge,       \* PROCESSING_RECOVERY_STALE_MINUTES
    MaxDuration,    \* the cron's maxDuration, in the same unit
    NoMessage

ASSUME BoundAssumption == MaxClaims \in Nat /\ MaxFaults \in Nat
ASSUME DurationAssumption ==
    MaxDuration \in Nat /\ StaleAge \in Nat /\ MaxDuration < StaleAge

Tokens == 0..MaxClaims
Messages == [counted : SUBSET Images, missing : BOOLEAN]
ASSUME NullAssumption == NoMessage \notin Messages

VARIABLES
    status,     \* slip_batches.status
    sent,       \* slip_batches.summary_sent_at is set
    stored,     \* the images behind slip_batches.success_count
    rest,       \* time since slip_batches.updated_at
    window,     \* the batch is younger than LINE's 24 hours
    attached,   \* slip_evidences of the batch
    check,      \* slip_checks, by image
    jobs,       \* claims whose OCR worker has not answered, by image and token
    cancelling, \* a cancel holds the batch row
    held,       \* checks whose row a correction holds
    fin,        \* what each finalizer is doing
    wire,       \* its push that LINE has not taken in
    known,      \* LINE remembers the batch's retry key
    chat,       \* the summaries shown in the chat
    beside,     \* history: an administrator's recovery ran beside another one
    recounted,  \* history: a finalizer began when one before it had pushed
    faults      \* crashes and failed calls so far

batch == <<status, sent, stored, rest, window>>
slips == <<attached, check, jobs, cancelling, held>>
line == <<wire, known, chat>>
history == <<beside, recounted>>
vars == <<batch, slips, fin, line, history, faults>>

OpenStates == {"collecting", "closing"}
NoCheck == [state |-> "none", token |-> 0, leased |-> FALSE, by |-> 0]
NoRun == [at |-> "idle", kind |-> "none", age |-> 0, seen |-> NoMessage]

(* The batch row can be locked: no cancel holds it. *)
Unlocked == ~cancelling

Verified == {i \in Images : check[i].state = "VERIFIED"}
InFlight(f) == fin[f].at \notin {"idle", "due"}

Fault == faults < MaxFaults /\ faults' = faults + 1

-----------------------------------------------------------------------------
(***************************************************************************)
(* The batch, as SlipIngest drives it.                                     *)
(***************************************************************************)
Attach(i) ==
    /\ status \in OpenStates /\ Unlocked
    /\ attached' = attached \cup {i}
    /\ UNCHANGED <<batch, check, jobs, cancelling, held, fin, line, history, faults>>

Close ==
    /\ status = "collecting" /\ Unlocked
    /\ status' = "closing"
    /\ UNCHANGED <<sent, stored, rest, window, slips, fin, line, history, faults>>

-----------------------------------------------------------------------------
(***************************************************************************)
(* SlipCheckService.processEvidence.                                       *)
(***************************************************************************)
(* claim_slip_check: a new check, or one whose worker's lease ended. *)
Claimable(i) ==
    /\ status \in OpenStates
    /\ check[i].state = "none" \/ (check[i].state = "PROCESSING" /\ ~check[i].leased)

Claim(i) ==
    /\ i \in attached /\ Unlocked /\ Claimable(i)
    /\ check[i].token < MaxClaims
    /\ check' = [check EXCEPT ![i].state = "PROCESSING", ![i].token = @ + 1, ![i].leased = TRUE]
    /\ jobs' = jobs \cup {<<i, check'[i].token>>}
    /\ UNCHANGED <<batch, attached, cancelling, held, fin, line, history, faults>>

(* Mutant: the answer is matched by the check's id alone. *)
CurrentById(i, token) == check[i].state = "PROCESSING"

(* The claim is the check's newest and its lease is still valid. *)
Current(i, token) ==
    check[i].token = token /\ check[i].state = "PROCESSING" /\ check[i].leased

(* What complete_slip_check and fail_slip_check ask before they write. *)
Takes(i, token) == status \in OpenStates /\ Current(i, token)

(* The worker answers: what it read, or that it failed.  A late answer     *)
(* changes nothing, nor does the failure reported when the answer of the   *)
(* call is lost.  A worker that dies is one that never answers.            *)
Answer(i, token, result) ==
    /\ <<i, token>> \in jobs /\ Unlocked
    /\ check' = IF Takes(i, token)
                THEN [check EXCEPT ![i].state = result, ![i].leased = FALSE, ![i].by = token]
                ELSE check
    /\ jobs' = jobs \ {<<i, token>>}
    /\ UNCHANGED <<batch, attached, cancelling, held, fin, line, history, faults>>

(* The lease of a claim ends, whether its worker lives or not. *)
LeaseEnds(i) ==
    /\ check[i].leased
    /\ check' = [check EXCEPT ![i].leased = FALSE]
    /\ UNCHANGED <<batch, attached, jobs, cancelling, held, fin, line, history, faults>>

-----------------------------------------------------------------------------
(***************************************************************************)
(* Cancel and correction.                                                  *)
(***************************************************************************)
(* Mutant: a batch is cancelled whatever has become of it. *)
CancellableAlways == status # "cancelled"

Cancellable == status = "collecting"

(* cancel_collecting_slip_batch takes the batch row ... *)
BeginCancel ==
    /\ Cancellable /\ Unlocked
    /\ cancelling' = TRUE
    /\ UNCHANGED <<batch, attached, check, jobs, held, fin, line, history, faults>>

Deverified ==
    [i \in Images |-> IF check[i].state = "VERIFIED" /\ i \in attached
                      THEN [check[i] EXCEPT !.state = "NEED_REVIEW"] ELSE check[i]]

(* ... and, once no correction holds a check it deverifies, commits. *)
Cancel ==
    /\ cancelling /\ held \cap Verified = {}
    /\ cancelling' = FALSE
    /\ status' = "cancelled"
    /\ check' = Deverified
    /\ UNCHANGED <<sent, stored, rest, window, attached, jobs, held, fin, line,
                   history, faults>>

(* apply_slip_amount_correction takes the check row of a read image ... *)
BeginCorrect(i) ==
    /\ i \in attached \ held
    /\ check[i].state \in {"VERIFIED", "NEED_REVIEW"}
    /\ held' = held \cup {i}
    /\ UNCHANGED <<batch, attached, check, jobs, cancelling, fin, line, history, faults>>

(* Mutant: no trigger guards the write. *)
GuardedNot(state) == state

(* guard_cancelled_slip_check *)
Guarded(state) ==
    IF state = "VERIFIED" /\ status = "cancelled" THEN "NEED_REVIEW" ELSE state

(* Mutant: the trigger waits for the batch row. *)
WriteWaiting(i, state) ==
    /\ state = "VERIFIED" => Unlocked
    /\ check' = [check EXCEPT ![i].state = Guarded(state)]

(* The trigger does not wait for the batch row: the write fails instead. *)
Write(i, state) ==
    check' = IF state = "VERIFIED" /\ ~Unlocked THEN check
             ELSE [check EXCEPT ![i].state = Guarded(state)]

(* ... and writes it; an amount can verify a check, never unverify it. *)
Correct(i, state) ==
    /\ i \in held
    /\ state \in IF check[i].state = "VERIFIED" THEN {"VERIFIED"} ELSE {"VERIFIED", "NEED_REVIEW"}
    /\ held' = held \ {i}
    /\ Write(i, state)
    /\ UNCHANGED <<batch, attached, jobs, cancelling, fin, line, history, faults>>

-----------------------------------------------------------------------------
(***************************************************************************)
(* The finalizers.                                                         *)
(***************************************************************************)
Run(f, step) == fin' = [fin EXCEPT ![f] = step]

(* Mutant: the summary stays in hand. *)
StopFull(f) == Run(f, [fin[f] EXCEPT !.at = "idle", !.kind = "none", !.age = 0])

Stop(f) == Run(f, NoRun)

(* An UPDATE of the batch row: trg_slip_batches_updated_at stamps it. *)
Touch == rest' = 0

(* The finalizer f, of the given kind, is about to sum the batch up.  One  *)
(* before it may have pushed a summary and stored nothing.                 *)
Enter(f, kind) ==
    /\ Run(f, [fin[f] EXCEPT !.at = "claimed", !.kind = kind])
    /\ beside' = (beside \/ \E g \in Finalizers \ {f} :
                                InFlight(g) /\ "admin" \in {kind, fin[g].kind})
    /\ recounted' = (recounted \/ chat # <<>> \/ \E g \in Finalizers : wire[g] # NoMessage)

(* finalizeDueSlipBatches claims an abandoned batch, and                   *)
(* claim_closing_slip_batch a closed one whose wait is over; they exclude  *)
(* each other by the row.                                                  *)
ClaimOpen(f) ==
    /\ fin[f] = NoRun
    /\ status \in OpenStates /\ Unlocked
    /\ status' = "processing"
    /\ Touch
    /\ Enter(f, "cron")
    /\ UNCHANGED <<sent, stored, window, slips, line, faults>>

Stale == status = "processing" /\ ~sent /\ window /\ rest >= StaleAge

(* recoverStaleProcessingSlipBatches lists the batch ... *)
FetchStale(f) ==
    /\ fin[f] = NoRun
    /\ Stale
    /\ Run(f, [NoRun EXCEPT !.at = "due", !.kind = "sweep"])
    /\ UNCHANGED <<batch, slips, line, history, faults>>

(* Mutant: the lease does not compare updated_at. *)
LeasableByStatus == status = "processing" /\ ~sent

(* Nobody has stamped the row since.  No run lasts as long as StaleAge, so *)
(* a row stamped since it was listed is still fresh now.                   *)
Leasable == status = "processing" /\ ~sent /\ rest >= StaleAge

(* ... and leases it, unless another sweep or finalizer was faster. *)
Lease(f) ==
    /\ fin[f].at = "due"
    /\ Leasable
    /\ Touch
    /\ Enter(f, "sweep")
    /\ UNCHANGED <<status, sent, stored, window, slips, line, faults>>

LeaseConflict(f) ==
    /\ fin[f].at = "due"
    /\ ~Leasable
    /\ Stop(f)
    /\ UNCHANGED <<batch, slips, line, history, faults>>

(* Mutant: an administrator's recovery is not limited to a day. *)
RecoverableForEver == status \in {"processing", "review_needed"} /\ ~sent

Recoverable == status \in {"processing", "review_needed"} /\ ~sent /\ window

(* recoverSlipBatch *)
Recover(f) ==
    /\ f \in Admins /\ fin[f] = NoRun
    /\ Recoverable
    /\ Enter(f, "admin")
    /\ UNCHANGED <<batch, slips, line, faults>>

(* The verified images but the flagged ones.  What flags an image is its   *)
(* date, no amount or one far above the others', and a bank reference it   *)
(* shares with an image before it or with an earlier check of any batch.   *)
(* A correction, a resolved reference or another batch's check changes     *)
(* this between two readings, in both directions: an image that was        *)
(* counted may be flagged later.  So any images may be flagged.            *)
Counted(flagged) == (Verified \cap attached) \ flagged

(* finalizeSlipBatch reads the batch, its images and their checks, and     *)
(* passes over those that are flagged ...                                  *)
Load(f, flagged) ==
    /\ fin[f].at = "claimed"
    /\ IF sent THEN Stop(f)
                ELSE Run(f, [fin[f] EXCEPT !.at = "loaded",
                        !.seen = [counted |-> Counted(flagged), missing |-> FALSE]])
    /\ UNCHANGED <<batch, slips, line, history, faults>>

(* ... then the ledger's accounting, whether images of the session are     *)
(* missing from the batch, and pushes the summary.                         *)
Push(f, missing) ==
    /\ fin[f].at = "loaded" /\ wire[f] = NoMessage
    /\ Run(f, [fin[f] EXCEPT !.at = "pushing", !.seen.missing = missing])
    /\ wire' = [wire EXCEPT ![f] = fin'[f].seen]
    /\ UNCHANGED <<batch, slips, known, chat, history, faults>>

(* The accounting is not to be had, or the push is not answered, or the    *)
(* run is cut: the batch stays in processing.                              *)
BreakOff(f) ==
    /\ fin[f] # NoRun /\ Fault
    /\ Stop(f)
    /\ UNCHANGED <<batch, slips, line, history>>

(* HTTP 2xx, or 409 for a key LINE has accepted before.  The finalizer may *)
(* be gone by then.                                                        *)
Accept(f) ==
    /\ wire[f] # NoMessage
    /\ wire' = [wire EXCEPT ![f] = NoMessage]
    /\ known' = TRUE
    /\ chat' = IF known THEN chat ELSE Append(chat, wire[f])
    /\ IF fin[f].at = "pushing" THEN Run(f, [fin[f] EXCEPT !.at = "delivered"])
                                ELSE UNCHANGED fin
    /\ UNCHANGED <<batch, slips, history, faults>>

(* The push is refused for good: isPermanentLineRejection. *)
Refuse(f) ==
    /\ fin[f].at = "pushing" /\ wire[f] # NoMessage
    /\ wire' = [wire EXCEPT ![f] = NoMessage]
    /\ IF fin[f].kind = "sweep" THEN Run(f, [fin[f] EXCEPT !.at = "refused"]) ELSE Stop(f)
    /\ UNCHANGED <<batch, slips, known, chat, history, faults>>

(* A push whose sender is gone never reaches LINE. *)
Drop(f) ==
    /\ wire[f] # NoMessage /\ fin[f].at # "pushing"
    /\ wire' = [wire EXCEPT ![f] = NoMessage]
    /\ UNCHANGED <<batch, slips, known, chat, fin, history, faults>>

Park(f) ==
    /\ fin[f].at = "refused"
    /\ IF status = "processing" /\ ~sent
       THEN status' = "review_needed" /\ Touch
       ELSE UNCHANGED <<status, rest>>
    /\ Stop(f)
    /\ UNCHANGED <<sent, stored, window, slips, line, history, faults>>

(* Nothing counted, something not counted or missing, or all counted. *)
Outcome(m) ==
    IF m.counted = {} THEN "failed"
    ELSE IF m.counted # attached \/ m.missing THEN "review_needed" ELSE "completed"

(* The outcome is stored, by the batch's id alone: this run's own count,   *)
(* also when its push was answered 409 and the chat shows another's.  If   *)
(* the update fails, BreakOff, the batch stays in processing although its  *)
(* summary is out.                                                         *)
Persist(f) ==
    /\ fin[f].at = "delivered"
    /\ status' = Outcome(fin[f].seen)
    /\ sent' = TRUE
    /\ stored' = fin[f].seen.counted
    /\ Touch
    /\ Stop(f)
    /\ UNCHANGED <<window, slips, line, history, faults>>

-----------------------------------------------------------------------------
(***************************************************************************)
(* Time.                                                                   *)
(***************************************************************************)
(* A run of the cron has ended when its duration is over. *)
Tick ==
    /\ status = "processing" /\ rest < StaleAge
    /\ \A f \in Finalizers : fin[f].kind \in {"cron", "sweep"} => fin[f].age < MaxDuration
    /\ rest' = rest + 1
    /\ fin' = [f \in Finalizers |-> IF fin[f].kind \in {"cron", "sweep"}
                                     THEN [fin[f] EXCEPT !.age = @ + 1] ELSE fin[f]]
    /\ UNCHANGED <<status, sent, stored, window, slips, line, history, faults>>

(* 24 hours after closing_at, or created_at. *)
WindowEnds ==
    /\ window
    /\ window' = FALSE
    /\ UNCHANGED <<status, sent, stored, rest, slips, fin, line, history, faults>>

(* 24 hours after the first push: later than that, and by more than a run  *)
(* that had still found the window open can last.                          *)
Forget ==
    /\ known /\ ~window
    /\ \A f \in Finalizers : fin[f] = NoRun /\ wire[f] = NoMessage
    /\ known' = FALSE
    /\ UNCHANGED <<batch, slips, fin, wire, chat, history, faults>>

-----------------------------------------------------------------------------
Init ==
    /\ status = "collecting" /\ sent = FALSE /\ stored = {} /\ rest = 0 /\ window = TRUE
    /\ attached = {}
    /\ check = [i \in Images |-> NoCheck]
    /\ jobs = {}
    /\ cancelling = FALSE /\ held = {}
    /\ fin = [f \in Finalizers |-> NoRun]
    /\ wire = [f \in Finalizers |-> NoMessage]
    /\ known = FALSE /\ chat = <<>>
    /\ beside = FALSE /\ recounted = FALSE /\ faults = 0

Results == {"VERIFIED", "NEED_REVIEW"}

Collecting == Close \/ BeginCancel \/ Cancel \/ \E i \in Images : Attach(i)

Reading ==
    \E i \in Images :
        \/ Claim(i) \/ LeaseEnds(i) \/ BeginCorrect(i)
        \/ \E token \in Tokens, result \in Results \cup {"FAILED"} : Answer(i, token, result)
        \/ \E state \in Results : Correct(i, state)

(* What the run of a finalizer that has begun does next. *)
Proceed(f) ==
    \/ Lease(f) \/ LeaseConflict(f) \/ Accept(f) \/ Refuse(f) \/ Park(f) \/ Persist(f)
    \/ \E flagged \in SUBSET Verified : Load(f, flagged)
    \/ \E missing \in BOOLEAN : Push(f, missing)

Finalizing ==
    \E f \in Finalizers :
        ClaimOpen(f) \/ FetchStale(f) \/ Recover(f) \/ Proceed(f) \/ BreakOff(f) \/ Drop(f)

Next == Collecting \/ Reading \/ Finalizing \/ Tick \/ WindowEnds \/ Forget

Spec == Init /\ [][Next]_vars

(* The cron finalizes what is closed and sweeps what is stale at every     *)
(* run; a run goes on or is cut; a transaction that holds rows ends.       *)
FairSpec ==
    /\ Spec
    /\ SF_vars(Cancel) /\ WF_vars(Tick)
    /\ \A i \in Images : WF_vars(\E state \in Results : Correct(i, state))
    /\ \A f \in Finalizers : WF_vars(fin[f].at # "idle" /\ Proceed(f))
    /\ WF_vars(status = "closing" /\ \E f \in Finalizers : ClaimOpen(f))
    /\ SF_vars(\E f \in Finalizers : FetchStale(f))

-----------------------------------------------------------------------------
CheckType ==
    [state : {"none", "PROCESSING", "VERIFIED", "NEED_REVIEW", "FAILED"}, token : Tokens,
     leased : BOOLEAN, by : Tokens]
RunType ==
    [at : {"idle", "due", "claimed", "loaded", "pushing", "delivered", "refused"},
     kind : {"none", "cron", "sweep", "admin"}, age : 0..MaxDuration,
     seen : Messages \cup {NoMessage}]

(* Every variable has its type; a finalizer has a summary in hand exactly  *)
(* from reading the checks to storing the outcome.                         *)
TypeOK ==
    /\ status \in OpenStates \cup {"processing", "completed", "review_needed", "failed", "cancelled"}
    /\ sent \in BOOLEAN /\ stored \subseteq attached /\ rest \in 0..StaleAge /\ window \in BOOLEAN
    /\ attached \subseteq Images
    /\ check \in [Images -> CheckType]
    /\ jobs \subseteq Images \X Tokens
    /\ cancelling \in BOOLEAN /\ held \subseteq Images
    /\ fin \in [Finalizers -> RunType]
    /\ \A f \in Finalizers :
          fin[f].seen # NoMessage <=> fin[f].at \in {"loaded", "pushing", "delivered", "refused"}
    /\ wire \in [Finalizers -> Messages \cup {NoMessage}]
    /\ known \in BOOLEAN /\ chat \in Seq(Messages)
    /\ beside \in BOOLEAN /\ recounted \in BOOLEAN /\ faults \in 0..MaxFaults

(* The chat gets one summary of a batch, however many finalizers, crashes  *)
(* and lost answers there are: the retry key protects while it lives, and  *)
(* nobody sends again when it does not.                                    *)
OneSummary == Len(chat) <= 1

(* What a summary counted as verified stays verified: no late OCR answer,  *)
(* cancel or correction takes it back once it was announced.               *)
AnnouncedStands ==
    \A n \in 1..Len(chat) : chat[n].counted \subseteq Verified \cap attached

(* An outcome is stored only after the chat was told, and it is the one    *)
(* the chat was told: the same images counted and the status they mean.    *)
(* The push and the update are separate calls, so this is broken by a      *)
(* finalizer that counts the images again, after a push of an earlier one  *)
(* that stored nothing, or, an administrator's, beside another.            *)
StoredIsShown ==
    sent =>
        /\ chat # <<>>
        /\ ~beside /\ ~recounted =>
              stored = chat[1].counted /\ status = Outcome(chat[1])

(* A cancelled batch has no verified check, whatever OCR answers and       *)
(* corrections were under way when it was cancelled.                       *)
CancelledCountsNothing == status = "cancelled" => Verified \cap attached = {}

(* A check's result is the one of its newest claim, and no claim is made   *)
(* on a check that has a result.                                           *)
ResultOfNewestClaim ==
    \A i \in Images :
        check[i].state \in {"VERIFIED", "NEED_REVIEW", "FAILED"} => check[i].by = check[i].token

Settled ==
    \/ sent \/ ~window \/ status \in {"review_needed", "cancelled"}

(* Every closed or claimed batch gets its summary, is parked for an        *)
(* administrator after a refusal, or outlives the retry window; and a      *)
(* cancel that has begun ends.                                             *)
SummaryEnds == (cancelling \/ status \in {"closing", "processing"}) ~> Settled

-----------------------------------------------------------------------------
(***************************************************************************)
(* The checks, the finalizers and LINE implement SummaryReport.            *)
(***************************************************************************)
Stage == IF status \in OpenStates \cup {"cancelled"} THEN status ELSE "claimed"
Record == IF sent THEN [counted |-> stored, as |-> status] ELSE NoMessage

Report == INSTANCE SummaryReport
    WITH Nothing <- NoMessage,
         stage <- Stage, members <- attached, good <- Verified \cap attached,
         told <- chat, record <- Record, rival <- beside, again <- recounted

(* Every step of the OCR workers, the cancel, the corrections and the      *)
(* finalizers is a step of the report they promise, or none: whatever      *)
(* claims, leases and pushes overtake each other, a session is told about  *)
(* once and truly; what is stored of it was told before, in those words    *)
(* unless it was counted again, and is final unless an administrator       *)
(* recovers beside another finalizer.                                      *)
Refines == Report!Spec
=============================================================================
