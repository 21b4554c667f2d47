---------------------------- MODULE PendingSession ----------------------------
(***************************************************************************)
(* The produce list one sender types in a chat, from its header to the     *)
(* saved session: header, item and closing messages taken from the ordered *)
(* queue, the close gate with its review, items that arrive out of order,  *)
(* and the finalizer that validates a snapshot and saves it.               *)
(*                                                                         *)
(* A message is its LINE timestamp; messages may reach the queue in any    *)
(* order.  A document is the set of its item messages.  The calls of a     *)
(* worker and of the finalizer are one step each, as are the RPCs that     *)
(* hold the row of the session.                                            *)
(***************************************************************************)
EXTENDS Naturals, FiniteSets

CONSTANTS
    N,              \* number of messages
    Scripts,        \* what the messages are
    Announced,      \* the item count a closing message announces, 0 if none
    Workers,        \* workers of the queue
    MaxFaults       \* bound on crashes, lost leases and failed calls

Messages == 1..N
Kinds == {"opener", "item", "risky", "bad", "close"}

ASSUME ScriptAssumption == N \in Nat /\ Scripts \subseteq [Messages -> Kinds]
ASSUME AnnouncedAssumption == Announced \in [Messages -> Nat]
ASSUME BoundAssumption == MaxFaults \in Nat

VARIABLES
    script,     \* what each message is
    queue,      \* line_webhook_events.status, by message
    job,        \* what each worker is doing
    session,    \* the row of pending_sessions and its ledger
    deferred,   \* pending_produce_deferred_events, by message
    reviews,    \* produce_entry_validation_reviews
    shown,      \* history: the reviews the operator was shown, and by what
    left,       \* history: rows of earlier lists, older than the header that followed
    run,        \* what the finalizer is doing
    faults      \* crashes, lost leases and failed calls so far

vars == <<script, queue, job, session, deferred, reviews, shown, left, run, faults>>

None == 0           \* no message
Token == 0          \* presents a review for the finalizer
Items == {e \in Messages : script[e] \in {"item", "risky", "bad"}}
Document(rows) == rows \cap Items

NoSession ==
    [gen |-> 0, opener |-> None, rows |-> {}, close |-> None, announced |-> 0,
     attempt |-> "none", late |-> FALSE, refused |-> FALSE, outcome |-> "none", saved |-> {}]
(* What a reader of the row uses of it later. *)
View(s) == [gen |-> s.gen, opener |-> s.opener, rows |-> s.rows, close |-> s.close,
            refused |-> s.refused]
NotDeferred == [status |-> "none", gen |-> 0]
NoJob == [at |-> "idle", event |-> None, leased |-> FALSE, snap |-> View(NoSession), presents |-> FALSE]
NoRun == [at |-> "idle", snap |-> View(NoSession), doc |-> {}, errors |-> FALSE]

Fault == faults < MaxFaults /\ faults' = faults + 1
NoFault == UNCHANGED faults

-----------------------------------------------------------------------------
(***************************************************************************)
(* The session's row.                                                      *)
(***************************************************************************)
Live(s) == s.outcome = "live"
Same(s, t) == s.gen = t.gen

(* The message lies within the boundaries the session has so far. *)
Inside(s, e) == s.opener < e /\ (s.close = None \/ e < s.close)

(* append_pending_session for an item, and what it makes of the row. *)
Accepts(s, e) ==
    Live(s) /\ (e \in s.rows \/ s.close = None \/ (~s.late /\ e <= s.close))

Appended(s, new) ==
    [s EXCEPT !.rows = @ \cup new,
              !.attempt = IF s.close # None /\ ~(new \subseteq s.rows) THEN "set" ELSE @]

(* Mutant: the next attempt is not cleared. *)
EndedStillDue(s, outcome, doc) == [s EXCEPT !.outcome = outcome, !.saved = doc]

Ended(s, outcome, doc) ==
    [s EXCEPT !.outcome = outcome, !.attempt = "none", !.saved = doc]

(* The waiting rows, and those judged against the generation retired now,  *)
(* which the new header may take in.                                       *)
Reconciled(e, old) ==
    {x \in Messages : x > e /\
        \/ deferred[x].status = "waiting"
        \/ old # NoSession /\ deferred[x].gen = old.gen /\ deferred[x].status \in {"before", "after"}}

(* Mutant: a rotation starts from the header alone. *)
CarriedNothing(e, old) == {}

(* The retired generation's rows that belong after the new header. *)
Carried(e, old) == {x \in old.rows : x > e /\ x \notin {old.opener, old.close}}

(* open_pending_plain_text_generation, unless it refuses. *)
OpenRefuses(e, expected) ==
    /\ session.opener # e
    /\ IF expected = 0 THEN Live(session) ELSE session.gen # expected

Open(e) ==
    LET again == session.opener = e
        old   == IF again THEN NoSession ELSE session
        base  == IF again THEN session
                 ELSE [NoSession EXCEPT !.gen = session.gen + 1, !.opener = e,
                          !.outcome = "live", !.rows = {e} \cup Carried(e, session)]
        taken == {x \in Reconciled(e, old) : Accepts(base, x)}
    IN  /\ session' = Appended(base, taken)
        /\ deferred' = [x \in Messages |-> IF x \in taken
                          THEN [status |-> "admitted", gen |-> base.gen] ELSE deferred[x]]
        /\ left' = IF again THEN left ELSE left \cup {x \in session.rows : x < e}

-----------------------------------------------------------------------------
(***************************************************************************)
(* Messages and the queue.                                                 *)
(***************************************************************************)
Deliver(e) ==
    /\ queue[e] = "unsent"
    /\ queue' = [queue EXCEPT ![e] = "queued"]
    /\ UNCHANGED <<script, job, session, deferred, reviews, shown, run, faults, left>>

(* The queue hands out the first message in order that is not settled; its *)
(* worker reads the active session.                                        *)
Take(w, e) ==
    /\ job[w] = NoJob
    /\ queue[e] = "queued"
    /\ \A x \in Messages : queue[x] # "taken" /\ (queue[x] = "queued" => e <= x)
    /\ queue' = [queue EXCEPT ![e] = "taken"]
    /\ job' = [job EXCEPT ![w] = [NoJob EXCEPT !.at = script[e], !.event = e, !.leased = TRUE,
                                     !.snap = View(IF Live(session) THEN session ELSE NoSession)]]
    /\ UNCHANGED <<script, session, deferred, reviews, shown, run, faults, left>>

At(w, step) == job[w].at = step
Go(w, step) == job' = [job EXCEPT ![w].at = step] /\ UNCHANGED queue

(* The worker reports its message, as settled or to be tried again; the    *)
(* queue heeds it while the worker holds the lease.                        *)
Report(w, status) ==
    /\ queue' = IF job[w].leased THEN [queue EXCEPT ![job[w].event] = status] ELSE queue
    /\ job' = [job EXCEPT ![w] = NoJob]

Settle(w) == Report(w, "done")

(* The lease ends while the worker goes on, or the worker dies. *)
LoseLease(w) ==
    /\ job[w].leased /\ Fault
    /\ queue' = [queue EXCEPT ![job[w].event] = "queued"]
    /\ job' = [job EXCEPT ![w].leased = FALSE]
    /\ UNCHANGED <<script, session, deferred, reviews, shown, run, left>>

Die(w) ==
    /\ job[w] # NoJob /\ ~job[w].leased
    /\ job' = [job EXCEPT ![w] = NoJob]
    /\ UNCHANGED <<script, queue, session, deferred, reviews, shown, run, faults, left>>

-----------------------------------------------------------------------------
(***************************************************************************)
(* A header message.                                                       *)
(***************************************************************************)
(* Headers differ, so one that is not the session's own rotates it, unless *)
(* it is closed; a header after a refused close rotates it as well.        *)
Rotates(s, e) == s.close = None /\ (s.refused \/ s.opener # e)

OpenFirst(w) ==
    LET e == job[w].event IN
    /\ At(w, "opener") /\ job[w].snap.gen = 0
    /\ IF OpenRefuses(e, 0)
       THEN Report(w, "queued") /\ UNCHANGED <<session, deferred, left>>
       ELSE Open(e) /\ Settle(w)
    /\ UNCHANGED <<script, reviews, shown, run, faults>>

OpenNext(w) ==
    LET e == job[w].event
        s == job[w].snap
    IN
    /\ At(w, "opener") /\ s.gen # 0
    /\ IF Rotates(s, e) /\ ~OpenRefuses(e, s.gen)
       THEN Open(e) ELSE UNCHANGED <<session, deferred, left>>
    /\ Settle(w)
    /\ UNCHANGED <<script, reviews, shown, run, faults>>

(***************************************************************************)
(* An item message: append_or_defer_pending_produce_item.                  *)
(***************************************************************************)
(* What becomes of an item the session has not taken in. *)
Deferral(s, e) ==
    IF Live(s) /\ e <= s.opener THEN [status |-> "before", gen |-> s.gen]
    ELSE IF Live(s) /\ s.close # None /\ e >= s.close THEN [status |-> "after", gen |-> s.gen]
    ELSE IF deferred[e].status = "none" THEN [status |-> "waiting", gen |-> 0]
    ELSE deferred[e]

AppendOrDefer(w) ==
    LET e == job[w].event IN
    /\ job[w].at \in {"item", "risky", "bad"}
    /\ IF Inside(session, e) /\ Accepts(session, e)
       THEN session' = Appended(session, {e}) /\ UNCHANGED deferred
       ELSE /\ deferred' = IF deferred[e].status \in {"none", "waiting", "expired"}
                           THEN [deferred EXCEPT ![e] = Deferral(session, e)] ELSE deferred
            /\ UNCHANGED session
    /\ Settle(w)
    /\ UNCHANGED <<script, reviews, shown, run, faults, left>>

(* expires_at of a waiting row has passed ... *)
Expire(e) ==
    /\ deferred[e].status = "waiting"
    /\ deferred' = [deferred EXCEPT ![e].status = "expired"]
    /\ UNCHANGED <<script, queue, job, session, reviews, shown, run, faults, left>>

(* ... and claim_expired_pending_produce_events resolves it. *)
Resolve(e) ==
    /\ deferred[e].status = "expired"
    /\ IF Inside(session, e) /\ Accepts(session, e)
       THEN /\ session' = Appended(session, {e})
            /\ deferred' = [deferred EXCEPT ![e] = [status |-> "admitted", gen |-> session.gen]]
       ELSE /\ deferred' = [deferred EXCEPT ![e] =
                  [status |-> IF session # NoSession /\ e <= session.opener THEN "before"
                              ELSE IF session.close # None /\ e >= session.close THEN "after"
                              ELSE "orphan",
                   gen |-> session.gen]]
            /\ UNCHANGED session
    /\ UNCHANGED <<script, queue, job, reviews, shown, run, faults, left>>

-----------------------------------------------------------------------------
(***************************************************************************)
(* Reviews of a document that needs one: recorded, shown, confirmed.       *)
(***************************************************************************)
Blocked(doc) == \E e \in doc : script[e] = "bad"
NeedsReview(doc) == \E e \in doc : script[e] = "risky"

Review(gen, doc) == {r \in reviews : r.gen = gen /\ r.doc = doc}
IsConfirmed(gen, doc) == \E r \in Review(gen, doc) : r.confirmed # None

(* The generation is the session's and has ended: its reviews are closed. *)
Shut(gen) == session.gen = gen /\ ~Live(session)

(* record_produce_validation_review: an existing row is left untouched. *)
Recorded(gen, doc, by) ==
    IF Shut(gen) \/ Review(gen, doc) # {} THEN reviews
    ELSE reviews \cup {[gen |-> gen, doc |-> doc, by |-> by, delivered |-> FALSE, confirmed |-> None]}

(* mark_produce_validation_reviews_presented: the first delivery counts. *)
Marked(gen, doc, by) ==
    IF Shut(gen) THEN reviews
    ELSE {IF r.gen = gen /\ r.doc = doc /\ ~r.delivered
          THEN [r EXCEPT !.delivered = TRUE, !.by = by] ELSE r : r \in reviews}

(* Mutant: a review that was recorded can be confirmed. *)
ConfirmableUnseen(gen, doc, e) == ~Shut(gen) /\ \E r \in Review(gen, doc) : r.by # e

(* confirm_produce_validation_review: it was delivered, by another message, *)
(* or is confirmed already.                                                *)
Confirmable(gen, doc, e) ==
    ~Shut(gen) /\ \E r \in Review(gen, doc) : r.confirmed # None \/ (r.delivered /\ r.by # e)

Confirmed(gen, doc, e) ==
    {IF r.gen = gen /\ r.doc = doc /\ r.confirmed = None
     THEN [r EXCEPT !.confirmed = e] ELSE r : r \in reviews}

Show(gen, doc, by) == shown' = shown \cup {[gen |-> gen, doc |-> doc, by |-> by]}

-----------------------------------------------------------------------------
(***************************************************************************)
(* A closing message: runPlainTextCloseGate, then the boundary.            *)
(***************************************************************************)
CloseNothing(w) ==
    /\ At(w, "close") /\ job[w].snap.gen = 0
    /\ Settle(w)
    /\ UNCHANGED <<script, session, deferred, reviews, shown, run, faults, left>>

(* The gate judges the document of the snapshot. *)
Gate(w) ==
    LET s   == job[w].snap
        doc == Document(s.rows)
        e   == job[w].event
        reviewed == ~Blocked(doc) /\ NeedsReview(doc) /\ ~IsConfirmed(s.gen, doc)
    IN
    /\ At(w, "close") /\ s.gen # 0
    /\ reviews' = IF reviewed THEN Recorded(s.gen, doc, e) ELSE reviews
    /\ UNCHANGED queue
    /\ job' = [job EXCEPT
          ![w].at = IF Blocked(doc) THEN "stage"
                    ELSE IF ~reviewed THEN "passed"
                    ELSE IF \E r \in reviews' : r.gen = s.gen /\ r.doc = doc /\ r.by = e
                         THEN "stage" ELSE "confirm",
          ![w].presents = reviewed]
    /\ UNCHANGED <<script, session, deferred, shown, run, faults, left>>

Confirm(w) ==
    LET s   == job[w].snap
        doc == Document(s.rows)
    IN
    /\ At(w, "confirm")
    /\ IF Confirmable(s.gen, doc, job[w].event)
       THEN reviews' = Confirmed(s.gen, doc, job[w].event) /\ Go(w, "passed")
       ELSE UNCHANGED reviews /\ Go(w, "stage")
    /\ UNCHANGED <<script, session, deferred, shown, run, faults, left>>

(* A call of the gate fails: the sender is told to close again. *)
GateFails(w) ==
    /\ job[w].at \in {"close", "confirm", "stage"} /\ job[w].snap.gen # 0
    /\ Fault
    /\ job' = [job EXCEPT ![w].at = "refused", ![w].presents = FALSE]
    /\ UNCHANGED <<script, queue, session, deferred, reviews, shown, run, left>>

(* savePartialCapture is pinned to the revision the gate read; if it is    *)
(* refused, so is the presentation.                                        *)
Stage(w) ==
    LET s == job[w].snap IN
    /\ At(w, "stage")
    /\ job' = [job EXCEPT ![w].at = "refused",
                          ![w].presents = @ /\ Live(session) /\ Same(session, s) /\ session.rows = s.rows]
    /\ UNCHANGED <<script, queue, session, deferred, reviews, shown, run, faults, left>>

(* touchControlActivity, and mark_plain_text_close_refused at best effort. *)
Refuse(w) ==
    /\ At(w, "refused")
    /\ IF Live(session) /\ Same(session, job[w].snap)
       THEN /\ Go(w, "reply")
            /\ \/ session' = [session EXCEPT !.refused = @ \/ session.close = None] /\ NoFault
               \/ session.close = None /\ UNCHANGED session /\ Fault
       ELSE Settle(w) /\ UNCHANGED session /\ NoFault
    /\ UNCHANGED <<script, deferred, reviews, shown, run, left>>

(* The refusal is replied; it is the review, if there is one to present. *)
Reply(w) ==
    LET s == job[w].snap IN
    /\ At(w, "reply")
    /\ IF job[w].presents
       THEN Show(s.gen, Document(s.rows), job[w].event) /\ Go(w, "mark")
       ELSE UNCHANGED shown /\ Settle(w)
    /\ UNCHANGED <<script, session, deferred, reviews, run, faults, left>>

ReplyFails(w) ==
    /\ At(w, "reply") /\ Fault
    /\ Settle(w)
    /\ UNCHANGED <<script, session, deferred, reviews, shown, run, left>>

(* Delivery is proved only after the reply; a failure is only logged. *)
MarkPresented(w) ==
    LET s == job[w].snap IN
    /\ At(w, "mark")
    /\ \/ reviews' = Marked(s.gen, Document(s.rows), job[w].event) /\ NoFault
       \/ UNCHANGED reviews /\ Fault
    /\ Settle(w)
    /\ UNCHANGED <<script, session, deferred, shown, run, left>>

(* The gate passed on a session already closed: resumeCloseFinalization,   *)
(* whose failure is only logged.                                           *)
Resume(w) ==
    LET s == job[w].snap IN
    /\ At(w, "passed") /\ s.close # None
    /\ \/ /\ session' = IF Live(session) /\ Same(session, s) /\ session.close # None
                        THEN [session EXCEPT !.attempt = "due"] ELSE session
          /\ NoFault
       \/ UNCHANGED session /\ Fault
    /\ Go(w, "append")
    /\ UNCHANGED <<script, deferred, reviews, shown, run, left>>

(* The gate passed, and what was closed before is resumed. *)
Appending(w) == At(w, "append") \/ (At(w, "passed") /\ job[w].snap.close = None)

(* Mutant: the close is not pinned to the revision the gate read. *)
PinnedLoosely(s) == Live(session) /\ Same(session, s) /\ session.close = None

(* The first close of the generation, on the very rows the gate validated. *)
Pinned(s) == Live(session) /\ Same(session, s) /\ session.close = None /\ session.rows = s.rows

(* append_pending_session with mark_close: a boundary, a status request,   *)
(* or a refusal the sender is told of.                                     *)
AppendClose(w) ==
    LET e == job[w].event IN
    /\ Appending(w)
    /\ session' = IF Pinned(job[w].snap)
                  THEN [session EXCEPT !.rows = @ \cup {e}, !.close = e, !.attempt = "set",
                            !.announced = Announced[e]]
                  ELSE session
    /\ Settle(w)
    /\ UNCHANGED <<script, deferred, reviews, shown, run, faults, left>>

(* A call that is not answered leaves the message to be tried again. *)
CallFails(w) ==
    /\ job[w].at \in {"opener", "item", "risky", "bad", "refused"} \/ Appending(w)
    /\ Fault
    /\ Report(w, IF At(w, "opener") /\ job[w].snap.gen # 0 THEN "done" ELSE "queued")
    /\ UNCHANGED <<script, session, deferred, reviews, shown, run, left>>

-----------------------------------------------------------------------------
(***************************************************************************)
(* The finalizer of the cron: finalizePendingGeneration.                   *)
(***************************************************************************)
(* next_attempt_at, and close_deadline_at, pass. *)
AttemptDue ==
    /\ Live(session) /\ session.attempt = "set"
    /\ session' = [session EXCEPT !.attempt = "due"]
    /\ UNCHANGED <<script, queue, job, deferred, reviews, shown, run, faults, left>>

DeadlinePasses ==
    /\ Live(session) /\ session.close # None /\ ~session.late
    /\ session' = [session EXCEPT !.late = TRUE]
    /\ UNCHANGED <<script, queue, job, deferred, reviews, shown, run, faults, left>>

Rest == <<script, queue, job, deferred>>
Stop == run' = NoRun

Fetch ==
    /\ run = NoRun
    /\ Live(session) /\ session.attempt = "due"
    /\ run' = [NoRun EXCEPT !.at = "fetched", !.snap = View(session)]
    /\ UNCHANGED <<Rest, session, reviews, shown, faults, left>>

(* Mutant: the revision is not compared. *)
FreshLoosely(s) == Live(session) /\ Same(session, s)

(* Pinned to the snapshot's generation and revision. *)
Fresh(s) == Live(session) /\ Same(session, s) /\ session.rows = s.rows

(* loadIngestRows: the generation's rows up to the boundary. *)
Loaded(s) == {e \in Document(session.rows) : e <= s.close}

(* Load the rows, judge the document; a review it needs is recorded first. *)
(* A gate or a record that fails is an error of the document.              *)
Validate ==
    LET s   == run.snap
        doc == Loaded(s)
        held == s.close > s.opener /\ ~Blocked(doc) /\ NeedsReview(doc) /\ ~IsConfirmed(s.gen, doc)
    IN
    /\ run.at = "fetched" /\ Same(session, s)
    /\ \E failed \in BOOLEAN :
        /\ IF failed THEN Fault ELSE NoFault
        /\ run' = [run EXCEPT !.at = IF held /\ ~failed THEN "hold" ELSE "save", !.doc = doc,
                              !.errors = failed \/ held \/ Blocked(doc) \/ s.close <= s.opener]
        /\ reviews' = IF held /\ ~failed THEN Recorded(s.gen, doc, Token) ELSE reviews
    /\ UNCHANGED <<Rest, session, shown, left>>

(* The generation was rotated away: everything it could write is refused. *)
Overtaken ==
    /\ run.at = "fetched" /\ ~Same(session, run.snap)
    /\ Stop
    /\ UNCHANGED <<Rest, session, reviews, shown, faults, left>>

(* A transient read error: deferTransientFinalizationRetry. *)
Defer ==
    /\ run.at = "fetched" /\ Fault
    /\ session' = IF Fresh(run.snap) THEN [session EXCEPT !.attempt = "set"] ELSE session
    /\ Stop
    /\ UNCHANGED <<Rest, reviews, shown, left>>

(* hold_pending_validation_review; refused, the run falls through with the *)
(* error that the review was never confirmed.                              *)
Hold ==
    /\ run.at = "hold"
    /\ IF Fresh(run.snap) /\ session.close # None
       THEN session' = [session EXCEPT !.attempt = "none"] /\ run' = [run EXCEPT !.at = "push"]
       ELSE UNCHANGED session /\ run' = [run EXCEPT !.at = "save"]
    /\ UNCHANGED <<Rest, reviews, shown, faults, left>>

PushReview ==
    /\ run.at = "push"
    /\ Show(run.snap.gen, run.doc, Token)
    /\ run' = [run EXCEPT !.at = "mark"]
    /\ UNCHANGED <<Rest, session, reviews, faults, left>>

MarkPushed ==
    /\ run.at = "mark"
    /\ reviews' = Marked(run.snap.gen, run.doc, Token)
    /\ Stop
    /\ UNCHANGED <<Rest, session, shown, faults, left>>

(* The run is cut, or a call of it fails: nothing more is written. *)
Cut ==
    /\ run # NoRun /\ Fault
    /\ Stop
    /\ UNCHANGED <<Rest, session, reviews, shown, left>>

(* Mutant: no trigger looks at the waiting rows. *)
UnguardedBy(s) == {}

(* guard_pending_produce_deferred_finalization *)
GuardedBy(s) ==
    {e \in Messages : deferred[e].status \in {"waiting", "expired"} /\ s.opener < e /\ e < s.close}

(* What try_finalize_pending_generation asks before it goes on. *)
Current(s) == Live(session) /\ Same(session, s) /\ session.rows = s.rows

Quiet == session.attempt = "set" /\ ~session.late

Missing == Cardinality(run.doc) < session.announced

(* Mutant: missing items are waited for however long. *)
WaitsForEver == Missing

(* Missing items are waited for until the deadline of the close. *)
Waits == Missing /\ ~session.late

(* try_finalize_pending_generation: it goes on only with the rows it       *)
(* validated and nothing waiting between the boundaries; then items        *)
(* announced and missing are waited for, errors and an empty list end the  *)
(* session, and a new list is saved.                                       *)
Save ==
    LET go == Current(run.snap) /\ ~Quiet /\ GuardedBy(session) = {} IN
    /\ run.at = "save"
    /\ \/ ~go /\ UNCHANGED session
       \/ go /\ Waits /\ session' = [session EXCEPT !.attempt = "set"]
       \/ go /\ ~Waits /\ (Missing \/ run.errors \/ run.doc = {}) /\ session' = Ended(session, "failed", {})
       \/ go /\ ~Missing /\ ~run.errors /\ run.doc # {} /\ session' = Ended(session, "finalized", run.doc)
    /\ Stop
    /\ UNCHANGED <<Rest, reviews, shown, faults, left>>

(* The list is another one's duplicate. *)
Duplicate ==
    /\ run.at = "save" /\ ~run.errors /\ run.doc # {} /\ ~Missing
    /\ Current(run.snap) /\ ~Quiet /\ GuardedBy(session) = {}
    /\ session' = Ended(session, "failed", {})
    /\ Stop
    /\ UNCHANGED <<Rest, reviews, shown, faults, left>>

(* The sweeps end a session left open: sweep_pending_session_inactivity_   *)
(* expiry, or recover_stranded_plain_text_closes after a refused close; no *)
(* worker lives as long as their half an hour.                             *)
Sweep ==
    /\ Live(session) /\ session.close = None
    /\ run = NoRun /\ \A w \in Workers : job[w] = NoJob
    /\ session' = Ended(session, "failed", {})
    /\ UNCHANGED <<Rest, reviews, shown, run, faults, left>>

-----------------------------------------------------------------------------
Init ==
    /\ script \in Scripts
    /\ queue = [e \in Messages |-> "unsent"]
    /\ job = [w \in Workers |-> NoJob]
    /\ session = NoSession
    /\ deferred = [e \in Messages |-> NotDeferred]
    /\ reviews = {} /\ shown = {} /\ left = {}
    /\ run = NoRun /\ faults = 0

Work(w) ==
    \/ OpenFirst(w) \/ OpenNext(w) \/ AppendOrDefer(w) \/ CloseNothing(w) \/ Gate(w) \/ Confirm(w)
    \/ Stage(w) \/ Refuse(w) \/ Reply(w) \/ MarkPresented(w) \/ Resume(w)
    \/ AppendClose(w)

Queueing ==
    \E w \in Workers :
        \/ Work(w) \/ GateFails(w) \/ ReplyFails(w) \/ CallFails(w) \/ LoseLease(w) \/ Die(w)
        \/ \E e \in Messages : Take(w, e)

Finalize ==
    Validate \/ Overtaken \/ Hold \/ PushReview \/ MarkPushed \/ Save \/ Duplicate

Arriving == \E e \in Messages : Deliver(e)
Waiting == \E e \in Messages : Expire(e) \/ Resolve(e)

Next ==
    \/ Arriving \/ Queueing \/ Waiting
    \/ Fetch \/ Finalize \/ Defer \/ Cut \/ AttemptDue \/ DeadlinePasses \/ Sweep

Spec == Init /\ [][Next]_vars

(* The queue hands out what it has and its workers go on, time passes, and *)
(* the cron comes back; nothing makes the sender type or a sweep run.      *)
Fairness ==
    /\ \A w \in Workers :
          WF_vars(job[w].at # "idle" /\ Work(w)) /\ WF_vars(\E e \in Messages : Take(w, e))
    /\ WF_vars(Waiting)
    /\ WF_vars(AttemptDue) /\ WF_vars(DeadlinePasses) /\ WF_vars(Fetch) /\ WF_vars(Finalize)

FairSpec == Spec /\ Fairness

-----------------------------------------------------------------------------
Steps == {"idle", "opener", "item", "risky", "bad", "close", "confirm", "stage", "refused", "reply",
          "mark", "passed", "append"}
SessionType ==
    [gen : Nat, opener : 0..N, rows : SUBSET Messages, close : 0..N, announced : Nat,
     attempt : {"none", "set", "due"}, late : BOOLEAN, refused : BOOLEAN,
     outcome : {"none", "live", "finalized", "failed"}, saved : SUBSET Messages]
ViewType == [gen : Nat, opener : 0..N, rows : SUBSET Messages, close : 0..N, refused : BOOLEAN]
ReviewType == [gen : Nat, doc : SUBSET Messages, by : 0..N, delivered : BOOLEAN, confirmed : 0..N]

(* Every variable has its type; only a closed, live session has a time for *)
(* its next attempt.                                                       *)
TypeOK ==
    /\ script \in Scripts
    /\ queue \in [Messages -> {"unsent", "queued", "taken", "done"}]
    /\ job \in [Workers -> [at : Steps, event : 0..N, leased : BOOLEAN, snap : ViewType,
                            presents : BOOLEAN]]
    /\ session \in SessionType
    /\ session.attempt # "none" => Live(session) /\ session.close # None
    /\ deferred \in [Messages -> [status : {"none", "waiting", "expired", "admitted", "before",
                                            "after", "orphan"}, gen : Nat]]
    /\ reviews \subseteq ReviewType
    /\ shown \subseteq [gen : Nat, doc : SUBSET Messages, by : 0..N]
    /\ run \in [at : {"idle", "fetched", "hold", "push", "mark", "save"}, snap : ViewType,
                doc : SUBSET Messages, errors : BOOLEAN]
    /\ left \subseteq Messages /\ faults \in 0..MaxFaults

(* The items taken in up to the closing message. *)
TheList == {e \in Document(session.rows) : e <= session.close}

(* What was saved is the whole list: every item taken in up to the closing *)
(* message and no other, at least as many as it announced, however many    *)
(* items came late while the finalizer worked on its snapshot.             *)
SavedIsWhole ==
    session.outcome = "finalized" =>
        /\ session.saved = TheList
        /\ Cardinality(session.saved) >= session.announced

(* A list with items that need a review is saved only after the operator   *)
(* was shown exactly this list, and confirmed it by a closing message      *)
(* other than the one that showed it.                                      *)
ReviewedBeforeSaved ==
    session.outcome = "finalized" /\ NeedsReview(session.saved) =>
        \E r \in Review(session.gen, session.saved) :
            /\ r.confirmed # None
            /\ \E d \in shown : d.gen = r.gen /\ d.doc = r.doc /\ d.by # r.confirmed

(* An item whose message was settled is not forgotten: the session has it, *)
(* or a deferred row accounts for it, or it was taken into a list the      *)
(* sender left for a header typed after it.                                *)
NoItemForgotten ==
    \A e \in Items :
        queue[e] = "done" =>
            e \in session.rows \/ deferred[e].status # "none" \/ e \in left

(* When a list is saved, every item that was settled by then and was typed *)
(* between its header and its closing message is in it, unless it was      *)
(* resolved before, for an earlier list or past the deadline, or went into *)
(* a list left for a later header before this list's own header arrived.   *)
NothingWaitingBehind ==
    [][Live(session) /\ session'.outcome = "finalized" =>
         \A e \in Items :
             queue[e] = "done" /\ session.opener < e /\ e < session.close =>
                 \/ e \in session'.saved \/ e \in left
                 \/ deferred[e].status = "orphan"
                 \/ deferred[e].status \in {"before", "after"} /\ deferred[e].gen # session.gen
      ]_vars

Closed == Live(session) /\ session.close # None

(* No attempt is due, and there is a review of the list to be answered. *)
Held == session.attempt = "none" /\ Review(session.gen, TheList) # {}

(* A closed list has no attempt to come only while there is a review of    *)
(* exactly what it is by now: a hold never parks a list that has grown     *)
(* since the finalizer looked, and an item that comes in wakes it up.      *)
ParkedForReview == Closed /\ session.attempt = "none" => Held

(* A closed list does not stay open for ever: it is saved, or ended, or    *)
(* left for a new header, which is not closed, or it waits for a review to *)
(* be confirmed.                                                           *)
ClosedEnds == Closed ~> ~Closed \/ Held

(* Expected to fail.  src/src/lib/line/webhook-service.ts says of a closed *)
(* session whose review was confirmed that "A failed resume costs a delay, *)
(* not the confirmation": it still ends, unless its list has changed.      *)
ConfirmedEnds ==
    \A g \in 1..N :
        session.gen = g /\ session.close # None /\ IsConfirmed(g, TheList) ~>
            session.gen # g \/ ~Live(session) \/ ~IsConfirmed(g, TheList)

-----------------------------------------------------------------------------
(***************************************************************************)
(* The capture implements ListKeeping: a list is what the session's row    *)
(* and ledger say of the generation.                                       *)
(***************************************************************************)
StageOf(s) ==
    CASE s.outcome = "none" -> "none"
      [] s.outcome = "live" -> IF s.close = None THEN "open" ELSE "closed"
      [] s.outcome = "finalized" -> "saved"
      [] s.outcome = "failed" -> "ended"

Agreed == {[gen |-> r.gen, doc |-> r.doc, by |-> r.confirmed] : r \in {q \in reviews : q.confirmed # None}}

Keeping == INSTANCE ListKeeping
    WITH number <- session.gen, stage <- StageOf(session), head <- session.opener,
         taken <- Document(session.rows), cut <- session.close, due <- session.announced,
         saved <- session.saved, seen <- shown, agreed <- Agreed

(* Every step of the workers, the gate, the sweeps and the finalizer is a  *)
(* step of the list they keep, or none: whatever arrives out of order, a   *)
(* list is closed on what could be saved, takes no later item after that,  *)
(* is saved whole as it was agreed to, and a header takes the items behind *)
(* it along.                                                               *)
Refines == Keeping!Spec
=============================================================================
