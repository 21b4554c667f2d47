------------------------------ MODULE SlipIngest ------------------------------
(***************************************************************************)
(* The slip image ledger and the slip batches of one LINE source: how an   *)
(* image is attributed to a session by its LINE time when it is received,  *)
(* how attempts to store it are leased, fenced and retried, and how a      *)
(* closed batch is claimed for its summary.                                *)
(*                                                                         *)
(* Commands and images come through the ordered queue, used here as        *)
(* OrderedDelivery describes it.  A transaction is one step, except the    *)
(* receipt of an image: its session is looked up when its trigger runs and *)
(* its row is seen when the receipt commits, and sessions may open, close  *)
(* or be claimed in between.                                               *)
(*                                                                         *)
(* Leases, backoffs and waits are not measured: a lease or a backoff ends  *)
(* some time after it began, and a wait may be over at any time.           *)
(***************************************************************************)
EXTENDS Naturals, FiniteSets

CONSTANTS
    Images,         \* image messages
    Opens,          \* commands that open a slip session
    Closes,         \* commands that close it
    Cancels,        \* commands that cancel it
    Stamp,          \* LINE timestamp of each of these events
    Receipts,       \* the sets of events received in one transaction
    MaxAttempts,    \* SLIP_IMAGE_MAX_ATTEMPTS
    MaxBatches,     \* bound on the batches created
    Depth,          \* how many sessions an image is looked up in (LIMIT 5)
    None            \* no command

Events == Images \cup Opens \cup Closes \cup Cancels
Commands == Opens \cup Closes \cup Cancels

ASSUME StampAssumption == Stamp \in [Events -> Nat]
ASSUME ReceiptAssumption == Receipts \subseteq SUBSET Events
ASSUME KindAssumption ==
    /\ Images \cap Commands = {} /\ Opens \cap (Closes \cup Cancels) = {}
    /\ Closes \cap Cancels = {} /\ None \notin Events
ASSUME BoundAssumption ==
    MaxAttempts \in Nat \ {0} /\ MaxBatches \in Nat \ {0} /\ Depth \in Nat \ {0}

(* Batches are numbered in the order of created_at; 0 is a NULL batch_id.  *)
Batches == 1..MaxBatches
NoBatch == 0
Attempts == 1..MaxAttempts

VARIABLES
    queue,      \* phase of each event in the ordered queue
    work,       \* where the live worker of an event is, "off" without one
    target,     \* the batch a close command has read as the active one
    status,     \* slip_batches.status, "none" before the row exists
    opener,     \* the command whose LINE time is open_event_ts_ms
    closer,     \* the command whose LINE time is close_event_ts_ms, or None
    verdict,    \* the session looked up for an image not yet received
    ledger,     \* slip_image_events
    try,        \* what became of each attempt, by image and fencing token
    elsewhere,  \* images whose raw message another flow marked processed
    counted,    \* the accounting the finalizer of a batch last read
    claimed     \* history: the images in the ledger when the batch was claimed

sessions == <<status, opener, closer, counted, claimed>>
rows == <<verdict, ledger, try, elsewhere>>
workers == <<queue, work, target>>
vars == <<workers, sessions, rows>>

OpenStates == {"collecting", "closing"}
InFlightStates == {"received", "ingesting", "retry_pending"}

Created == {b \in Batches : status[b] # "none"}
Active == {b \in Batches : status[b] \in OpenStates}

(* The youngest of a set of batches. *)
Newest(B) == CHOOSE b \in B : \A c \in B : c <= b

Row(state, b, n, due) == [state |-> state, batch |-> b, attempts |-> n, due |-> due]
NoRow == Row("none", NoBatch, 0, FALSE)

-----------------------------------------------------------------------------
(***************************************************************************)
(* Attribution by LINE time.                                               *)
(***************************************************************************)
AfterClose(b, t) == closer[b] # None /\ t > Stamp[closer[b]]

(* The LINE time t lies between the open and the close of b. *)
Covers(b, t) == Stamp[opener[b]] <= t /\ ~AfterClose(b, t)

Recent == {b \in Created : Cardinality({c \in Created : c > b}) < Depth}

(* A covering session takes the image while it is open, and reports it as  *)
(* late once it was closed and finalized; an abandoned one passes it on.   *)
Takers(t) == {b \in Recent : Covers(b, t) /\ (status[b] \in OpenStates \/ closer[b] # None)}
Closing(t) == {b \in Created : status[b] = "closing" /\ AfterClose(b, t)}

(* resolve_slip_image_batch *)
Resolve(i) ==
    LET t == Stamp[i]
        b == Newest(Takers(t))
    IN  IF Takers(t) # {}
        THEN Row(IF status[b] \in OpenStates THEN "received" ELSE "late_after_finalize",
                 b, 0, FALSE)
        ELSE IF Closing(t) # {}
             THEN Row("excluded_after_close", Newest(Closing(t)), 0, FALSE)
             ELSE Row("unbound", NoBatch, 0, FALSE)

-----------------------------------------------------------------------------
(***************************************************************************)
(* The ordered queue.                                                      *)
(***************************************************************************)
Unsettled == {e \in Events : queue[e] \in {"waiting", "taken"}}

(* The capture trigger runs inside the receipt, and again if the receipt   *)
(* is rolled back and LINE redelivers it.                                  *)
Capture(i) ==
    /\ queue[i] = "unseen"
    /\ verdict' = [verdict EXCEPT ![i] = Resolve(i)]
    /\ UNCHANGED <<workers, sessions, ledger, try, elsewhere>>

(* The receipt commits: queue rows and ledger rows appear together. *)
Receive(R) ==
    /\ \A e \in R : queue[e] = "unseen"
    /\ \A i \in R \cap Images : verdict[i] # NoRow
    /\ queue' = [e \in Events |-> IF e \in R THEN "waiting" ELSE queue[e]]
    /\ ledger' = [i \in Images |-> IF i \in R THEN verdict[i] ELSE ledger[i]]
    /\ verdict' = [i \in Images |-> IF i \in R THEN NoRow ELSE verdict[i]]
    /\ UNCHANGED <<work, target, sessions, try, elsewhere>>

(* An event is handed out when no earlier one is unsettled, and again when *)
(* its worker died (WebhookQueue!WorkIsExclusive: never beside a live one).*)
Take(e) ==
    /\ queue[e] \in {"waiting", "taken"}
    /\ work[e] = "off"
    /\ \A f \in Unsettled : Stamp[f] >= Stamp[e]
    /\ queue' = [queue EXCEPT ![e] = "taken"]
    /\ work' = [work EXCEPT ![e] = "on"]
    /\ UNCHANGED <<target, sessions, rows>>

(* An attempt goes on without the worker that started it. *)
Orphaned(e) ==
    IF e \in Images
    THEN [try EXCEPT ![e] = [n \in Attempts |-> IF try[e][n] = "queue" THEN "loose"
                                                                       ELSE try[e][n]]]
    ELSE try

(* The worker dies, or gives the event back after an error. *)
Leave(e) ==
    /\ work[e] # "off"
    /\ work' = [work EXCEPT ![e] = "off"]
    /\ queue' \in {queue, [queue EXCEPT ![e] = "waiting"]}
    /\ try' = Orphaned(e)
    /\ UNCHANGED <<target, sessions, verdict, ledger, elsewhere>>

Finish(e) ==
    /\ work[e] \in {"aside", "done"}
    /\ queue' = [queue EXCEPT ![e] = "done"]
    /\ work' = [work EXCEPT ![e] = "off"]
    /\ UNCHANGED <<target, sessions, rows>>

(* Quarantined as stale: never handed out again. *)
Expire(e) ==
    /\ e \in Unsettled
    /\ work[e] = "off"
    /\ queue' = [queue EXCEPT ![e] = "dropped"]
    /\ UNCHANGED <<work, target, sessions, rows>>

-----------------------------------------------------------------------------
(***************************************************************************)
(* Session commands.                                                       *)
(***************************************************************************)
Done(e) == work' = [work EXCEPT ![e] = "done"]

(* Mutants: images already resolved as no_session are not adopted; or the  *)
(* adopted ones keep their state.                                          *)
AdoptedUnboundOnly(e, b) ==
    [i \in Images |->
        IF ledger[i].state = "unbound" /\ Stamp[i] >= Stamp[e]
        THEN Row("received", b, 0, FALSE) ELSE ledger[i]]

AdoptedAsIs(e, b) ==
    [i \in Images |->
        IF ledger[i].state \in {"unbound", "no_session"} /\ Stamp[i] >= Stamp[e]
        THEN Row(ledger[i].state, b, 0, FALSE) ELSE ledger[i]]

(* bind_unbound_slip_image_events, in the transaction of the insert. *)
Adopted(e, b) ==
    [i \in Images |->
        IF ledger[i].state \in {"unbound", "no_session"} /\ Stamp[i] >= Stamp[e]
        THEN Row("received", b, 0, FALSE) ELSE ledger[i]]

(* The insert; the partial unique index allows one collecting batch. *)
OpenSession(e, b) ==
    /\ work[e] = "on"
    /\ \A c \in Batches : status[c] # "collecting"
    /\ status[b] = "none" /\ \A c \in Batches : c < b => status[c] # "none"
    /\ status' = [status EXCEPT ![b] = "collecting"]
    /\ opener' = [opener EXCEPT ![b] = e]
    /\ ledger' = Adopted(e, b)
    /\ Done(e)
    /\ UNCHANGED <<queue, target, closer, counted, claimed, verdict, try, elsewhere>>

(* Already open, or refused by the guided round's guard. *)
OpenRefused(e) ==
    /\ work[e] = "on"
    /\ Done(e)
    /\ UNCHANGED <<queue, target, sessions, rows>>

(* findActiveSession *)
FindActive(e) ==
    /\ work[e] = "on"
    /\ IF Active = {}
       THEN Done(e) /\ UNCHANGED target
       ELSE /\ work' = [work EXCEPT ![e] = "closes"]
            /\ target' = [target EXCEPT ![e] = Newest(Active)]
    /\ UNCHANGED <<queue, sessions, rows>>

(* Mutant: the update of the close matches on the id alone. *)
CloseBatchById(e) ==
    /\ work[e] = "closes"
    /\ status' = [status EXCEPT ![target[e]] = "closing"]
    /\ closer' = [closer EXCEPT ![target[e]] = e]
    /\ Done(e)
    /\ UNCHANGED <<queue, target, opener, counted, claimed, rows>>

(* The update of the batch that was read, if it is still collecting. *)
CloseBatch(e) ==
    /\ work[e] = "closes"
    /\ LET b == target[e]
       IN  IF status[b] = "collecting"
           THEN /\ status' = [status EXCEPT ![b] = "closing"]
                /\ closer' = [closer EXCEPT ![b] = e]
           ELSE UNCHANGED <<status, closer>>
    /\ Done(e)
    /\ UNCHANGED <<queue, target, opener, counted, claimed, rows>>

(* cancel_collecting_slip_batch, sent by the owner of the batch or not. *)
Cancel(e, owner) ==
    /\ work[e] = "on"
    /\ LET b == Newest(Active)
       IN  IF Active # {} /\ owner /\ status[b] = "collecting"
           THEN /\ status' = [status EXCEPT ![b] = "cancelled"]
                /\ closer' = [closer EXCEPT ![b] = e]
           ELSE UNCHANGED <<status, closer>>
    /\ Done(e)
    /\ UNCHANGED <<queue, target, opener, counted, claimed, rows>>

-----------------------------------------------------------------------------
(***************************************************************************)
(* Attempts to store an image.                                             *)
(***************************************************************************)
(* begin binds a row that has no session yet. *)
Bound(i) ==
    IF ledger[i].state # "unbound" THEN ledger[i]
    ELSE IF Resolve(i).batch = NoBatch THEN Row("no_session", NoBatch, 0, FALSE)
    ELSE Resolve(i)

(* Neither resolved, nor leased, nor before its retry is due. *)
Startable(r) ==
    r.state = "received" \/ (r.state \in {"ingesting", "retry_pending"} /\ r.due)

BeginOutcome(i, r) ==
    IF ~Startable(r) THEN "refused"
    ELSE IF r.state = "received" /\ i \in elsewhere THEN "excluded_not_slip"
    ELSE IF status[r.batch] \notin OpenStates THEN "late_after_finalize"
    ELSE IF r.attempts >= MaxAttempts THEN "failed_permanent"
    ELSE "ingesting"

Begun(r, o) ==
    IF o = "refused" THEN r
    ELSE Row(o, r.batch, IF o = "ingesting" THEN r.attempts + 1 ELSE r.attempts, FALSE)

(* begin_slip_image_attempt, called by the queue worker or by a sweep. *)
Begin(i, caller) ==
    LET r == Bound(i)
        o == BeginOutcome(i, r)
    IN  /\ ledger' = [ledger EXCEPT ![i] = Begun(r, o)]
        /\ try' = IF o = "ingesting" THEN [try EXCEPT ![i][r.attempts + 1] = caller] ELSE try
        /\ UNCHANGED <<verdict, elsewhere>>

Claims(i) == BeginOutcome(i, Bound(i)) = "ingesting"

(* processImageMessage *)
ProcessImage(i) ==
    /\ work[i] = "on"
    /\ Begin(i, "queue")
    /\ work' = [work EXCEPT ![i] = IF Claims(i) THEN "waits"
                                   ELSE IF Bound(i).state = "no_session" THEN "aside"
                                   ELSE "done"]
    /\ UNCHANGED <<queue, target, sessions>>

(* begin skips a row that another transaction holds, and the event is      *)
(* acknowledged all the same.                                              *)
RowLocked(i) ==
    /\ work[i] = "on"
    /\ ledger[i].state \in InFlightStates
    /\ Done(i)
    /\ UNCHANGED <<queue, target, sessions, rows>>

(* The white sheet reader takes the image before the ledger is asked, the  *)
(* settlement draft after it said no_session; both mark it processed.      *)
ConsumeElsewhere(i) ==
    /\ work[i] \in {"on", "aside"}
    /\ elsewhere' = elsewhere \cup {i}
    /\ Done(i)
    /\ UNCHANGED <<queue, target, sessions, verdict, ledger, try>>

(* Mutant: an attempt whose lease ended is never listed. *)
DueRetriesOnly(i) ==
    \/ ledger[i].state = "retry_pending" /\ ledger[i].due
    \/ ledger[i].state = "received" /\ queue[i] = "done"

(* list_due_slip_image_events, and the retry inside the request. *)
Due(i) ==
    \/ ledger[i].state \in {"ingesting", "retry_pending"} /\ ledger[i].due
    \/ ledger[i].state = "received" /\ queue[i] = "done"

Redrive(i) ==
    /\ Due(i)
    /\ Begin(i, "loose")
    /\ UNCHANGED <<workers, sessions>>

Running(i, n) == try[i][n] \in {"queue", "loose"}

(* The attempt n is over; its caller, if it waits for it, goes on. *)
Over(i, n) ==
    /\ try' = [try EXCEPT ![i][n] = "over"]
    /\ work' = IF try[i][n] = "queue" THEN [work EXCEPT ![i] = "done"] ELSE work
    /\ UNCHANGED <<queue, target, sessions, verdict, elsewhere>>

(* Mutants: the attempt is not fenced; or the batch's status is not asked. *)
AttachedRowUnfenced(i, n) ==
    LET r == ledger[i]
    IN  IF \/ r.state \in {"attached", "excluded_after_close", "excluded_not_slip",
                           "late_after_finalize"}
           \/ status[r.batch] \notin OpenStates
        THEN r ELSE Row("attached", r.batch, r.attempts, FALSE)
AttachedRowAnyBatch(i, n) ==
    IF ledger[i].state \in InFlightStates /\ ledger[i].attempts = n
    THEN Row("attached", ledger[i].batch, n, FALSE) ELSE ledger[i]

(* attach_slip_image_event, under the locks of the batch and of the row. *)
AttachedRow(i, n) ==
    LET r == ledger[i]
        to(s) == Row(s, r.batch, n, FALSE)
    IN  IF \/ r.state \in {"attached", "excluded_after_close", "excluded_not_slip",
                           "late_after_finalize"}
           \/ r.attempts # n
        THEN r
        ELSE IF status[r.batch] \notin OpenStates THEN to("late_after_finalize")
        ELSE IF AfterClose(r.batch, Stamp[i]) THEN to("excluded_after_close")
        ELSE to("attached")

Attach(i, n) ==
    /\ Running(i, n)
    /\ ledger' = [ledger EXCEPT ![i] = AttachedRow(i, n)]
    /\ Over(i, n)

(* fail_slip_image_event *)
FailedRow(i, n) ==
    LET r == ledger[i]
    IN  IF r.state \notin InFlightStates \/ r.attempts # n THEN r
        ELSE Row(IF n >= MaxAttempts THEN "failed_permanent" ELSE "retry_pending",
                 r.batch, n, FALSE)

Fail(i, n) ==
    /\ Running(i, n)
    /\ ledger' = [ledger EXCEPT ![i] = FailedRow(i, n)]
    /\ Over(i, n)

(* The lease of an attempt, or the backoff before the next, ends. *)
Elapse(i) ==
    /\ ledger[i].state \in {"ingesting", "retry_pending"}
    /\ ~ledger[i].due
    /\ ledger' = [ledger EXCEPT ![i].due = TRUE]
    /\ UNCHANGED <<workers, sessions, verdict, try, elsewhere>>

-----------------------------------------------------------------------------
(***************************************************************************)
(* The finalizer of a batch.                                               *)
(***************************************************************************)
(* Mutant: the claim adopts nothing. *)
ReconciledAsIs(b) == ledger

(* What claim_closing_slip_batch makes of the ledger before it decides. *)
Reconciled(b) ==
    LET adopts(i) == ledger[i].state \in {"unbound", "no_session"} /\ Covers(b, Stamp[i])
        owns(i) == ledger[i].batch = b /\ ledger[i].state \in InFlightStates
        to(s, i) == Row(s, b, ledger[i].attempts, FALSE)
    IN  [i \in Images |->
            IF owns(i) /\ AfterClose(b, Stamp[i]) THEN to("excluded_after_close", i)
            ELSE IF i \in elsewhere /\ (adopts(i) \/ (owns(i) /\ ledger[i].state = "received"))
                 THEN to("excluded_not_slip", i)
            ELSE IF adopts(i) THEN to("received", i)
            ELSE ledger[i]]

(* Rows of b that may still be attached. *)
InFlight(b, led) ==
    {i \in Images : /\ led[i].batch = b
                    /\ led[i].state \in InFlightStates
                    /\ ~(led[i].state = "received" /\ queue[i] = "dropped")}

(* Mutant: the wait for images has no bound. *)
ClaimClosingUnbounded(b, waited, ready) ==
    LET led == Reconciled(b)
    IN  /\ status[b] = "closing"
        /\ ledger' = led
        /\ IF ready /\ InFlight(b, led) = {}
           THEN /\ status' = [status EXCEPT ![b] = "processing"]
                /\ claimed' = [claimed EXCEPT ![b] = {i \in Images : led[i] # NoRow}]
           ELSE UNCHANGED <<status, claimed>>
        /\ UNCHANGED <<workers, opener, closer, counted, verdict, try, elsewhere>>

(* claim_closing_slip_batch.  waited: the bounded wait for images is over; *)
(* ready: the quiet period and the wait for OCR are.                       *)
ClaimClosing(b, waited, ready) ==
    LET led == Reconciled(b)
    IN  /\ status[b] = "closing"
        /\ ledger' = led
        /\ IF ready /\ (InFlight(b, led) = {} \/ waited)
           THEN /\ status' = [status EXCEPT ![b] = "processing"]
                /\ claimed' = [claimed EXCEPT ![b] = {i \in Images : led[i] # NoRow}]
           ELSE UNCHANGED <<status, claimed>>
        /\ UNCHANGED <<workers, opener, closer, counted, verdict, try, elsewhere>>

(* finalizeDueSlipBatches.  An hour without an image: what was received    *)
(* before the session began has left the queue by then.                    *)
Abandon(b) ==
    /\ status[b] = "collecting"
    /\ queue[opener[b]] \in {"done", "dropped"}
    /\ status' = [status EXCEPT ![b] = "processing"]
    /\ claimed' = [claimed EXCEPT ![b] = {i \in Images : ledger[i] # NoRow}]
    /\ UNCHANGED <<workers, opener, closer, counted, rows>>

Attached(b) == {i \in Images : ledger[i].batch = b /\ ledger[i].state = "attached"}

(* slip_batch_image_accounting: waiting, queue_dead, failed and late. *)
Incomplete(b) ==
    {i \in Images : /\ ledger[i].batch = b
                    /\ ledger[i].state \in
                          InFlightStates \cup {"failed_permanent", "late_after_finalize"}}

Account(b) ==
    /\ status[b] = "processing"
    /\ counted' = [counted EXCEPT ![b] = IF Incomplete(b) = {} THEN "whole" ELSE "short"]
    /\ UNCHANGED <<workers, status, opener, closer, claimed, rows>>

(* The final update of finalizeSlipBatch; verified: what OCR found. *)
FinalStatus(b, verified) ==
    IF Attached(b) = {} \/ verified = "none" THEN "failed"
    ELSE IF verified = "some" \/ counted[b] = "short" THEN "review_needed"
    ELSE "completed"

Finalize(b, verified) ==
    /\ status[b] = "processing"
    /\ counted[b] # "no"
    /\ status' = [status EXCEPT ![b] = FinalStatus(b, verified)]
    /\ UNCHANGED <<workers, opener, closer, counted, claimed, rows>>

-----------------------------------------------------------------------------
Init ==
    /\ queue = [e \in Events |-> "unseen"]
    /\ work = [e \in Events |-> "off"]
    /\ target = [e \in Closes |-> NoBatch]
    /\ status = [b \in Batches |-> "none"]
    /\ opener = [b \in Batches |-> None]
    /\ closer = [b \in Batches |-> None]
    /\ verdict = [i \in Images |-> NoRow]
    /\ ledger = [i \in Images |-> NoRow]
    /\ try = [i \in Images |-> [n \in Attempts |-> "none"]]
    /\ elsewhere = {}
    /\ counted = [b \in Batches |-> "no"]
    /\ claimed = [b \in Batches |-> {}]

Queueing ==
    \/ \E i \in Images : Capture(i)
    \/ \E R \in Receipts : Receive(R)
    \/ \E e \in Events : Take(e) \/ Leave(e) \/ Finish(e) \/ Expire(e)

Commanding ==
    \/ \E e \in Opens : OpenRefused(e) \/ \E b \in Batches : OpenSession(e, b)
    \/ \E e \in Closes : FindActive(e) \/ CloseBatch(e)
    \/ \E e \in Cancels, owner \in BOOLEAN : Cancel(e, owner)

Ingesting ==
    \E i \in Images :
        \/ ProcessImage(i) \/ RowLocked(i) \/ ConsumeElsewhere(i)
        \/ Redrive(i) \/ Elapse(i)
        \/ \E n \in Attempts : Attach(i, n) \/ Fail(i, n)

Finalizing ==
    \E b \in Batches :
        \/ \E waited, ready \in BOOLEAN : ClaimClosing(b, waited, ready)
        \/ Abandon(b)
        \/ Account(b)
        \/ \E verified \in {"all", "some", "none"} : Finalize(b, verified)

Next == Queueing \/ Commanding \/ Ingesting \/ Finalizing

Spec == Init /\ [][Next]_vars

(***************************************************************************)
(* Leases and backoffs end, the cron route re-drives what is due, and its  *)
(* finalizer claims a closing batch once every bounded wait is over.       *)
(***************************************************************************)
Fairness ==
    /\ \A i \in Images : WF_vars(Elapse(i)) /\ WF_vars(Redrive(i))
    /\ \A b \in Batches : WF_vars(ClaimClosing(b, TRUE, TRUE))

FairSpec == Spec /\ Fairness

-----------------------------------------------------------------------------
(***************************************************************************)
(* Properties.                                                             *)
(***************************************************************************)
RowStates ==
    InFlightStates \cup {"none", "unbound", "no_session", "attached", "failed_permanent",
                         "excluded_after_close", "excluded_not_slip", "late_after_finalize"}

RowRecord ==
    [state : RowStates, batch : Batches \cup {NoBatch}, attempts : 0..MaxAttempts,
     due : BOOLEAN]

(* The table's CHECK: no batch exactly without a session; and no attempt,  *)
(* nor a lease or backoff, before there is one.                            *)
RowType ==
    {r \in RowRecord : /\ r.batch = NoBatch <=> r.state \in {"none", "unbound", "no_session"}
                       /\ r.batch = NoBatch => r.attempts = 0 /\ ~r.due}

WorkerType ==
    /\ queue \in [Events -> {"unseen", "waiting", "taken", "done", "dropped"}]
    /\ work \in [Events -> {"off", "on", "waits", "closes", "aside", "done"}]
    /\ target \in [Closes -> Batches \cup {NoBatch}]
    /\ \A e \in Closes : work[e] = "closes" => target[e] # NoBatch

SessionType ==
    /\ status \in [Batches -> OpenStates \cup {"none", "processing", "completed",
                                               "review_needed", "failed", "cancelled"}]
    /\ opener \in [Batches -> Opens \cup {None}]
    /\ \A b \in Batches : status[b] # "none" => opener[b] # None
    /\ closer \in [Batches -> Closes \cup Cancels \cup {None}]
    /\ counted \in [Batches -> {"no", "whole", "short"}]
    /\ claimed \in [Batches -> SUBSET Images]

LedgerType ==
    /\ verdict \in [Images -> RowType]
    /\ ledger \in [Images -> RowType]
    /\ try \in [Images -> [Attempts -> {"none", "queue", "loose", "over"}]]
    /\ elsewhere \subseteq Images

(* Every variable has its type; a row has a batch exactly when a session   *)
(* was found for it, a batch knows the command that opened it, and a close *)
(* command the batch it will act on.                                       *)
TypeOK == WorkerType /\ SessionType /\ LedgerType

(* The session an image belongs to by its LINE time. *)
Within(b, i) == status[b] # "none" /\ Covers(b, Stamp[i])

(* A summary that calls a closed session complete is complete: every image *)
(* of its window that was in the ledger when the batch was claimed is in   *)
(* the batch, or another flow took it, or it is another session's.         *)
CompletedIsWhole ==
    \A b \in Batches : \A i \in claimed[b] :
        status[b] = "completed" /\ closer[b] # None /\ Within(b, i)
        => \/ ledger[i].batch = b /\ ledger[i].state \in {"attached", "excluded_not_slip"}
           \/ ledger[i].batch \notin {b, NoBatch}

(* No image that was in the ledger when its batch, closed or abandoned,    *)
(* was claimed is missing from a summary called complete: none of those    *)
(* bound to it was still waiting, given up on or late when it was counted. *)
CompletedIsAccounted ==
    \A b \in Batches : \A i \in claimed[b] :
        status[b] = "completed" /\ ledger[i].batch = b
        => ledger[i].state \in {"attached", "excluded_after_close", "excluded_not_slip"}

(* Once a batch is claimed or cancelled its total is settled: no attempt,  *)
(* however late, and no reconciliation adds an image to it.                *)
TotalsAreSettled ==
    [][\A b \in Created : status[b] \notin OpenStates => Attached(b)' = Attached(b)]_vars

(* A row is retried or given up on only when its latest attempt has        *)
(* answered: an attempt that lost its lease never ends the newer one's.    *)
RetryFollowsAnswer ==
    \A i \in Images : ledger[i].state = "retry_pending" => try[i][ledger[i].attempts] = "over"

(* An image's fate is never revised: its batch never changes, an image in  *)
(* the batch or excluded stays so, and one given up on can only still be   *)
(* settled by the last attempt made for it.                                *)
FateIsFixed ==
    [][\A i \in Images :
        LET r == ledger[i]
            s == ledger'[i]
        IN  /\ r.batch # NoBatch => s.batch = r.batch
            /\ r.state \in {"attached", "excluded_after_close", "excluded_not_slip",
                            "late_after_finalize"} => s = r
            /\ r.state = "failed_permanent" /\ s # r =>
                    try[i][r.attempts] # "over" /\ try'[i][r.attempts] = "over"]_vars

(* no_session is never a mistake: while a session is open, no image within *)
(* its window is left with that verdict, however late the session opened.  *)
NoSessionMeansNone ==
    \A i \in Images : \A b \in Recent \cap Active :
        ledger[i].state = "no_session" => ~Covers(b, Stamp[i])

(* A session never goes back: not to collecting, and to closing only from  *)
(* collecting, although a close acts on a batch it read earlier.           *)
SessionsNeverReopen ==
    [][\A b \in Created :
        /\ status[b] # "collecting" => status'[b] # "collecting"
        /\ status[b] \notin OpenStates => status'[b] \notin OpenStates
        /\ closer[b] # None => closer'[b] = closer[b]]_vars

(* Attempts come to an end: an image that is being stored is in its batch, *)
(* excluded, late or given up on at last, whatever crashes.                *)
AttemptsEnd ==
    \A i \in Images :
        (ledger[i].state \in {"ingesting", "retry_pending"})
            ~> (ledger[i].state \notin {"ingesting", "retry_pending"})

(* An irrecoverable image does not block a closed batch forever. *)
ClosingEnds == \A b \in Batches : (status[b] = "closing") ~> (status[b] # "closing")

(* What the comments of the migration promise of an image sent after a     *)
(* close: it is excluded only if it was sent "before any newer session     *)
(* opened", and otherwise bound when its session is created.               *)
ExcludedHasNoSession ==
    \A i \in Images : \A b \in Batches :
        ledger[i].state = "excluded_after_close" => ~Within(b, i)

-----------------------------------------------------------------------------
(***************************************************************************)
(* The slip ledger implements SlipCollection.                              *)
(***************************************************************************)
Place(r) ==
    [of |-> r.batch,
     is |-> CASE r.batch = NoBatch -> "free"
              [] r.state = "attached" -> "in"
              [] r.state \in {"excluded_after_close", "excluded_not_slip"} -> "out"
              [] r.state = "late_after_finalize" -> "late"
              [] OTHER -> "owed"]

Collection == INSTANCE SlipCollection
    WITH Sessions <- Batches, NoSession <- NoBatch,
         phase <- status, place <- [i \in Images |-> Place(ledger[i])], tally <- counted

(* Every step of the ledger, the batches and the queue is a step of the    *)
(* collection they promise, or none: whatever attempts, retries, closes    *)
(* and claims interleave, no session reopens, no image changes sides or    *)
(* joins a total that was claimed, and a summary is complete only after a  *)
(* count that found nothing missing.                                       *)
Refines == Collection!Spec
===============================================================================
