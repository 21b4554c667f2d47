------------------------- MODULE ProduceNotification -------------------------
(***************************************************************************)
(* The outbox of the notices of finalized produce sessions: how a notice   *)
(* is written with its session, claimed by the cron's workers in batches,  *)
(* pushed to LINE under a retry key, completed, retried, and sent again    *)
(* when an operator asks.                                                  *)
(*                                                                         *)
(* An RPC is one step and so is what a worker does between two of its      *)
(* calls.  A push is a request that LINE may accept at any time after it   *)
(* was sent, whatever became of the worker.  The two minutes of a claim    *)
(* and the backoff of a retry are not measured: they end some time after   *)
(* they began.                                                             *)
(***************************************************************************)
EXTENDS Naturals, FiniteSets

CONSTANTS
    Notices,        \* produce sessions whose finalization carries a notice
    Workers,        \* invocations of the cron route, and operators' requests
    Home,           \* runtime_environment of each notice, or NoEnvironment
    Env,            \* the environment each worker runs in
    Production,
    NoEnvironment,  \* rows older than the column
    ClaimLimit,     \* notices claimed at once (25)
    MaxCycle,       \* MAX_CYCLE_ATTEMPTS
    MaxAttempts,    \* bound on the attempts of a notice
    MaxResends,     \* bound on the resends of a notice
    MaxFaults,      \* bound on crashes of workers and failed completions
    LateWorkers,    \* whether a worker's calls may outlive its claim
    KeysExpire,     \* whether LINE may forget a retry key it has accepted
    NoClaim

ASSUME EnvironmentAssumption == \A w \in Workers : Env[w] # NoEnvironment
ASSUME BoundAssumption ==
    /\ ClaimLimit \in Nat \ {0} /\ MaxCycle \in Nat \ {0} /\ MaxAttempts \in Nat
    /\ MaxResends \in Nat /\ MaxFaults \in Nat
ASSUME SwitchAssumption == LateWorkers \in BOOLEAN /\ KeysExpire \in BOOLEAN

Attempts == 1..MaxAttempts

(* Retry keys are fresh UUIDs.  Keys are numbers here: the resend a key is *)
(* minted for, 0 for the first; later numbers stand for other fresh keys.  *)
Keys == 0..(MaxResends + MaxAttempts)

(* What a claim returns to its worker of a row: a snapshot. *)
Claims == [notice : Notices, attempt : Attempts, cycle : Attempts, key : Keys]
ASSUME NoClaimAssumption == NoClaim \notin Claims

VARIABLES
    row,        \* produce_session_notifications
    log,        \* transition_to of produce_notification_attempts, by attempt
    pc,         \* where a worker is
    todo,       \* claims a worker has not begun
    now,        \* the claim it is at
    wire,       \* pushes that LINE has not taken in, with their channel
    known,      \* the retry keys that LINE remembers, by channel and notice
    copies,     \* how many messages arrived in the chat under each key
    faults      \* crashes and failed completions so far

rows == <<row, log>>
workers == <<pc, todo, now>>
line == <<wire, known, copies>>
vars == <<rows, workers, line, faults>>

Absent == [status |-> "none", retryable |-> FALSE, attempts |-> 0, cycle |-> 0,
           key |-> 0, resends |-> 0, ripe |-> FALSE]

Idle(w) == pc[w] = "ready" /\ todo[w] = {}

-----------------------------------------------------------------------------
(***************************************************************************)
(* The RPCs.                                                               *)
(***************************************************************************)
(* try_finalize_pending_generation writes the notice with its session. *)
Finalize(n) ==
    /\ row[n].status = "none"
    /\ row' = [row EXCEPT ![n].status = "pending", ![n].retryable = TRUE, ![n].ripe = TRUE]
    /\ UNCHANGED <<log, workers, line, faults>>

Owned(w, n) ==
    \/ Home[n] = Env[w]
    \/ Env[w] = Production /\ Home[n] = NoEnvironment

(* Mutant: nobody looks for silent senders. *)
DueRetriesOnly(n) ==
    row[n].ripe /\ row[n].status \in {"pending", "failed"} /\ row[n].retryable

(* Rows whose retry is due, and rows whose sender has been silent for two  *)
(* minutes.                                                                *)
Due(n) ==
    /\ row[n].ripe
    /\ \/ row[n].status \in {"pending", "failed"} /\ row[n].retryable
       \/ row[n].status = "sending"

(* Mutant: every claim takes a fresh retry key. *)
ClaimedAnew(r) ==
    [r EXCEPT !.status = "sending", !.attempts = @ + 1, !.cycle = @ + 1, !.ripe = FALSE,
              !.key = MaxResends + r.attempts + 1]

(* A row is taken for another attempt of its cycle. *)
Claimed(r) ==
    [r EXCEPT !.status = "sending", !.attempts = @ + 1, !.cycle = @ + 1, !.ripe = FALSE]

ClaimOf(n) == [notice |-> n, attempt |-> row'[n].attempts, cycle |-> row'[n].cycle,
               key |-> row'[n].key]

(* claim_due_produce_notifications.  Rows locked by others are skipped. *)
Claim(w, S) ==
    /\ Idle(w)
    /\ S # {} /\ Cardinality(S) <= ClaimLimit
    /\ \A n \in S : Owned(w, n) /\ Due(n) /\ row[n].attempts < MaxAttempts
    /\ row' = [n \in Notices |-> IF n \in S THEN Claimed(row[n]) ELSE row[n]]
    /\ log' = [n \in Notices |->
                  IF n \in S THEN [log[n] EXCEPT ![row'[n].attempts] = "sending"] ELSE log[n]]
    /\ todo' = [todo EXCEPT ![w] = {ClaimOf(n) : n \in S}]
    /\ UNCHANGED <<pc, now, line, faults>>

(* Mutant: the attempts go on with their old cycle. *)
RequeuedMidCycle(r) ==
    [r EXCEPT !.status = "sending", !.retryable = TRUE, !.attempts = @ + 1, !.cycle = @ + 1,
              !.key = r.resends + 1, !.resends = @ + 1, !.ripe = FALSE]

(* Mutant: the resend goes out under the old key. *)
RequeuedSameKey(r) ==
    [r EXCEPT !.status = "sending", !.retryable = TRUE, !.attempts = @ + 1, !.cycle = 1,
              !.resends = @ + 1, !.ripe = FALSE]

(* requeue_produce_notification, from the operator's POST. *)
Requeued(r) ==
    [r EXCEPT !.status = "sending", !.retryable = TRUE, !.attempts = @ + 1, !.cycle = 1,
              !.key = r.resends + 1, !.resends = @ + 1, !.ripe = FALSE]

Requeue(w, n) ==
    /\ Idle(w)
    /\ row[n].status \notin {"none", "sending"}
    /\ row[n].attempts < MaxAttempts /\ row[n].resends < MaxResends
    /\ row' = [row EXCEPT ![n] = Requeued(@)]
    /\ log' = [log EXCEPT ![n][row'[n].attempts] = "sending"]
    /\ todo' = [todo EXCEPT ![w] = {ClaimOf(n)}]
    /\ UNCHANGED <<pc, now, line, faults>>

(* Mutant: the attempt number is not compared. *)
CurrentUnfenced(c) == row[c.notice].status = "sending"

(* The attempt is the one the row is claimed for. *)
Current(c) == row[c.notice].status = "sending" /\ row[c.notice].attempts = c.attempt

(* complete_produce_notification_attempt(c, to, retry); what it reports is *)
(* only logged.                                                            *)
Completed(c, to, retry) ==
    IF Current(c)
    THEN /\ row' = [row EXCEPT ![c.notice].status = to, ![c.notice].retryable = retry,
                               ![c.notice].ripe = FALSE]
         /\ log' = [log EXCEPT ![c.notice][c.attempt] = to]
    ELSE UNCHANGED rows

-----------------------------------------------------------------------------
(***************************************************************************)
(* deliverClaimedProduceNotification, for one claim after the other.       *)
(***************************************************************************)
Push(w) ==
    /\ pc[w] = "ready"
    /\ \E c \in todo[w] :
          /\ todo' = [todo EXCEPT ![w] = @ \ {c}]
          /\ now' = [now EXCEPT ![w] = c]
          /\ wire' = wire \cup {<<c, Env[w]>>}
    /\ pc' = [pc EXCEPT ![w] = "pushing"]
    /\ UNCHANGED <<rows, known, copies, faults>>

(* Each environment has LINE credentials, and so a channel, of its own. *)
Pushed(w) == <<now[w], Env[w]>>

Answer(w, a) ==
    /\ pc[w] = "pushing"
    /\ pc' = [pc EXCEPT ![w] = a]
    /\ UNCHANGED <<rows, todo, now, known, copies, faults>>

(* HTTP 2xx, or 409 for a key LINE has accepted before. *)
Delivered(w) == Pushed(w) \notin wire /\ Answer(w, "delivered") /\ UNCHANGED wire

(* A definite refusal: 4xx. *)
Refused(w) == Pushed(w) \in wire /\ Answer(w, "refused") /\ wire' = wire \ {Pushed(w)}

(* 429, 5xx, a network error: the push may have been taken in or not. *)
Unanswered(w) == Answer(w, "unanswered") /\ UNCHANGED wire

(* Another attempt of the cycle is allowed after this one. *)
Retryable(w) == pc[w] = "unanswered" /\ now[w].cycle < MaxCycle

(* Mutant: the worker forgets to move on from its claim. *)
RestAtClaim(w) ==
    /\ pc' = [pc EXCEPT ![w] = "ready"]
    /\ UNCHANGED <<todo, now>>

Rest(w) ==
    /\ pc' = [pc EXCEPT ![w] = "ready"]
    /\ now' = [now EXCEPT ![w] = NoClaim]
    /\ UNCHANGED todo

Complete(w) ==
    /\ pc[w] \in {"delivered", "refused", "unanswered"}
    /\ IF pc[w] = "delivered" THEN Completed(now[w], "sent", FALSE)
                              ELSE Completed(now[w], "failed", Retryable(w))
    /\ Rest(w)
    /\ UNCHANGED <<line, faults>>

(* The RPC fails: the row stays claimed and the worker goes on. *)
FailToComplete(w) ==
    /\ pc[w] \in {"delivered", "refused", "unanswered"}
    /\ faults < MaxFaults
    /\ faults' = faults + 1
    /\ Rest(w)
    /\ UNCHANGED <<rows, line>>

(* The platform ends the invocation, at its time limit or before. *)
Crash(w) ==
    /\ ~Idle(w) /\ faults < MaxFaults
    /\ faults' = faults + 1
    /\ pc' = [pc EXCEPT ![w] = "ready"]
    /\ todo' = [todo EXCEPT ![w] = {}]
    /\ now' = [now EXCEPT ![w] = NoClaim]
    /\ UNCHANGED <<rows, line>>

-----------------------------------------------------------------------------
(***************************************************************************)
(* LINE and the clock.                                                     *)
(***************************************************************************)
(* LINE takes in a push, and delivers it unless it remembers its key. *)
Accept(c, e) ==
    /\ <<c, e>> \in wire
    /\ wire' = wire \ {<<c, e>>}
    /\ IF <<e, c.notice, c.key>> \in known
       THEN UNCHANGED <<known, copies>>
       ELSE /\ known' = known \cup {<<e, c.notice, c.key>>}
            /\ copies' = [copies EXCEPT ![c.notice][c.key] = @ + 1]
    /\ UNCHANGED <<rows, workers, faults>>

(* A day later the key protects no more. *)
Forget(k) ==
    /\ KeysExpire
    /\ k \in known
    /\ known' = known \ {k}
    /\ UNCHANGED <<rows, workers, wire, copies, faults>>

Holds(w, n) ==
    \E c \in todo[w] \cup {now[w]} :
        c # NoClaim /\ c.notice = n /\ c.attempt = row[n].attempts

(* The time of the retry comes, or the claim's two minutes are over.       *)
Elapse(n) ==
    /\ ~row[n].ripe
    /\ \/ row[n].status = "failed" /\ row[n].retryable
       \/ row[n].status = "sending" /\ (LateWorkers \/ \A w \in Workers : ~Holds(w, n))
    /\ row' = [row EXCEPT ![n].ripe = TRUE]
    /\ UNCHANGED <<log, workers, line, faults>>

-----------------------------------------------------------------------------
Init ==
    /\ row = [n \in Notices |-> Absent]
    /\ log = [n \in Notices |-> [a \in Attempts |-> "none"]]
    /\ pc = [w \in Workers |-> "ready"]
    /\ todo = [w \in Workers |-> {}]
    /\ now = [w \in Workers |-> NoClaim]
    /\ wire = {}
    /\ known = {}
    /\ copies = [n \in Notices |-> [k \in Keys |-> 0]]
    /\ faults = 0

Deliver(w) == Push(w) \/ Delivered(w) \/ Refused(w) \/ Unanswered(w) \/ Complete(w)

Next ==
    \/ \E w \in Workers :
          \/ \E S \in SUBSET Notices : Claim(w, S)
          \/ \E n \in Notices : Requeue(w, n)
          \/ Deliver(w) \/ FailToComplete(w) \/ Crash(w)
    \/ \E n \in Notices : Finalize(n) \/ Elapse(n)
    \/ \E p \in wire : Accept(p[1], p[2])
    \/ \E k \in known : Forget(k)

Spec == Init /\ [][Next]_vars

(* The cron runs once a minute and claims the rows that have waited        *)
(* longest, so that the turn of each one comes; the platform lets an       *)
(* invocation go on or ends it, and a push has an answer, an error or its  *)
(* invocation's end.                                                       *)
FairSpec ==
    /\ Spec
    /\ \A w \in Workers : WF_vars(Deliver(w))
    /\ \A n \in Notices :
          /\ WF_vars(Elapse(n))
          /\ SF_vars(\E w \in Workers, S \in SUBSET Notices : n \in S /\ Claim(w, S))

-----------------------------------------------------------------------------
RowType ==
    [status : {"none", "pending", "sending", "sent", "failed"}, retryable : BOOLEAN,
     attempts : 0..MaxAttempts, cycle : 0..MaxAttempts, key : Keys, resends : 0..MaxResends,
     ripe : BOOLEAN]

(* Every variable has its type; a worker is at a claim exactly while it    *)
(* pushes or completes it.                                                 *)
TypeOK ==
    /\ row \in [Notices -> RowType]
    /\ log \in [Notices -> [Attempts -> {"none", "sending", "sent", "failed"}]]
    /\ pc \in [Workers -> {"ready", "pushing", "delivered", "refused", "unanswered"}]
    /\ todo \in [Workers -> SUBSET Claims]
    /\ now \in [Workers -> Claims \cup {NoClaim}]
    /\ \A w \in Workers : now[w] = NoClaim <=> pc[w] = "ready"
    /\ wire \subseteq Claims \X {Env[w] : w \in Workers}
    /\ known \subseteq {Env[w] : w \in Workers} \X Notices \X Keys
    /\ copies \in [Notices -> [Keys -> Nat]]
    /\ faults \in 0..MaxFaults

(* A row that says sent is right: the summary under the row's retry key    *)
(* is in the chat.  Answers come late, claims are taken over and resends   *)
(* change the key meanwhile.                                               *)
SentIsTrue == \A n \in Notices : row[n].status = "sent" => copies[n][row[n].key] > 0

(* The chat gets the summary at most once for the finalization and once    *)
(* for each resend, however many attempts, crashes and lost answers there  *)
(* are.                                                                    *)
OneCopyPerRequest ==
    \A n \in Notices : \A k \in Keys :
        copies[n][k] <= IF k <= row[n].resends THEN 1 ELSE 0

CycleAttempts(n) == {a \in Attempts : a <= row[n].attempts /\ a + row[n].cycle > row[n].attempts}

(* The log of the attempts tells what became of the notice: its last       *)
(* attempt ended as the row did, and none of a cycle followed one that     *)
(* was sent.                                                               *)
LogMatchesRow ==
    \A n \in Notices :
        /\ row[n].status \in {"sending", "sent", "failed"} => log[n][row[n].attempts] = row[n].status
        /\ \A a \in CycleAttempts(n) :
              a < row[n].attempts => log[n][a] \in {"sending", "failed"}

(* The failures of a cycle stay within its budget, though attempts whose   *)
(* answer never came are counted too.                                      *)
BudgetKept ==
    \A n \in Notices :
        Cardinality({a \in CycleAttempts(n) : log[n][a] = "failed"}) <= MaxCycle

Settled(n) ==
    \/ row[n].status = "sent"
    \/ row[n].status = "failed" /\ ~row[n].retryable

(* Every notice is sent or given up on, if crashes and failed completions  *)
(* come to an end.                                                         *)
EventuallySettled == \A n \in Notices : row[n].status # "none" ~> Settled(n)

Verdict(n) ==
    CASE row[n].status = "none" -> "none"
      [] row[n].status = "sent" -> "sent"
      [] row[n].status = "failed" /\ ~row[n].retryable -> "dropped"
      [] OTHER -> "open"

Delivery == INSTANCE NoticeDelivery
    WITH Requests <- Keys, verdict <- [n \in Notices |-> Verdict(n)],
         asked <- [n \in Notices |-> row[n].resends]

(* Every step of the outbox is a step of the abstract delivery, or none.   *)
Refines == Delivery!Spec
=============================================================================
