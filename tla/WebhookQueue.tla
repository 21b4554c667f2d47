---------------------------- MODULE WebhookQueue ----------------------------
(***************************************************************************)
(* The ordered LINE webhook queue: the table line_webhook_event_queue with *)
(* its RPCs, the webhook invocations that fill and drain it, the recovery  *)
(* sweep and the once-per-minute reconcile of the cron route.              *)
(*                                                                         *)
(* An RPC is one PostgreSQL transaction and one atomic step.  What lies    *)
(* between two RPCs of an invocation is not atomic: another invocation may *)
(* run, time may pass, and the platform may kill the invocation.           *)
(*                                                                         *)
(* Time is kept as ages, in ticks, that stop growing at the last threshold *)
(* any comparison in the code tells apart.                                 *)
(***************************************************************************)
EXTENDS Naturals, Sequences, FiniteSets

CONSTANTS
    Events,         \* LINE webhook event ids
    Sources,        \* LINE groups, rooms and users
    Source,         \* [Events -> Sources], source_id of the event
    Stamp,          \* [Events -> Nat], the LINE timestamp in its payload
    Images,         \* the events that are image messages
    Payloads,       \* sequences of events, one per LINE request
    Invocations,    \* serverless function invocations
    NoOne,          \* stands for a NULL claim_token
    StaleAge,       \* 60 minutes
    Lease,          \* 5 minutes
    MaxDuration,    \* maxDuration = 60 seconds
    Deadline,       \* the drain's own deadline (45 seconds)
    WebhookBudget,  \* events drained per source by a webhook (30)
    RecoverBudget,  \* events drained per recovery sweep (5)
    SurfaceLimit    \* stale rows surfaced per reconcile (20)

ASSUME SourceAssumption == Source \in [Events -> Sources]
ASSUME StampAssumption == Stamp \in [Events -> Nat]
ASSUME PayloadAssumption ==
    /\ Images \subseteq Events
    /\ Payloads \subseteq Seq(Events)
    /\ \A p \in Payloads : Len(p) > 0 /\ \A j, k \in 1..Len(p) : p[j] = p[k] => j = k
ASSUME NoOneAssumption == NoOne \notin Invocations
ASSUME ClockAssumption ==
    /\ StaleAge \in Nat \ {0} /\ Lease \in Nat \ {0}
    /\ MaxDuration \in Nat \ {0} /\ Deadline \in Nat \ {0}
    /\ Lease < StaleAge
    /\ Deadline <= MaxDuration
ASSUME BudgetAssumption ==
    WebhookBudget \in Nat \ {0} /\ RecoverBudget \in Nat \ {0} /\ SurfaceLimit \in Nat \ {0}

VARIABLES
    status,     \* status column, "absent" before the row exists
    order,      \* receive_order
    age,        \* now() - received_at of an open row, at most StaleAge
    leaseAge,   \* now() - processing_started_at of a processing row, at most Lease
    token,      \* claim_token, named by the invocation it was given to
    surfaced,   \* the rows whose stale_surfaced_at is set
    nextOrder,  \* the sequence line_webhook_receive_order_seq
    inv,        \* program counter and locals of each invocation
    mark        \* history: nextOrder when the row was last claimed

rows == <<status, order, age, leaseAge, token, surfaced, nextOrder, mark>>
vars == <<rows, inv>>

OpenStates == {"pending", "processing"}
Statuses == OpenStates \cup {"absent", "processed", "failed", "stale"}

Present == {e \in Events : status[e] # "absent"}
OpenRows == {e \in Events : status[e] \in OpenStates}

(***************************************************************************)
(* The ORDER BY of the claim: the LINE timestamp, then receive_order.      *)
(***************************************************************************)
Before(a, b) ==
    /\ Source[a] = Source[b]
    /\ \/ Stamp[a] < Stamp[b]
       \/ Stamp[a] = Stamp[b] /\ order[a] < order[b]

(* Mutant: the lease ends one tick early. *)
LeaseExpiredEarly(e) == leaseAge[e] + 1 >= Lease

LeaseExpired(e) == leaseAge[e] >= Lease

(* Open rows that nobody holds a live lease on. *)
Idle(e) == status[e] = "pending" \/ (status[e] = "processing" /\ LeaseExpired(e))

(* Mutants: the age alone decides; or only pending rows are looked at. *)
QuarantinedDespiteLease(S) ==
    {e \in Events : Source[e] \in S /\ age[e] >= StaleAge /\ status[e] \in OpenStates}
QuarantinedPendingOnly(S) ==
    {e \in Events : Source[e] \in S /\ age[e] >= StaleAge /\ status[e] = "pending"}

(***************************************************************************)
(* quarantine_stale_line_webhook_events, for the rows of the sources S.    *)
(***************************************************************************)
Quarantined(S) == {e \in Events : Source[e] \in S /\ age[e] >= StaleAge /\ Idle(e)}

StatusAfterQuarantine(Q) == [e \in Events |-> IF e \in Q THEN "stale" ELSE status[e]]

(***************************************************************************)
(* Invocations.                                                            *)
(***************************************************************************)
Started(pc, kind, p, S, budget) ==
    [pc |-> pc, kind |-> kind, life |-> 0, payload |-> p, pos |-> 1,
     sources |-> S, left |-> budget, event |-> NoOne]

Resting == Started("idle", "none", <<>>, {}, 0)

Live == {i \in Invocations : inv[i].pc # "idle"}
Working == {i \in Invocations : inv[i].pc \in {"business", "succeeded", "errored"}}

(* Mutant: the completion matches the row alone. *)
OwnsByRow(i, e) == status[e] # "absent"

(* complete_line_webhook_event matches on status and claim_token. *)
Owns(i, e) == status[e] = "processing" /\ token[e] = i

-----------------------------------------------------------------------------
(***************************************************************************)
(* Receipt: processEvents persists a safe prefix event by event, and from  *)
(* the first image onward everything in one transaction.                   *)
(***************************************************************************)
SafePrefix(p) ==
    {k \in 1..Len(p) : /\ \A j \in 1..k : p[j] \notin Images
                       /\ \E j \in k..Len(p) : p[j] \in Images}

(* The positions of p the next receive RPC carries, from position k. *)
Chunk(p, k) == IF k \in SafePrefix(p) THEN {k} ELSE k..Len(p)

(* LINE delivers a payload, again and again until it is acknowledged. *)
Deliver(i, p) ==
    /\ inv[i].pc = "idle"
    /\ inv' = [inv EXCEPT ![i] = Started("receive", "webhook", p, {}, WebhookBudget)]
    /\ UNCHANGED rows

(* receive_line_webhook_event: ON CONFLICT DO NOTHING keeps an existing row. *)
InsertRows(p, C) ==
    LET new == {k \in C : status[p[k]] = "absent"}
        at(e) == CHOOSE k \in new : p[k] = e
        fresh == {p[k] : k \in new}
    IN  /\ status' = [e \in Events |-> IF e \in fresh THEN "pending" ELSE status[e]]
        /\ order' = [e \in Events |->
                        IF e \in fresh
                        THEN nextOrder + Cardinality({k \in new : k < at(e)})
                        ELSE order[e]]
        /\ nextOrder' = nextOrder + Cardinality(new)
        /\ UNCHANGED <<age, leaseAge, token, surfaced, mark>>

ChunkReceived(r) == [r EXCEPT !.pos = @ + 1]

(* Once the last chunk is in, the background task drains every source of   *)
(* the payload, duplicates included.                                       *)
AllReceived(r) ==
    [r EXCEPT !.pc = "drain", !.payload = <<>>, !.pos = 1,
              !.sources = {Source[r.payload[k]] : k \in 1..Len(r.payload)}]

(* Mutant: events are received one by one, and a failed one is left out. *)
ReceiveDespiteFailures(i) ==
    /\ inv[i].pc = "receive"
    /\ LET p == inv[i].payload
           k == inv[i].pos
       IN  /\ InsertRows(p, {k}) \/ UNCHANGED rows
           /\ inv' = [inv EXCEPT ![i] =
                IF k = Len(p) THEN AllReceived(inv[i]) ELSE ChunkReceived(inv[i])]

(* One receive RPC of the request. *)
Receive(i) ==
    /\ inv[i].pc = "receive"
    /\ LET p == inv[i].payload
           C == Chunk(p, inv[i].pos)
       IN  /\ InsertRows(p, C)
           /\ inv' = [inv EXCEPT ![i] = IF Len(p) \in C THEN AllReceived(inv[i])
                                                         ELSE ChunkReceived(inv[i])]

-----------------------------------------------------------------------------
(***************************************************************************)
(* drainOrderedSource.  inv[i].sources is what is left of the loop over    *)
(* the sources; its order, insertion order in the code, is left open.      *)
(***************************************************************************)
(* Mutant: no barrier, any idle recent row of the source. *)
ClaimableUnordered(s) ==
    {e \in Events : Source[e] = s /\ Idle(e) /\ age[e] < StaleAge}

(* The row the claim selects among the sources s, if any: idle, younger    *)
(* than StaleAge and with no earlier row still open.                       *)
Claimable(s) ==
    {e \in Events :
        /\ Source[e] = s
        /\ Idle(e)
        /\ age[e] < StaleAge
        /\ \A f \in OpenRows \ Quarantined({s}) : ~Before(f, e)}

MayClaim(i) ==
    /\ inv[i].pc = "drain"
    /\ inv[i].left > 0
    /\ inv[i].life < Deadline

Claim(i, s, e) ==
    /\ MayClaim(i)
    /\ s \in inv[i].sources
    /\ e \in Claimable(s)
    /\ status' = [StatusAfterQuarantine(Quarantined({s})) EXCEPT ![e] = "processing"]
    /\ token' = [f \in Events |-> IF f = e THEN i
                                  ELSE IF f \in Quarantined({s}) THEN NoOne ELSE token[f]]
    /\ leaseAge' = [leaseAge EXCEPT ![e] = 0]
    /\ mark' = [mark EXCEPT ![e] = nextOrder]
    /\ inv' = [inv EXCEPT ![i].pc = "business", ![i].event = e, ![i].left = @ - 1]
    /\ UNCHANGED <<order, age, surfaced, nextOrder>>

(* A webhook drains each source with a budget of its own, a sweep all of   *)
(* them with one.                                                          *)
NextSource(r, s) ==
    [r EXCEPT !.pc = "drain", !.event = NoOne, !.sources = @ \ {s},
              !.left = IF r.kind = "webhook" THEN WebhookBudget ELSE @]

(* The claim returns NULL; its quarantine is committed all the same. *)
ClaimNothing(i, s) ==
    /\ MayClaim(i)
    /\ s \in inv[i].sources
    /\ Claimable(s) = {}
    /\ status' = StatusAfterQuarantine(Quarantined({s}))
    /\ token' = [f \in Events |-> IF f \in Quarantined({s}) THEN NoOne ELSE token[f]]
    /\ inv' = [inv EXCEPT ![i] = NextSource(@, s)]
    /\ UNCHANGED <<order, age, leaseAge, surfaced, nextOrder, mark>>

(* The budget of a source is spent. *)
SkipSource(i, s) ==
    /\ inv[i].pc = "drain"
    /\ inv[i].left = 0
    /\ inv[i].kind = "webhook"
    /\ s \in inv[i].sources
    /\ inv' = [inv EXCEPT ![i] = NextSource(@, s)]
    /\ UNCHANGED rows

EndDrain(i) ==
    /\ inv[i].pc = "drain"
    /\ \/ inv[i].sources = {}
       \/ inv[i].life >= Deadline
       \/ inv[i].kind = "recovery" /\ inv[i].left = 0
    /\ inv' = [inv EXCEPT ![i] = Resting]
    /\ UNCHANGED rows

(* processOne: the business work, outside the queue's transactions. *)
Process(i) ==
    /\ inv[i].pc = "business"
    /\ \E r \in {"succeeded", "errored"} : inv' = [inv EXCEPT ![i].pc = r]
    /\ UNCHANGED rows

(* Mutant: the token is not cleared. *)
CompleteKeepingToken(i, e, to) ==
    /\ status' = [status EXCEPT ![e] = to]
    /\ leaseAge' = [leaseAge EXCEPT ![e] = 0]
    /\ age' = [age EXCEPT ![e] = IF to = "pending" THEN @ ELSE 0]
    /\ UNCHANGED <<order, token, surfaced, nextOrder, mark>>

(* complete_line_webhook_event(raw, token, to) *)
Complete(i, e, to) ==
    /\ status' = [status EXCEPT ![e] = to]
    /\ token' = [token EXCEPT ![e] = NoOne]
    /\ leaseAge' = [leaseAge EXCEPT ![e] = 0]
    /\ age' = [age EXCEPT ![e] = IF to = "pending" THEN @ ELSE 0]
    /\ UNCHANGED <<order, surfaced, nextOrder, mark>>

(* Completed or, on a claim conflict, not: the drain goes on either way. *)
CompleteProcessed(i) ==
    /\ inv[i].pc = "succeeded"
    /\ LET e == inv[i].event
       IN  IF Owns(i, e) THEN Complete(i, e, "processed") ELSE UNCHANGED rows
    /\ inv' = [inv EXCEPT ![i].pc = "drain", ![i].event = NoOne]

(* Released: the worker stops draining this source, so that it does not    *)
(* reclaim the row itself.  Not released: it goes on.                      *)
Release(i) ==
    /\ inv[i].pc = "errored"
    /\ LET e == inv[i].event
       IN  IF Owns(i, e)
           THEN /\ Complete(i, e, "pending")
                /\ inv' = [inv EXCEPT ![i] = NextSource(@, Source[e])]
           ELSE /\ inv' = [inv EXCEPT ![i].pc = "drain", ![i].event = NoOne]
                /\ UNCHANGED rows

-----------------------------------------------------------------------------
(***************************************************************************)
(* The cron route: recovery sweep and reconcile, once per minute.          *)
(***************************************************************************)
(* The rows recoverPendingOrderedEvents selects: the first RecoverBudget   *)
(* pending ones, of whatever source.                                       *)
Recent == {e \in Events : status[e] = "pending" /\ age[e] < StaleAge}
Swept == {e \in Recent : Cardinality({f \in Recent : order[f] < order[e]}) < RecoverBudget}

Recover(i) ==
    /\ inv[i].pc = "idle"
    /\ Swept # {}
    /\ inv' = [inv EXCEPT ![i] = Started("drain", "recovery", <<>>,
                                         {Source[e] : e \in Swept}, RecoverBudget)]
    /\ UNCHANGED rows

(* Mutant: only the rows this very call quarantined are surfaced. *)
UnsurfacedFresh(Q) == Q \ surfaced

(* reconcile_line_webhook_queue: quarantine everywhere, then surface the   *)
(* first SurfaceLimit stale rows that were not surfaced before.            *)
Unsurfaced(Q) == {e \in Events : (status[e] = "stale" \/ e \in Q) /\ e \notin surfaced}
Surfacing(U) == {e \in U : Cardinality({f \in U : order[f] < order[e]}) < SurfaceLimit}

Reconcile ==
    LET Q == Quarantined(Sources)
    IN  /\ Unsurfaced(Q) # {}
        /\ status' = StatusAfterQuarantine(Q)
        /\ token' = [e \in Events |-> IF e \in Q THEN NoOne ELSE token[e]]
        /\ surfaced' = surfaced \cup Surfacing(Unsurfaced(Q))
        /\ UNCHANGED <<order, age, leaseAge, nextOrder, mark, inv>>

(* Manual review: an operator closes a reviewed stale row as failed. *)
Dismiss(e) ==
    /\ status[e] = "stale"
    /\ e \in surfaced
    /\ status' = [status EXCEPT ![e] = "failed"]
    /\ UNCHANGED <<order, age, leaseAge, token, surfaced, nextOrder, mark, inv>>

-----------------------------------------------------------------------------
(***************************************************************************)
(* The platform.  An invocation may die at any point: a thrown RPC error,  *)
(* a lost RPC answer, a crash.  At MaxDuration it is killed, so no tick    *)
(* passes before it is.                                                    *)
(***************************************************************************)
Crash(i) ==
    /\ i \in Live
    /\ inv' = [inv EXCEPT ![i] = Resting]
    /\ UNCHANGED rows

Kill(i) == Crash(i) /\ inv[i].life = MaxDuration

Tick ==
    /\ \A i \in Live : inv[i].life < MaxDuration
    /\ age' = [e \in Events |-> IF e \in OpenRows /\ age[e] < StaleAge
                                THEN age[e] + 1 ELSE age[e]]
    /\ leaseAge' = [e \in Events |-> IF status[e] = "processing" /\ leaseAge[e] < Lease
                                     THEN leaseAge[e] + 1 ELSE leaseAge[e]]
    /\ inv' = [i \in Invocations |-> IF i \in Live THEN [inv[i] EXCEPT !.life = @ + 1]
                                     ELSE inv[i]]
    /\ UNCHANGED <<status, order, token, surfaced, nextOrder, mark>>

-----------------------------------------------------------------------------
Init ==
    /\ status = [e \in Events |-> "absent"]
    /\ order = [e \in Events |-> 0]
    /\ age = [e \in Events |-> 0]
    /\ leaseAge = [e \in Events |-> 0]
    /\ token = [e \in Events |-> NoOne]
    /\ surfaced = {}
    /\ nextOrder = 1
    /\ mark = [e \in Events |-> 0]
    /\ inv = [i \in Invocations |-> Resting]

Drain(i) ==
    \/ \E s \in Sources : \/ \E e \in Events : Claim(i, s, e)
                          \/ ClaimNothing(i, s)
                          \/ SkipSource(i, s)
    \/ EndDrain(i)
    \/ Process(i)
    \/ CompleteProcessed(i)
    \/ Release(i)

Next ==
    \/ \E i \in Invocations : \/ \E p \in Payloads : Deliver(i, p)
                              \/ Receive(i)
                              \/ Drain(i)
                              \/ Recover(i)
                              \/ Crash(i)
    \/ Reconcile
    \/ \E e \in Events : Dismiss(e)
    \/ Tick

Spec == Init /\ [][Next]_vars

(***************************************************************************)
(* What the schedulers guarantee: time passes, the cron route reconciles   *)
(* every minute, and the platform kills an invocation at its limit.        *)
(* Neither the drains nor the sweep are assumed to make progress.          *)
(***************************************************************************)
Fairness ==
    /\ WF_vars(Tick)
    /\ WF_vars(Reconcile)
    /\ \A i \in Invocations : WF_vars(Kill(i))

FairSpec == Spec /\ Fairness

-----------------------------------------------------------------------------
(***************************************************************************)
(* Properties.                                                             *)
(***************************************************************************)
InvocationRecord ==
    [pc : {"idle", "receive", "drain", "business", "succeeded", "errored"},
     kind : {"none", "webhook", "recovery"},
     life : 0..MaxDuration,
     payload : Payloads \cup {<<>>},
     pos : Nat,
     sources : SUBSET Sources,
     left : Nat,
     event : Events \cup {NoOne}]

InvocationType ==
    {r \in InvocationRecord : r.pc \in {"business", "succeeded", "errored"} => r.event \in Events}

(* Every variable has its type; an invocation works on an event; a claim   *)
(* token is set exactly while the row is processing (the table's CHECK).   *)
TypeOK ==
    /\ status \in [Events -> Statuses]
    /\ order \in [Events -> Nat]
    /\ age \in [Events -> 0..StaleAge]
    /\ leaseAge \in [Events -> 0..Lease]
    /\ token \in [Events -> Invocations \cup {NoOne}]
    /\ surfaced \subseteq Events
    /\ nextOrder \in Nat \ {0}
    /\ mark \in [Events -> Nat]
    /\ inv \in [Invocations -> InvocationType]
    /\ \A e \in Events : status[e] = "processing" <=> token[e] # NoOne

(* A close never overtakes what came before it: while a row is processing, *)
(* or after it was processed, every row of its source that sorts before it *)
(* and is still open was received only after that row was claimed.         *)
NoOvertaking ==
    \A a, b \in Events :
        /\ Before(a, b)
        /\ a \in OpenRows
        /\ status[b] \in {"processing", "processed"}
        => mark[b] <= order[a]

(* The lease outlives the function: no two invocations that are alive are  *)
(* inside the business work of one event.                                  *)
ExclusiveWork ==
    \A i, j \in Working : inv[i].event = inv[j].event => i = j

(* A payload is durable in its own order: an event of a payload is in the  *)
(* queue only when every event before it in the payload is, with a smaller *)
(* receive_order (payloads are disjoint here).                             *)
PayloadPrefix ==
    \A p \in Payloads : \A j, k \in 1..Len(p) :
        j < k /\ p[k] \in Present => p[j] \in Present /\ order[p[j]] < order[p[k]]

(* A row that left the queue never comes back to it: processed, stale and  *)
(* failed rows are never pending or processing again, so a stale event is  *)
(* never replayed and a late completion never reopens or rewrites one.     *)
TerminalIsFinal ==
    [][\A e \in Events :
        /\ status[e] \in {"processed", "failed"} => status'[e] = status[e]
        /\ status[e] = "stale" => status'[e] \in {"stale", "failed"}]_vars

(* An invocation that has been alive for less than a lease still owns the  *)
(* event it works on: no reclaim, quarantine, reconcile or late completion *)
(* of another invocation takes the row from under it.  (One that outlives  *)
(* the lease may lose it, and then its completion is refused.)             *)
OwnedWhileLeased ==
    \A i \in Working : inv[i].life < Lease => Owns(i, inv[i].event)

(* Every row that was received leaves the queue, however often its workers *)
(* crash: it is processed, or found stale.                                 *)
EventuallySettled ==
    \A e \in Events : (e \in OpenRows) ~> (status[e] \in {"processed", "stale", "failed"})

(* Every stale row is surfaced for manual review. *)
StaleIsSurfaced ==
    \A e \in Events : (status[e] = "stale") ~> (e \in surfaced)

-----------------------------------------------------------------------------
(***************************************************************************)
(* The queue implements OrderedDelivery: a pending row is waiting, a       *)
(* processing row is taken, and stale and dismissed rows are dropped.      *)
(***************************************************************************)
Phase(e) ==
    CASE status[e] = "absent" -> "unseen"
      [] status[e] = "pending" -> "waiting"
      [] status[e] = "processing" -> "taken"
      [] status[e] = "processed" -> "done"
      [] status[e] \in {"stale", "failed"} -> "dropped"

Delivery == INSTANCE OrderedDelivery
    WITH phase <- [e \in Events |-> Phase(e)], arrival <- order, arrived <- nextOrder

(* Every step of the queue is a step of the abstract delivery, or none. *)
Refines == Delivery!Spec
=============================================================================
