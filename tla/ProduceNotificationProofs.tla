---------------------- MODULE ProduceNotificationProofs ----------------------
(***************************************************************************)
(* Theorems about ProduceNotification, for every set of notices, workers   *)
(* and environments and every choice of the bounds.                        *)
(***************************************************************************)
EXTENDS ProduceNotification, FiniteSetTheorems, TLAPS

(* The bounds are numbers, the first key is one and the first attempt is   *)
(* the first.                                                              *)
LEMMA Bounds ==
    /\ MaxAttempts \in Nat /\ MaxResends \in Nat /\ MaxFaults \in Nat /\ MaxCycle \in Nat \ {0}
    /\ 0..MaxResends \subseteq Keys /\ Keys \subseteq Nat /\ Attempts \subseteq Nat \ {0}
<1>1. /\ MaxAttempts \in Nat /\ MaxResends \in Nat /\ MaxFaults \in Nat
      /\ MaxCycle \in Nat \ {0}
  BY BoundAssumption
<1> QED
  BY <1>1 DEF Keys, Attempts

-----------------------------------------------------------------------------
(***************************************************************************)
(* What a step does to the row and the log of a notice.                    *)
(***************************************************************************)
Kept(n) == row'[n] = row[n] /\ log'[n] = log[n]

Written(n) ==
    /\ row[n].status = "none"
    /\ row'[n] = [row[n] EXCEPT !.status = "pending", !.retryable = TRUE, !.ripe = TRUE]
    /\ log'[n] = log[n]

Taken(n) ==
    /\ (row[n].status \in {"pending", "failed"} /\ row[n].retryable) \/ row[n].status = "sending"
    /\ row[n].attempts < MaxAttempts
    /\ row'[n] = Claimed(row[n])
    /\ log'[n] = [log[n] EXCEPT ![row[n].attempts + 1] = "sending"]

AskedAgain(n) ==
    /\ row[n].status \notin {"none", "sending"}
    /\ row[n].attempts < MaxAttempts /\ row[n].resends < MaxResends
    /\ row'[n] = Requeued(row[n])
    /\ log'[n] = [log[n] EXCEPT ![row[n].attempts + 1] = "sending"]

Ended(n, w, to, retry) ==
    /\ pc[w] # "ready" /\ now[w].notice = n /\ Current(now[w])
    /\ \/ pc[w] = "delivered" /\ to = "sent" /\ ~retry
       \/ to = "failed" /\ (retry => now[w].cycle < MaxCycle)
    /\ row'[n] = [row[n] EXCEPT !.status = to, !.retryable = retry, !.ripe = FALSE]
    /\ log'[n] = [log[n] EXCEPT ![row[n].attempts] = to]

Ripened(n) ==
    /\ row'[n] = [row[n] EXCEPT !.ripe = TRUE]
    /\ log'[n] = log[n]

(* A claimed notice has one attempt more.                                  *)
LEMMA ClaimTakes ==
    ASSUME TypeOK, NEW w \in Workers, NEW S \in SUBSET Notices, Claim(w, S), NEW n \in Notices
    PROVE  IF n \in S THEN Taken(n) ELSE Kept(n)
<1>1. row[n] \in RowType
  BY DEF TypeOK
<1>2. CASE n \in S
  <2>1. row'[n] = Claimed(row[n]) /\ Due(n) /\ row[n].attempts < MaxAttempts
    BY <1>2 DEF Claim
  <2>2. row'[n].attempts = row[n].attempts + 1
    BY <1>1, <2>1 DEF Claimed, RowType
  <2>3. log'[n] = [log[n] EXCEPT ![row'[n].attempts] = "sending"]
    BY <1>2 DEF Claim
  <2> QED
    BY <1>2, <2>1, <2>2, <2>3 DEF Taken, Due
<1>3. CASE n \notin S
  BY <1>3 DEF Claim, Kept
<1> QED
  BY <1>2, <1>3

(* A notice asked for again has one attempt more, under a new key.         *)
LEMMA RequeueAsks ==
    ASSUME TypeOK, NEW w \in Workers, NEW m \in Notices, Requeue(w, m), NEW n \in Notices
    PROVE  IF n = m THEN AskedAgain(n) ELSE Kept(n)
<1>1. row[n] \in RowType /\ row \in [Notices -> RowType]
      /\ log \in [Notices -> [Attempts -> {"none", "sending", "sent", "failed"}]]
  BY DEF TypeOK
<1>2. CASE n = m
  <2>1. row'[n] = Requeued(row[n])
    BY <1>1, <1>2 DEF Requeue
  <2>2. row'[n].attempts = row[n].attempts + 1
    BY <1>1, <2>1 DEF Requeued, RowType
  <2>3. log'[n] = [log[n] EXCEPT ![row'[n].attempts] = "sending"]
    BY <1>1, <1>2 DEF Requeue
  <2> QED
    BY <1>2, <2>1, <2>2, <2>3 DEF AskedAgain, Requeue
<1>3. CASE n # m
  BY <1>1, <1>3 DEF Requeue, Kept
<1> QED
  BY <1>2, <1>3

(* A completion ends the attempt of its own claim, or does nothing.        *)
LEMMA CompleteEnds ==
    ASSUME TypeOK, NEW w \in Workers, Complete(w), NEW n \in Notices
    PROVE  \/ Kept(n)
           \/ \E to \in {"sent", "failed"}, retry \in BOOLEAN : Ended(n, w, to, retry)
<1>1. /\ row \in [Notices -> RowType]
      /\ log \in [Notices -> [Attempts -> {"none", "sending", "sent", "failed"}]]
      /\ now[w] \in Claims /\ pc[w] # "ready"
  BY DEF TypeOK, Complete
<1>2. ASSUME NEW to \in {"sent", "failed"}, NEW retry \in BOOLEAN, Completed(now[w], to, retry),
             \/ pc[w] = "delivered" /\ to = "sent" /\ ~retry
             \/ to = "failed" /\ (retry => now[w].cycle < MaxCycle)
      PROVE  Kept(n) \/ Ended(n, w, to, retry)
  <2>1. CASE Current(now[w]) /\ now[w].notice = n
    <3>1. row'[n] = [row[n] EXCEPT !.status = to, !.retryable = retry, !.ripe = FALSE]
      BY <1>1, <1>2, <2>1 DEF Completed
    <3>2. log'[n] = [log[n] EXCEPT ![row[n].attempts] = to]
      BY <1>1, <1>2, <2>1 DEF Completed, Current
    <3> QED
      BY <1>1, <1>2, <2>1, <3>1, <3>2 DEF Ended
  <2>2. CASE Current(now[w]) /\ now[w].notice # n
    BY <1>1, <1>2, <2>2 DEF Completed, Kept
  <2>3. CASE ~Current(now[w])
    BY <1>2, <2>3 DEF Completed, Kept, rows
  <2> QED
    BY <2>1, <2>2, <2>3
<1>3. Retryable(w) \in BOOLEAN /\ (Retryable(w) => now[w].cycle < MaxCycle)
  BY DEF Retryable
<1>4. \/ pc[w] = "delivered" /\ Completed(now[w], "sent", FALSE)
      \/ Completed(now[w], "failed", Retryable(w))
  BY DEF Complete
<1> QED
  BY <1>2, <1>3, <1>4

(* These are all the effects there are.                                    *)
LEMMA RowCases ==
    ASSUME TypeOK, [Next]_vars, NEW n \in Notices
    PROVE  \/ Kept(n) \/ Written(n) \/ Taken(n) \/ AskedAgain(n) \/ Ripened(n)
           \/ \E w \in Workers, to \in {"sent", "failed"}, retry \in BOOLEAN :
                 Ended(n, w, to, retry)
<1>1. ASSUME UNCHANGED rows
      PROVE  Kept(n)
  BY <1>1 DEF rows, Kept
<1>2. ASSUME NEW w \in Workers, NEW S \in SUBSET Notices, Claim(w, S)
      PROVE  Kept(n) \/ Taken(n)
  BY <1>2, ClaimTakes
<1>3. ASSUME NEW w \in Workers, NEW m \in Notices, Requeue(w, m)
      PROVE  Kept(n) \/ AskedAgain(n)
  BY <1>3, RequeueAsks
<1>4. ASSUME NEW w \in Workers, Deliver(w) \/ FailToComplete(w) \/ Crash(w)
      PROVE  \/ Kept(n)
             \/ \E to \in {"sent", "failed"}, retry \in BOOLEAN : Ended(n, w, to, retry)
  <2>1. CASE Complete(w)
    BY <2>1, CompleteEnds
  <2>2. CASE ~Complete(w)
    BY <1>1, <1>4, <2>2 DEF Deliver, Push, Delivered, Refused, Unanswered, Answer,
       FailToComplete, Crash
  <2> QED
    BY <2>1, <2>2
<1>5. ASSUME NEW m \in Notices, Finalize(m)
      PROVE  Kept(n) \/ Written(n)
  BY <1>5 DEF Finalize, Written, Kept, TypeOK
<1>6. ASSUME NEW m \in Notices, Elapse(m)
      PROVE  Kept(n) \/ Ripened(n)
  BY <1>6 DEF Elapse, Ripened, Kept, TypeOK
<1>7. CASE (\E p \in wire : Accept(p[1], p[2])) \/ (\E k \in known : Forget(k)) \/ UNCHANGED vars
  BY <1>1, <1>7 DEF Accept, Forget, vars
<1> QED
  BY <1>2, <1>3, <1>4, <1>5, <1>6, <1>7 DEF Next

-----------------------------------------------------------------------------
(***************************************************************************)
(* Type correctness.  A cycle counts some of the attempts, which is why    *)
(* its number stays within their bound; a claim is of attempts made.       *)
(***************************************************************************)
CycleInv == \A n \in Notices : row[n].cycle <= row[n].attempts

(* The fields of a typed row. *)
LEMMA RowFields ==
    ASSUME NEW r \in RowType
    PROVE  /\ r.status \in {"none", "pending", "sending", "sent", "failed"}
           /\ r.retryable \in BOOLEAN /\ r.ripe \in BOOLEAN
           /\ r.attempts \in 0..MaxAttempts /\ r.cycle \in 0..MaxAttempts
           /\ r.key \in Keys /\ r.resends \in 0..MaxResends
           /\ r.attempts \in Nat /\ r.cycle \in Nat /\ r.resends \in Nat /\ r.key \in Nat
<1>1. /\ r.status \in {"none", "pending", "sending", "sent", "failed"}
      /\ r.retryable \in BOOLEAN /\ r.ripe \in BOOLEAN
      /\ r.attempts \in 0..MaxAttempts /\ r.cycle \in 0..MaxAttempts
      /\ r.key \in Keys /\ r.resends \in 0..MaxResends
  BY DEF RowType
<1>2. r.key \in Nat
  BY <1>1, Bounds
<1>3. MaxAttempts \in Nat /\ MaxResends \in Nat
  BY Bounds
<1>4. r.attempts \in Nat /\ r.cycle \in Nat /\ r.resends \in Nat
  BY <1>1, <1>3
<1> QED
  BY <1>1, <1>2, <1>4

(* What a claim makes of a row.                                            *)
LEMMA ClaimedFields ==
    ASSUME NEW r \in RowType, r.attempts < MaxAttempts, r.cycle <= r.attempts
    PROVE  /\ Claimed(r) \in RowType
           /\ Claimed(r).status = "sending" /\ Claimed(r).retryable = r.retryable
           /\ Claimed(r).attempts = r.attempts + 1 /\ Claimed(r).cycle = r.cycle + 1
           /\ Claimed(r).key = r.key /\ Claimed(r).resends = r.resends
<1>1. r.attempts + 1 \in 0..MaxAttempts /\ r.cycle + 1 \in 0..MaxAttempts
  BY Bounds, RowFields
<1> QED
  BY <1>1 DEF Claimed, RowType

(* What a resend makes of a row.                                           *)
LEMMA RequeuedFields ==
    ASSUME NEW r \in RowType, r.attempts < MaxAttempts, r.resends < MaxResends
    PROVE  /\ Requeued(r) \in RowType
           /\ Requeued(r).status = "sending" /\ Requeued(r).retryable
           /\ Requeued(r).attempts = r.attempts + 1 /\ Requeued(r).cycle = 1
           /\ Requeued(r).key = r.resends + 1 /\ Requeued(r).resends = r.resends + 1
<1>1. /\ r.attempts + 1 \in 0..MaxAttempts /\ 1 \in 0..MaxAttempts
      /\ r.resends + 1 \in 0..MaxResends /\ r.resends + 1 \in Keys
  BY Bounds, RowFields
<1> QED
  BY <1>1 DEF Requeued, RowType

(* The fields of the row after each effect.                                *)
LEMMA RowShapes ==
    ASSUME NEW n \in Notices, row[n] \in RowType, CycleInv
    PROVE  /\ Written(n) =>
                /\ row'[n] \in RowType
                /\ row'[n].status = "pending" /\ row'[n].attempts = row[n].attempts
                /\ row'[n].cycle = row[n].cycle /\ row'[n].key = row[n].key
                /\ row'[n].resends = row[n].resends
           /\ Taken(n) =>
                /\ row'[n] \in RowType
                /\ row'[n].status = "sending" /\ row'[n].attempts = row[n].attempts + 1
                /\ row'[n].cycle = row[n].cycle + 1 /\ row'[n].key = row[n].key
                /\ row'[n].resends = row[n].resends
           /\ AskedAgain(n) =>
                /\ row'[n] \in RowType
                /\ row'[n].status = "sending" /\ row'[n].attempts = row[n].attempts + 1
                /\ row'[n].cycle = 1 /\ row'[n].key = row[n].resends + 1
                /\ row'[n].resends = row[n].resends + 1
           /\ Ripened(n) =>
                /\ row'[n] \in RowType
                /\ row'[n].status = row[n].status /\ row'[n].attempts = row[n].attempts
                /\ row'[n].cycle = row[n].cycle /\ row'[n].key = row[n].key
                /\ row'[n].resends = row[n].resends /\ row'[n].retryable = row[n].retryable
           /\ \A w \in Workers, to \in {"sent", "failed"}, retry \in BOOLEAN :
                Ended(n, w, to, retry) =>
                  /\ row'[n] \in RowType
                  /\ row'[n].status = to /\ row'[n].attempts = row[n].attempts
                  /\ row'[n].cycle = row[n].cycle /\ row'[n].key = row[n].key
                  /\ row'[n].resends = row[n].resends /\ row'[n].retryable = retry
<1>1. row[n].cycle <= row[n].attempts
  BY DEF CycleInv
<1>2. Written(n) =>
        /\ row'[n] \in RowType
        /\ row'[n].status = "pending" /\ row'[n].attempts = row[n].attempts
        /\ row'[n].cycle = row[n].cycle /\ row'[n].key = row[n].key
        /\ row'[n].resends = row[n].resends
  BY DEF Written, RowType
<1>3. Taken(n) =>
        /\ row'[n] \in RowType
        /\ row'[n].status = "sending" /\ row'[n].attempts = row[n].attempts + 1
        /\ row'[n].cycle = row[n].cycle + 1 /\ row'[n].key = row[n].key
        /\ row'[n].resends = row[n].resends
  BY <1>1, ClaimedFields DEF Taken
<1>4. AskedAgain(n) =>
        /\ row'[n] \in RowType
        /\ row'[n].status = "sending" /\ row'[n].attempts = row[n].attempts + 1
        /\ row'[n].cycle = 1 /\ row'[n].key = row[n].resends + 1
        /\ row'[n].resends = row[n].resends + 1
  BY RequeuedFields DEF AskedAgain
<1>5. Ripened(n) =>
        /\ row'[n] \in RowType
        /\ row'[n].status = row[n].status /\ row'[n].attempts = row[n].attempts
        /\ row'[n].cycle = row[n].cycle /\ row'[n].key = row[n].key
        /\ row'[n].resends = row[n].resends /\ row'[n].retryable = row[n].retryable
  BY DEF Ripened, RowType
<1>6. ASSUME NEW w \in Workers, NEW to \in {"sent", "failed"}, NEW retry \in BOOLEAN,
             Ended(n, w, to, retry)
      PROVE  /\ row'[n] \in RowType
             /\ row'[n].status = to /\ row'[n].attempts = row[n].attempts
             /\ row'[n].cycle = row[n].cycle /\ row'[n].key = row[n].key
             /\ row'[n].resends = row[n].resends /\ row'[n].retryable = retry
  BY <1>6 DEF Ended, RowType
<1> QED
  BY <1>2, <1>3, <1>4, <1>5, <1>6

(* The tables keep their domains.                                          *)
LEMMA Tables ==
    ASSUME TypeOK, [Next]_vars
    PROVE  row' = [n \in Notices |-> row'[n]] /\ log' = [n \in Notices |-> log'[n]]
<1>1. row = [n \in Notices |-> row[n]] /\ log = [n \in Notices |-> log[n]]
  BY DEF TypeOK
<1>2. ASSUME UNCHANGED rows
      PROVE  row' = [n \in Notices |-> row'[n]] /\ log' = [n \in Notices |-> log'[n]]
  BY <1>1, <1>2 DEF rows
<1>3. ASSUME NEW w \in Workers, Complete(w)
      PROVE  row' = [n \in Notices |-> row'[n]] /\ log' = [n \in Notices |-> log'[n]]
  BY <1>1, <1>2, <1>3 DEF Complete, Completed
<1>4. ASSUME NEW w \in Workers, Push(w) \/ Delivered(w) \/ Refused(w) \/ Unanswered(w)
                                 \/ FailToComplete(w) \/ Crash(w)
      PROVE  row' = [n \in Notices |-> row'[n]] /\ log' = [n \in Notices |-> log'[n]]
  BY <1>2, <1>4 DEF Push, Delivered, Refused, Unanswered, Answer, FailToComplete, Crash
<1>5. ASSUME NEW w \in Workers, NEW S \in SUBSET Notices, Claim(w, S)
      PROVE  row' = [n \in Notices |-> row'[n]] /\ log' = [n \in Notices |-> log'[n]]
  BY <1>5 DEF Claim
<1>6. ASSUME NEW n \in Notices, Finalize(n) \/ Elapse(n) \/ (\E w \in Workers : Requeue(w, n))
      PROVE  row' = [m \in Notices |-> row'[m]] /\ log' = [m \in Notices |-> log'[m]]
  BY <1>1, <1>6 DEF Finalize, Elapse, Requeue
<1>7. CASE (\E p \in wire : Accept(p[1], p[2])) \/ (\E k \in known : Forget(k)) \/ UNCHANGED vars
  BY <1>2, <1>7 DEF Accept, Forget, vars
<1> QED
  BY <1>3, <1>4, <1>5, <1>6, <1>7 DEF Next, Deliver

(* Rows and their log keep their types, and cycles stay within attempts.   *)
LEMMA RowTypeStep ==
    ASSUME TypeOK, CycleInv, [Next]_vars
    PROVE  /\ row' \in [Notices -> RowType] /\ CycleInv'
           /\ log' \in [Notices -> [Attempts -> {"none", "sending", "sent", "failed"}]]
<1> DEFINE L == [Attempts -> {"none", "sending", "sent", "failed"}]
<1>1. ASSUME NEW n \in Notices
      PROVE  row'[n] \in RowType /\ row'[n].cycle <= row'[n].attempts /\ log'[n] \in L
  <2>1. row[n] \in RowType /\ log[n] \in L /\ row[n].cycle <= row[n].attempts
    BY DEF TypeOK, CycleInv
  <2>2. /\ row[n].attempts \in Nat /\ row[n].cycle \in Nat
    BY <2>1, RowFields
  <2> HIDE DEF L
  <2>3. CASE Kept(n)
    BY <2>1, <2>3 DEF Kept
  <2>4. CASE Written(n) \/ Ripened(n)
    <3>1. log'[n] = log[n]
      BY <2>4 DEF Written, Ripened
    <3> QED
      BY <2>1, <2>4, <3>1, RowShapes
  <2>5. CASE Taken(n) \/ AskedAgain(n)
    <3>1. log'[n] = [log[n] EXCEPT ![row[n].attempts + 1] = "sending"]
      BY <2>5 DEF Taken, AskedAgain
    <3>2. log'[n] \in L
      BY <2>1, <3>1 DEF L
    <3> QED
      BY <2>1, <2>2, <2>5, <3>2, RowShapes
  <2>6. ASSUME NEW w \in Workers, NEW to \in {"sent", "failed"}, NEW retry \in BOOLEAN,
               Ended(n, w, to, retry)
        PROVE  row'[n] \in RowType /\ row'[n].cycle <= row'[n].attempts /\ log'[n] \in L
    <3>1. log'[n] = [log[n] EXCEPT ![row[n].attempts] = to]
      BY <2>6 DEF Ended
    <3>2. log'[n] \in L
      BY <2>1, <3>1 DEF L
    <3> QED
      BY <2>1, <2>6, <3>2, RowShapes
  <2> QED
    BY <2>3, <2>4, <2>5, <2>6, RowCases
<1> HIDE DEF L
<1>2. row' \in [Notices -> RowType] /\ log' \in [Notices -> L]
  BY <1>1, Tables
<1> QED
  BY <1>1, <1>2 DEF L, CycleInv

(* What the RPCs return are claims.                                        *)
LEMMA ClaimOfType ==
    ASSUME TypeOK, CycleInv, NEW n \in Notices, Taken(n) \/ AskedAgain(n)
    PROVE  ClaimOf(n) \in Claims
<1>1. row[n] \in RowType /\ row[n].cycle <= row[n].attempts
  BY DEF TypeOK, CycleInv
<1>2. row'[n] \in RowType /\ row'[n].attempts = row[n].attempts + 1
      /\ row'[n].cycle \in {row[n].cycle + 1, 1} /\ row[n].attempts < MaxAttempts
  BY <1>1, RowShapes DEF Taken, AskedAgain
<1>3. row[n].attempts \in Nat /\ row[n].cycle \in Nat /\ MaxAttempts \in Nat
  BY <1>1, Bounds, RowFields
<1>4. row'[n].attempts \in Attempts /\ row'[n].cycle \in Attempts
  BY <1>1, <1>2, <1>3 DEF Attempts
<1>5. row'[n].key \in Keys
  BY <1>2, RowFields
<1> QED
  BY <1>4, <1>5 DEF ClaimOf, Claims

(* Workers and their claims keep their types.                              *)
LEMMA WorkerTypeStep ==
    ASSUME TypeOK, CycleInv, [Next]_vars
    PROVE  /\ pc' \in [Workers -> {"ready", "pushing", "delivered", "refused", "unanswered"}]
           /\ todo' \in [Workers -> SUBSET Claims]
           /\ now' \in [Workers -> Claims \cup {NoClaim}]
           /\ \A w \in Workers : now'[w] = NoClaim <=> pc'[w] = "ready"
           /\ faults' \in 0..MaxFaults
<1> DEFINE PC == {"ready", "pushing", "delivered", "refused", "unanswered"}
           Goal == /\ pc' \in [Workers -> PC] /\ todo' \in [Workers -> SUBSET Claims]
                   /\ now' \in [Workers -> Claims \cup {NoClaim}]
                   /\ \A w \in Workers : now'[w] = NoClaim <=> pc'[w] = "ready"
                   /\ faults' \in 0..MaxFaults
<1>1. /\ pc \in [Workers -> PC] /\ todo \in [Workers -> SUBSET Claims]
      /\ now \in [Workers -> Claims \cup {NoClaim}]
      /\ \A w \in Workers : now[w] = NoClaim <=> pc[w] = "ready"
      /\ faults \in 0..MaxFaults
      /\ MaxFaults \in Nat /\ NoClaim \notin Claims
  BY Bounds, NoClaimAssumption DEF TypeOK
<1>2. ASSUME UNCHANGED <<workers, faults>>
      PROVE  Goal
  BY <1>1, <1>2 DEF workers
<1>3. ASSUME NEW w \in Workers, NEW S \in SUBSET Notices, Claim(w, S)
      PROVE  Goal
  <2>1. \A n \in S : ClaimOf(n) \in Claims
    BY <1>3, ClaimTakes, ClaimOfType
  <2>2. {ClaimOf(n) : n \in S} \in SUBSET Claims
    BY <2>1
  <2> QED
    BY <1>1, <1>3, <2>2 DEF Claim
<1>4. ASSUME NEW w \in Workers, NEW n \in Notices, Requeue(w, n)
      PROVE  Goal
  <2>1. ClaimOf(n) \in Claims
    BY <1>4, RequeueAsks, ClaimOfType
  <2> QED
    BY <1>1, <1>4, <2>1 DEF Requeue
<1>5. ASSUME NEW w \in Workers, Push(w)
      PROVE  Goal
  BY <1>1, <1>5 DEF Push
<1>6. ASSUME NEW w \in Workers, Delivered(w) \/ Refused(w) \/ Unanswered(w)
      PROVE  Goal
  BY <1>1, <1>6 DEF Delivered, Refused, Unanswered, Answer
<1>7. ASSUME NEW w \in Workers, Complete(w)
      PROVE  Goal
  BY <1>1, <1>7 DEF Complete, Rest
<1>8. ASSUME NEW w \in Workers, FailToComplete(w)
      PROVE  Goal
  BY <1>1, <1>8 DEF FailToComplete, Rest
<1>9. ASSUME NEW w \in Workers, Crash(w)
      PROVE  Goal
  BY <1>1, <1>9 DEF Crash
<1>10. ASSUME \/ \E n \in Notices : Finalize(n) \/ Elapse(n)
              \/ \E p \in wire : Accept(p[1], p[2])
              \/ \E k \in known : Forget(k)
              \/ UNCHANGED vars
       PROVE  Goal
  BY <1>2, <1>10 DEF Finalize, Elapse, Accept, Forget, vars
<1> HIDE DEF Goal
<1>11. ASSUME NEW w \in Workers, Deliver(w)
       PROVE  Goal
  BY <1>5, <1>6, <1>7, <1>11 DEF Deliver
<1>12. Goal
  BY <1>3, <1>4, <1>8, <1>9, <1>10, <1>11 DEF Next
<1> QED
  BY <1>12 DEF Goal

(* What LINE holds keeps its type.                                         *)
LEMMA LineTypeStep ==
    ASSUME TypeOK, [Next]_vars
    PROVE  /\ wire' \subseteq Claims \X {Env[w] : w \in Workers}
           /\ known' \subseteq {Env[w] : w \in Workers} \X Notices \X Keys
           /\ copies' \in [Notices -> [Keys -> Nat]]
<1> DEFINE E == {Env[w] : w \in Workers}
           Goal == /\ wire' \subseteq Claims \X E /\ known' \subseteq E \X Notices \X Keys
                   /\ copies' \in [Notices -> [Keys -> Nat]]
<1>1. /\ wire \subseteq Claims \X E /\ known \subseteq E \X Notices \X Keys
      /\ copies \in [Notices -> [Keys -> Nat]]
      /\ todo \in [Workers -> SUBSET Claims]
  BY DEF TypeOK
<1>2. ASSUME UNCHANGED line
      PROVE  Goal
  BY <1>1, <1>2 DEF line
<1>3. ASSUME NEW w \in Workers, Push(w)
      PROVE  Goal
  <2>1. PICK c \in todo[w] : wire' = wire \cup {<<c, Env[w]>>}
    BY <1>3 DEF Push
  <2>2. <<c, Env[w]>> \in Claims \X E
    BY <1>1
  <2>3. known' = known /\ copies' = copies
    BY <1>3 DEF Push
  <2> QED
    BY <1>1, <2>1, <2>2, <2>3
<1>4. ASSUME NEW w \in Workers, Delivered(w) \/ Refused(w) \/ Unanswered(w)
      PROVE  Goal
  BY <1>1, <1>4 DEF Delivered, Refused, Unanswered, Answer
<1>5. ASSUME NEW c, NEW e, Accept(c, e)
      PROVE  Goal
  <2>1. c \in Claims /\ e \in E
    BY <1>1, <1>5 DEF Accept
  <2>2. c.notice \in Notices /\ c.key \in Keys
    BY <2>1 DEF Claims
  <2>3. copies[c.notice] \in [Keys -> Nat] /\ copies[c.notice][c.key] + 1 \in Nat
    BY <1>1, <2>2
  <2>4. <<e, c.notice, c.key>> \in E \X Notices \X Keys
    BY <2>1, <2>2
  <2> HIDE DEF E
  <2>5. known' \subseteq known \cup {<<e, c.notice, c.key>>}
    BY <1>5 DEF Accept
  <2>6. wire' = wire \ {<<c, e>>}
    BY <1>5 DEF Accept
  <2>7. \/ copies' = copies
        \/ copies' = [copies EXCEPT ![c.notice][c.key] = @ + 1]
    BY <1>5 DEF Accept
  <2>8. copies' \in [Notices -> [Keys -> Nat]]
    BY <1>1, <2>2, <2>3, <2>7
  <2> QED
    BY <1>1, <2>4, <2>5, <2>6, <2>8
<1>6. ASSUME NEW w \in Workers,
             \/ \E S \in SUBSET Notices : Claim(w, S)
             \/ \E n \in Notices : Requeue(w, n)
             \/ Complete(w) \/ FailToComplete(w) \/ Crash(w)
      PROVE  Goal
  BY <1>2, <1>6 DEF Claim, Requeue, Complete, FailToComplete, Crash
<1>7. ASSUME \/ \E n \in Notices : Finalize(n) \/ Elapse(n)
             \/ \E k \in known : Forget(k)
             \/ UNCHANGED vars
      PROVE  Goal
  BY <1>1, <1>2, <1>7 DEF Finalize, Elapse, Forget, vars, line
<1> HIDE DEF Goal
<1>8. ASSUME NEW w \in Workers, Deliver(w)
      PROVE  Goal
  BY <1>3, <1>4, <1>6, <1>8 DEF Deliver
<1>9. Goal
  BY <1>5, <1>6, <1>7, <1>8 DEF Next
<1> QED
  BY <1>9 DEF Goal

(* The initial state is typed.                                             *)
LEMMA TypeInit == Init => TypeOK /\ CycleInv
<1> SUFFICES ASSUME Init PROVE TypeOK /\ CycleInv
  OBVIOUS
<1>1. /\ MaxAttempts \in Nat /\ MaxResends \in Nat /\ 0 \in 0..MaxAttempts
      /\ 0 \in 0..MaxResends /\ 0 \in 0..MaxFaults /\ 0 \in Keys
  BY Bounds
<1>2. Absent \in RowType
  BY <1>1 DEF Absent, RowType
<1>3. Absent.cycle <= Absent.attempts
  BY DEF Absent
<1> QED
  BY <1>1, <1>2, <1>3 DEF Init, TypeOK, CycleInv

(* Every step keeps the types.                                             *)
LEMMA TypeStep == TypeOK /\ CycleInv /\ [Next]_vars => TypeOK' /\ CycleInv'
<1> SUFFICES ASSUME TypeOK, CycleInv, [Next]_vars PROVE TypeOK' /\ CycleInv'
  OBVIOUS
<1> QED
  BY RowTypeStep, WorkerTypeStep, LineTypeStep DEF TypeOK

(* The types always hold. *)
LEMMA TypesHold == Spec => [](TypeOK /\ CycleInv)
BY TypeInit, TypeStep, PTL DEF Spec

(* Every variable keeps its type.                                          *)
THEOREM TypeCorrect == Spec => []TypeOK
BY TypesHold, PTL

-----------------------------------------------------------------------------
(***************************************************************************)
(* Rows and claims.  A claim that is still somewhere, with a worker or on  *)
(* the wire, is of an attempt the row has made; when it is the row's last  *)
(* one the row has not changed its key or cycle since.  No two workers     *)
(* have the same attempt.                                                  *)
(***************************************************************************)
RowInv ==
    \A n \in Notices :
        /\ row[n].key = row[n].resends
        /\ row[n].attempts = 0 <=> row[n].status \in {"none", "pending"}

Made(c) ==
    /\ c.attempt <= row[c.notice].attempts
    /\ c.key <= row[c.notice].resends
    /\ c.attempt = row[c.notice].attempts
         => c.key = row[c.notice].key /\ c.cycle = row[c.notice].cycle

Carries(w, c) == c \in todo[w] \/ now[w] = c

ClaimInv ==
    /\ \A w \in Workers : \A c \in Claims : Carries(w, c) => Made(c)
    /\ \A c \in Claims : \A e : <<c, e>> \in wire => Made(c)

UniqueInv ==
    /\ \A v, w \in Workers : \A c, d \in Claims :
          Carries(v, c) /\ Carries(w, d) /\ c.notice = d.notice /\ c.attempt = d.attempt
            => v = w /\ c = d
    /\ \A w \in Workers : now[w] \notin todo[w]

(* Rows stay consistent. *)
LEMMA RowStep == TypeOK /\ CycleInv /\ RowInv /\ [Next]_vars => RowInv'
<1> SUFFICES ASSUME TypeOK, CycleInv, RowInv, [Next]_vars, NEW n \in Notices
             PROVE  /\ row'[n].key = row'[n].resends
                    /\ row'[n].attempts = 0 <=> row'[n].status \in {"none", "pending"}
  BY DEF RowInv
<1>1. /\ row[n] \in RowType /\ row[n].key = row[n].resends
      /\ row[n].attempts = 0 <=> row[n].status \in {"none", "pending"}
  BY DEF TypeOK, RowInv
<1>2. row[n].attempts \in Nat
  BY <1>1, RowFields
<1>3. CASE Kept(n)
  BY <1>1, <1>3 DEF Kept
<1>4. CASE Written(n)
  <2>1. row[n].status = "none"
    BY <1>4 DEF Written
  <2> QED
    BY <1>1, <1>4, <2>1, RowShapes
<1>5. CASE Taken(n) \/ AskedAgain(n) \/ Ripened(n)
  BY <1>1, <1>2, <1>5, RowShapes
<1>6. ASSUME NEW w \in Workers, NEW to \in {"sent", "failed"}, NEW retry \in BOOLEAN,
             Ended(n, w, to, retry)
      PROVE  /\ row'[n].key = row'[n].resends
             /\ row'[n].attempts = 0 <=> row'[n].status \in {"none", "pending"}
  <2>1. row[n].status = "sending"
    BY <1>6 DEF Ended, Current
  <2> QED
    BY <1>1, <1>6, <2>1, RowShapes
<1> QED
  BY <1>3, <1>4, <1>5, <1>6, RowCases

(* A row never takes back an attempt or a resend, and changes its key or   *)
(* its cycle only with a new attempt.                                      *)
LEMMA RowGrows ==
    ASSUME TypeOK, CycleInv, [Next]_vars, NEW n \in Notices
    PROVE  /\ row[n].attempts \in Nat /\ row[n].resends \in Nat
           /\ row'[n].attempts \in {row[n].attempts, row[n].attempts + 1}
           /\ row'[n].resends \in {row[n].resends, row[n].resends + 1}
           /\ row'[n].attempts = row[n].attempts =>
                row'[n].key = row[n].key /\ row'[n].cycle = row[n].cycle
<1>1. row[n] \in RowType
  BY DEF TypeOK
<1>2. row[n].attempts \in Nat /\ row[n].resends \in Nat
  BY <1>1, RowFields
<1>3. CASE Kept(n)
  BY <1>2, <1>3 DEF Kept
<1>4. CASE Written(n) \/ Taken(n) \/ AskedAgain(n) \/ Ripened(n)
  BY <1>1, <1>2, <1>4, RowShapes
<1>5. ASSUME NEW w \in Workers, NEW to \in {"sent", "failed"}, NEW retry \in BOOLEAN,
             Ended(n, w, to, retry)
      PROVE  /\ row'[n].attempts = row[n].attempts /\ row'[n].resends = row[n].resends
             /\ row'[n].key = row[n].key /\ row'[n].cycle = row[n].cycle
  BY <1>1, <1>5, RowShapes
<1> QED
  BY <1>2, <1>3, <1>4, <1>5, RowCases

(* The fields of a claim. *)
LEMMA ClaimFields ==
    \A c \in Claims :
        /\ c.notice \in Notices /\ c.attempt \in Attempts /\ c.cycle \in Attempts
        /\ c.key \in Keys /\ c.attempt \in Nat \ {0} /\ c.cycle \in Nat /\ c.key \in Nat
<1>1. \A c \in Claims : /\ c.notice \in Notices /\ c.attempt \in Attempts
                        /\ c.cycle \in Attempts /\ c.key \in Keys
  BY DEF Claims
<1> QED
  BY <1>1, Bounds

(* A claim that was made stays made. *)
LEMMA MadeKept ==
    ASSUME TypeOK, CycleInv, [Next]_vars, NEW c \in Claims, Made(c)
    PROVE  Made(c)'
<1> DEFINE n == c.notice
<1>1. n \in Notices /\ c.attempt \in Nat /\ c.key \in Nat
  BY ClaimFields
<1>2. /\ row[n].attempts \in Nat /\ row[n].resends \in Nat
      /\ row'[n].attempts \in {row[n].attempts, row[n].attempts + 1}
      /\ row'[n].resends \in {row[n].resends, row[n].resends + 1}
      /\ row'[n].attempts = row[n].attempts =>
           row'[n].key = row[n].key /\ row'[n].cycle = row[n].cycle
  BY <1>1, RowGrows
<1>3. /\ c.attempt <= row[n].attempts /\ c.key <= row[n].resends
      /\ c.attempt = row[n].attempts => c.key = row[n].key /\ c.cycle = row[n].cycle
  BY DEF Made
<1> HIDE DEF n
<1>4. /\ c.attempt <= row'[n].attempts /\ c.key <= row'[n].resends
      /\ c.attempt = row'[n].attempts => c.key = row'[n].key /\ c.cycle = row'[n].cycle
  BY <1>1, <1>2, <1>3
<1> QED
  BY <1>4 DEF Made, n

(* What an RPC returns was made, and made just now. *)
LEMMA MadeNew ==
    ASSUME TypeOK, CycleInv, RowInv', NEW n \in Notices, Taken(n) \/ AskedAgain(n),
           NEW c, c = ClaimOf(n)
    PROVE  /\ c \in Claims /\ c.notice = n /\ Made(c)'
           /\ c.attempt > row[n].attempts
<1>1. row[n] \in RowType
  BY DEF TypeOK
<1>2. row'[n] \in RowType /\ row'[n].attempts = row[n].attempts + 1
  BY <1>1, RowShapes
<1>3. row[n].attempts \in Nat /\ row'[n].attempts \in Nat /\ row'[n].resends \in Nat
  BY <1>1, <1>2, RowFields
<1>4. c \in Claims
  BY ClaimOfType
<1>5. /\ c.notice = n /\ c.attempt = row'[n].attempts /\ c.cycle = row'[n].cycle
      /\ c.key = row'[n].key
  BY DEF ClaimOf
<1>6. row'[n].key = row'[n].resends
  BY DEF RowInv
<1> QED
  BY <1>2, <1>3, <1>4, <1>5, <1>6 DEF Made

(* The calls by which a worker comes by claims. *)
Asks(w) ==
    \/ \E S \in SUBSET Notices : Claim(w, S)
    \/ \E n \in Notices : Requeue(w, n)

(* A worker that asks has only new claims afterwards.                      *)
LEMMA AskedCarries ==
    ASSUME TypeOK, CycleInv, NEW w \in Workers, Asks(w)
    PROVE  /\ now' = now /\ now[w] = NoClaim
           /\ \A v \in Workers \ {w} : todo'[v] = todo[v]
           /\ \A c \in todo'[w] : \E n \in Notices :
                 c = ClaimOf(n) /\ (Taken(n) \/ AskedAgain(n))
<1>1. todo \in [Workers -> SUBSET Claims] /\ (now[w] = NoClaim <=> pc[w] = "ready")
  BY DEF TypeOK
<1>2. CASE \E S \in SUBSET Notices : Claim(w, S)
  <2>1. PICK S \in SUBSET Notices : Claim(w, S)
    BY <1>2
  <2>2. \A n \in S : Taken(n)
    BY <2>1, ClaimTakes
  <2>3. todo' = [todo EXCEPT ![w] = {ClaimOf(n) : n \in S}] /\ now' = now /\ pc[w] = "ready"
    BY <2>1 DEF Claim, Idle
  <2>4. todo'[w] = {ClaimOf(n) : n \in S} /\ \A v \in Workers \ {w} : todo'[v] = todo[v]
    BY <1>1, <2>3
  <2> QED
    BY <1>1, <2>2, <2>3, <2>4
<1>3. CASE \E n \in Notices : Requeue(w, n)
  <2>1. PICK n \in Notices : Requeue(w, n)
    BY <1>3
  <2>2. AskedAgain(n)
    BY <2>1, RequeueAsks
  <2>3. todo' = [todo EXCEPT ![w] = {ClaimOf(n)}] /\ now' = now /\ pc[w] = "ready"
    BY <2>1 DEF Requeue, Idle
  <2>4. todo'[w] = {ClaimOf(n)} /\ \A v \in Workers \ {w} : todo'[v] = todo[v]
    BY <1>1, <2>3
  <2> QED
    BY <1>1, <2>2, <2>3, <2>4
<1> QED
  BY <1>2, <1>3 DEF Asks

(* When nobody asks, nobody comes by a claim, and none is begun twice.     *)
LEMMA NothingAsked ==
    ASSUME TypeOK, [Next]_vars, \A w \in Workers : ~Asks(w), NEW w \in Workers
    PROVE  /\ \A c \in Claims : c \in todo'[w] \/ now'[w] = c => Carries(w, c)
           /\ now[w] \notin todo[w] => now'[w] \notin todo'[w]
<1> DEFINE Goal == /\ \A c \in Claims : c \in todo'[w] \/ now'[w] = c => Carries(w, c)
                   /\ now[w] \notin todo[w] => now'[w] \notin todo'[w]
<1>1. /\ todo \in [Workers -> SUBSET Claims] /\ now \in [Workers -> Claims \cup {NoClaim}]
      /\ NoClaim \notin Claims
  BY NoClaimAssumption DEF TypeOK
<1>2. ASSUME UNCHANGED <<todo, now>>
      PROVE  Goal
  BY <1>1, <1>2 DEF Carries
<1>3. ASSUME NEW v \in Workers, Push(v)
      PROVE  Goal
  <2>1. PICK d \in todo[v] : /\ todo' = [todo EXCEPT ![v] = @ \ {d}]
                             /\ now' = [now EXCEPT ![v] = d]
    BY <1>3 DEF Push
  <2>2. CASE v = w
    <3>1. todo'[w] = todo[w] \ {d} /\ now'[w] = d /\ d \in todo[w]
      BY <1>1, <2>1, <2>2
    <3> QED
      BY <3>1 DEF Carries
  <2>3. CASE v # w
    <3>1. todo'[w] = todo[w] /\ now'[w] = now[w]
      BY <1>1, <2>1, <2>3
    <3> QED
      BY <3>1 DEF Carries
  <2> QED
    BY <2>2, <2>3
<1>4. ASSUME NEW v \in Workers, Complete(v) \/ FailToComplete(v) \/ Crash(v)
      PROVE  Goal
  <2>1. \/ todo'[w] = todo[w] /\ now'[w] = now[w]
        \/ todo'[w] \subseteq todo[w] /\ now'[w] = NoClaim
    BY <1>1, <1>4 DEF Complete, FailToComplete, Crash, Rest
  <2>2. todo[w] \subseteq Claims
    BY <1>1
  <2> QED
    BY <1>1, <2>1, <2>2 DEF Carries
<1>5. ASSUME NEW v \in Workers, Delivered(v) \/ Refused(v) \/ Unanswered(v)
      PROVE  Goal
  BY <1>2, <1>5 DEF Delivered, Refused, Unanswered, Answer
<1>6. ASSUME \/ \E n \in Notices : Finalize(n) \/ Elapse(n)
             \/ \E p \in wire : Accept(p[1], p[2])
             \/ \E k \in known : Forget(k)
             \/ UNCHANGED vars
      PROVE  Goal
  BY <1>2, <1>6 DEF Finalize, Elapse, Accept, Forget, vars, workers
<1> HIDE DEF Goal
<1>7. Goal
  BY <1>3, <1>4, <1>5, <1>6 DEF Next, Deliver, Asks
<1> QED
  BY <1>7 DEF Goal

(* Only what a worker had to do is put on the wire.                        *)
LEMMA WireCases ==
    ASSUME [Next]_vars, NEW c, NEW e, <<c, e>> \in wire'
    PROVE  <<c, e>> \in wire \/ \E w \in Workers : c \in todo[w] /\ e = Env[w]
<1>1. ASSUME NEW w \in Workers, Push(w)
      PROVE  <<c, e>> \in wire \/ \E v \in Workers : c \in todo[v] /\ e = Env[v]
  BY <1>1 DEF Push
<1>2. ASSUME NEW w \in Workers,
             \/ Asks(w) \/ Delivered(w) \/ Refused(w) \/ Unanswered(w)
             \/ Complete(w) \/ FailToComplete(w) \/ Crash(w)
      PROVE  <<c, e>> \in wire
  BY <1>2 DEF Asks, Claim, Requeue, Delivered, Refused, Unanswered, Complete, FailToComplete,
     Crash, line
<1>3. ASSUME \/ \E n \in Notices : Finalize(n) \/ Elapse(n)
             \/ \E p \in wire : Accept(p[1], p[2])
             \/ \E k \in known : Forget(k)
             \/ UNCHANGED vars
      PROVE  <<c, e>> \in wire
  BY <1>3 DEF Finalize, Elapse, Accept, Forget, vars, line
<1> QED
  BY <1>1, <1>2, <1>3 DEF Next, Deliver, Asks

(* Claims stay made. *)
LEMMA ClaimStep ==
    TypeOK /\ CycleInv /\ RowInv /\ ClaimInv /\ [Next]_vars => ClaimInv'
<1> SUFFICES ASSUME TypeOK, CycleInv, RowInv, ClaimInv, [Next]_vars, NEW c \in Claims
             PROVE  /\ \A w \in Workers : c \in todo'[w] \/ now'[w] = c => Made(c)'
                    /\ \A e : <<c, e>> \in wire' => Made(c)'
  BY DEF ClaimInv, Carries
<1>1. RowInv'
  BY RowStep
<1>2. ASSUME NEW w \in Workers, Carries(w, c)
      PROVE  Made(c)'
  BY <1>2, MadeKept DEF ClaimInv
<1>3. ASSUME NEW w \in Workers, c \in todo'[w] \/ now'[w] = c
      PROVE  Made(c)'
  <2>1. CASE \A v \in Workers : ~Asks(v)
    BY <1>2, <1>3, <2>1, NothingAsked
  <2>2. ASSUME NEW v \in Workers, Asks(v), v # w \/ now'[w] = c
        PROVE  Made(c)'
    <3>1. now'[w] = now[w] /\ (v # w => todo'[w] = todo[w]) /\ now[v] = NoClaim
      BY <2>2, AskedCarries
    <3> QED
      BY <1>2, <1>3, <2>2, <3>1, NoClaimAssumption DEF Carries
  <2>3. CASE Asks(w) /\ c \in todo'[w]
    <3>1. PICK n \in Notices : c = ClaimOf(n) /\ (Taken(n) \/ AskedAgain(n))
      BY <2>3, AskedCarries
    <3> QED
      BY <1>1, <3>1, MadeNew
  <2> QED
    BY <1>3, <2>1, <2>2, <2>3
<1>4. ASSUME NEW e, <<c, e>> \in wire'
      PROVE  Made(c)'
  <2>1. CASE <<c, e>> \in wire
    BY <2>1, MadeKept DEF ClaimInv
  <2>2. CASE \E w \in Workers : c \in todo[w]
    BY <1>2, <2>2 DEF Carries
  <2> QED
    BY <1>4, <2>1, <2>2, WireCases
<1> QED
  BY <1>3, <1>4

(* Attempts stay with one worker. *)
LEMMA UniqueStep ==
    TypeOK /\ CycleInv /\ RowInv /\ ClaimInv /\ UniqueInv /\ [Next]_vars => UniqueInv'
<1> SUFFICES ASSUME TypeOK, CycleInv, RowInv, ClaimInv, UniqueInv, [Next]_vars
             PROVE  UniqueInv'
  OBVIOUS
<1>1. RowInv'
  BY RowStep
<1>2. CASE \A w \in Workers : ~Asks(w)
  <2>1. \A w \in Workers : \A c \in Claims : c \in todo'[w] \/ now'[w] = c => Carries(w, c)
    BY <1>2, NothingAsked
  <2>2. \A w \in Workers : now'[w] \notin todo'[w]
    BY <1>2, NothingAsked DEF UniqueInv
  <2> QED
    BY <2>1, <2>2 DEF UniqueInv, Carries
<1>3. ASSUME NEW u \in Workers, Asks(u)
      PROVE  UniqueInv'
  <2>1. /\ now' = now /\ now[u] = NoClaim
        /\ \A v \in Workers \ {u} : todo'[v] = todo[v]
        /\ \A c \in todo'[u] : \E n \in Notices :
              c = ClaimOf(n) /\ (Taken(n) \/ AskedAgain(n))
    BY <1>3, AskedCarries
  <2>2. \A c \in todo'[u] : /\ c \in Claims /\ c.notice \in Notices /\ c = ClaimOf(c.notice)
                            /\ c.attempt > row[c.notice].attempts
    <3> TAKE c \in todo'[u]
    <3>1. PICK n \in Notices : c = ClaimOf(n) /\ (Taken(n) \/ AskedAgain(n))
      BY <2>1
    <3>2. c \in Claims /\ c.notice = n /\ c.attempt > row[n].attempts
      BY <1>1, <3>1, MadeNew
    <3> QED
      BY <3>1, <3>2
  <2>3. \A v \in Workers \ {u} : \A c \in Claims :
           c \in todo'[v] \/ now'[v] = c => Carries(v, c) /\ c.attempt <= row[c.notice].attempts
    BY <2>1 DEF Carries, ClaimInv, Made
  <2>4. \A c \in Claims : c \in todo'[u] \/ now'[u] = c => c \in todo'[u]
    BY <2>1, NoClaimAssumption
  <2>5. \A c \in Claims : c.attempt \in Nat /\ row[c.notice].attempts \in Nat
    BY ClaimFields, RowFields DEF TypeOK
  <2>6. ASSUME NEW v \in Workers, NEW w \in Workers, NEW c \in Claims, NEW d \in Claims,
               c \in todo'[v] \/ now'[v] = c, d \in todo'[w] \/ now'[w] = d,
               c.notice = d.notice, c.attempt = d.attempt
        PROVE  v = w /\ c = d
    <3>1. CASE v = u /\ w = u
      BY <2>2, <2>4, <2>6, <3>1
    <3>2. CASE v # u /\ w # u
      BY <2>3, <2>6, <3>2 DEF UniqueInv
    <3>3. CASE v = u /\ w # u
      BY <2>2, <2>3, <2>4, <2>5, <2>6, <3>3
    <3>4. CASE v # u /\ w = u
      BY <2>2, <2>3, <2>4, <2>5, <2>6, <3>4
    <3> QED
      BY <3>1, <3>2, <3>3, <3>4
  <2>7. \A w \in Workers : now'[w] \notin todo'[w]
    BY <2>1, <2>2, NoClaimAssumption DEF UniqueInv
  <2> QED
    BY <2>6, <2>7 DEF UniqueInv, Carries
<1> QED
  BY <1>2, <1>3

-----------------------------------------------------------------------------
(***************************************************************************)
(* What is in the chat.  A key that LINE remembers was delivered, and a    *)
(* worker that has an answer, or whose push has left the wire, knows that  *)
(* its key was.                                                            *)
(***************************************************************************)
KnownInv ==
    \A e, n, k : <<e, n, k>> \in known =>
        n \in Notices /\ k \in Keys /\ copies[n][k] > 0 /\ k <= row[n].resends

DeliveredInv ==
    \A w \in Workers :
        pc[w] = "delivered" \/ (pc[w] = "pushing" /\ Pushed(w) \notin wire)
            => copies[now[w].notice][now[w].key] > 0

(* A step brings at most one copy, and what LINE delivers it remembers.    *)
LEMMA CopyCases ==
    ASSUME TypeOK, [Next]_vars
    PROVE  \/ copies' = copies /\ known' \subseteq known /\ (known' = known \/ KeysExpire)
           \/ \E c \in Claims : \E e :
                 /\ Accept(c, e) /\ <<c, e>> \in wire /\ <<e, c.notice, c.key>> \notin known
                 /\ known' = known \cup {<<e, c.notice, c.key>>}
                 /\ copies' = [copies EXCEPT ![c.notice][c.key] = @ + 1]
<1>1. ASSUME NEW p \in wire, Accept(p[1], p[2])
      PROVE  \/ copies' = copies /\ known' = known
             \/ \E c \in Claims : \E e :
                   /\ Accept(c, e) /\ <<c, e>> \in wire /\ <<e, c.notice, c.key>> \notin known
                   /\ known' = known \cup {<<e, c.notice, c.key>>}
                   /\ copies' = [copies EXCEPT ![c.notice][c.key] = @ + 1]
  <2>1. p[1] \in Claims
    BY DEF TypeOK
  <2> QED
    BY <1>1, <2>1 DEF Accept
<1>2. ASSUME NEW w \in Workers,
             \/ \E S \in SUBSET Notices : Claim(w, S)
             \/ \E n \in Notices : Requeue(w, n)
             \/ Deliver(w) \/ FailToComplete(w) \/ Crash(w)
      PROVE  copies' = copies /\ known' = known
  BY <1>2 DEF Claim, Requeue, Deliver, Push, Delivered, Refused, Unanswered, Answer, Complete,
     FailToComplete, Crash, line
<1>3. ASSUME \/ \E n \in Notices : Finalize(n) \/ Elapse(n)
             \/ \E k \in known : Forget(k)
             \/ UNCHANGED vars
      PROVE  copies' = copies /\ known' \subseteq known /\ (known' = known \/ KeysExpire)
  BY <1>3 DEF Finalize, Elapse, Forget, vars, line
<1> QED
  BY <1>1, <1>2, <1>3 DEF Next

(* The chat loses nothing. *)
LEMMA CopiesStay ==
    ASSUME TypeOK, [Next]_vars, NEW n \in Notices, NEW k \in Keys
    PROVE  copies[n][k] > 0 => copies'[n][k] > 0
<1>1. copies \in [Notices -> [Keys -> Nat]]
  BY DEF TypeOK
<1>2. ASSUME NEW c \in Claims, copies' = [copies EXCEPT ![c.notice][c.key] = @ + 1]
      PROVE  copies[n][k] > 0 => copies'[n][k] > 0
  <2>1. c.notice \in Notices /\ c.key \in Keys
    BY ClaimFields
  <2>2. copies'[n][k] = IF n = c.notice /\ k = c.key THEN copies[n][k] + 1 ELSE copies[n][k]
    BY <1>1, <1>2, <2>1
  <2> QED
    BY <1>1, <2>2
<1> QED
  BY <1>2, CopyCases

(* What LINE remembers is right in every state. *)
LEMMA KnownStep ==
    TypeOK /\ CycleInv /\ ClaimInv /\ KnownInv /\ [Next]_vars => KnownInv'
<1> SUFFICES ASSUME TypeOK, CycleInv, ClaimInv, KnownInv, [Next]_vars,
                    NEW e, NEW n, NEW k, <<e, n, k>> \in known'
             PROVE  n \in Notices /\ k \in Keys /\ copies'[n][k] > 0 /\ k <= row'[n].resends
  BY DEF KnownInv
<1>1. CASE <<e, n, k>> \in known
  <2>1. n \in Notices /\ k \in Keys /\ copies[n][k] > 0 /\ k <= row[n].resends
    BY <1>1 DEF KnownInv
  <2>2. row[n].resends \in Nat /\ row'[n].resends \in {row[n].resends, row[n].resends + 1}
    BY <2>1, RowGrows
  <2>3. k \in Nat
    BY <2>1, Bounds
  <2> QED
    BY <2>1, <2>2, <2>3, CopiesStay
<1>2. CASE <<e, n, k>> \notin known
  <2>1. PICK c \in Claims : \E f :
           /\ Accept(c, f) /\ <<c, f>> \in wire
           /\ known' = known \cup {<<f, c.notice, c.key>>}
           /\ copies' = [copies EXCEPT ![c.notice][c.key] = @ + 1]
    BY <1>2, CopyCases
  <2>2. n = c.notice /\ k = c.key
    BY <1>2, <2>1
  <2>3. n \in Notices /\ k \in Keys /\ k \in Nat
    BY <2>2, ClaimFields
  <2>4. copies \in [Notices -> [Keys -> Nat]]
    BY DEF TypeOK
  <2>5. copies'[n][k] = copies[n][k] + 1 /\ copies[n][k] \in Nat
    BY <2>1, <2>2, <2>3, <2>4
  <2>6. k <= row[n].resends
    BY <2>1, <2>2 DEF ClaimInv, Made
  <2>7. row[n].resends \in Nat /\ row'[n].resends \in {row[n].resends, row[n].resends + 1}
    BY <2>3, RowGrows
  <2> QED
    BY <2>3, <2>5, <2>6, <2>7
<1> QED
  BY <1>1, <1>2

(* An answer is about the worker's own push, because no other worker has   *)
(* the same attempt.                                                       *)
LEMMA DeliveredStep ==
    TypeOK /\ ClaimInv /\ UniqueInv /\ KnownInv /\ DeliveredInv /\ [Next]_vars => DeliveredInv'
<1> SUFFICES ASSUME TypeOK, UniqueInv, KnownInv, DeliveredInv, [Next]_vars, NEW w \in Workers,
                    \/ pc'[w] = "delivered"
                    \/ pc'[w] = "pushing" /\ <<now'[w], Env[w]>> \notin wire'
             PROVE  copies'[now'[w].notice][now'[w].key] > 0
  BY DEF DeliveredInv, Pushed
<1> DEFINE Had == /\ now'[w] = now[w] /\ now[w] \in Claims
                  /\ \/ pc[w] = "delivered"
                     \/ pc[w] = "pushing" /\ Pushed(w) \notin wire
           Goal == copies'[now'[w].notice][now'[w].key] > 0
<1>1. /\ pc \in [Workers -> {"ready", "pushing", "delivered", "refused", "unanswered"}]
      /\ now \in [Workers -> Claims \cup {NoClaim}]
      /\ \A v \in Workers : now[v] = NoClaim <=> pc[v] = "ready"
      /\ todo \in [Workers -> SUBSET Claims]
  BY DEF TypeOK
<1>2. ASSUME Had
      PROVE  Goal
  <2>1. copies[now[w].notice][now[w].key] > 0
    BY <1>2 DEF DeliveredInv
  <2>2. now[w].notice \in Notices /\ now[w].key \in Keys
    BY <1>2, ClaimFields
  <2> QED
    BY <1>2, <2>1, <2>2, CopiesStay
<1>3. ASSUME pc'[w] = pc[w], now'[w] = now[w], wire' = wire
      PROVE  Had
  BY <1>1, <1>3 DEF Pushed
<1>4. ASSUME NEW v \in Workers, Push(v)
      PROVE  Goal
  <2>1. PICK c \in todo[v] : /\ now' = [now EXCEPT ![v] = c]
                             /\ wire' = wire \cup {<<c, Env[v]>>}
    BY <1>4 DEF Push
  <2>2. pc' = [pc EXCEPT ![v] = "pushing"]
    BY <1>4 DEF Push
  <2>3. v # w
    BY <1>1, <2>1, <2>2
  <2>4. pc'[w] = pc[w] /\ now'[w] = now[w]
    BY <1>1, <2>1, <2>2, <2>3
  <2>5. Had
    BY <1>1, <2>1, <2>4 DEF Pushed
  <2> QED
    BY <1>2, <2>5
<1>5. ASSUME NEW v \in Workers, Delivered(v)
      PROVE  Goal
  <2>1. /\ pc[v] = "pushing" /\ Pushed(v) \notin wire /\ wire' = wire
        /\ pc' = [pc EXCEPT ![v] = "delivered"] /\ now' = now
    BY <1>5 DEF Delivered, Answer
  <2>2. Had
    BY <1>1, <2>1 DEF Pushed
  <2> QED
    BY <1>2, <2>2
<1>6. ASSUME NEW v \in Workers, Refused(v)
      PROVE  Goal
  <2>1. /\ pc[v] = "pushing" /\ Pushed(v) \in wire /\ wire' = wire \ {Pushed(v)}
        /\ pc' = [pc EXCEPT ![v] = "refused"] /\ now' = now
    BY <1>6 DEF Refused, Answer
  <2>2. v # w
    BY <1>1, <2>1
  <2>3. pc'[w] = pc[w] /\ now'[w] = now[w] /\ now[w] \in Claims /\ now[v] \in Claims
    BY <1>1, <2>1, <2>2
  <2>4. now[v] # now[w]
    BY <2>2, <2>3 DEF UniqueInv, Carries
  <2>5. Pushed(v) # Pushed(w)
    BY <2>4 DEF Pushed
  <2>6. Had
    BY <2>1, <2>3, <2>5 DEF Pushed
  <2> QED
    BY <1>2, <2>6
<1>7. ASSUME NEW v \in Workers, Unanswered(v)
      PROVE  Goal
  <2>1. pc' = [pc EXCEPT ![v] = "unanswered"] /\ now' = now /\ wire' = wire
    BY <1>7 DEF Unanswered, Answer
  <2>2. v # w
    BY <1>1, <2>1
  <2> QED
    BY <1>1, <1>2, <1>3, <2>1, <2>2
<1>8. ASSUME NEW v \in Workers, Complete(v) \/ FailToComplete(v) \/ Crash(v)
      PROVE  Goal
  <2>1. /\ pc' = [pc EXCEPT ![v] = "ready"] /\ now' = [now EXCEPT ![v] = NoClaim]
        /\ wire' = wire
    BY <1>8 DEF Complete, FailToComplete, Crash, Rest, line
  <2>2. v # w
    BY <1>1, <2>1
  <2> QED
    BY <1>1, <1>2, <1>3, <2>1, <2>2
<1>9. ASSUME NEW c, NEW e, <<c, e>> \in wire, Accept(c, e)
      PROVE  Goal
  <2>1. wire' = wire \ {<<c, e>>} /\ pc' = pc /\ now' = now
    BY <1>9 DEF Accept, workers
  <2>2. now[w] \in Claims
    BY <1>1, <2>1
  <2>3. CASE pc[w] = "pushing" /\ Pushed(w) = <<c, e>>
    <3>1. c = now[w] /\ c.notice \in Notices /\ c.key \in Keys
      BY <2>2, <2>3, ClaimFields DEF Pushed
    <3>2. copies \in [Notices -> [Keys -> Nat]]
      BY DEF TypeOK
    <3>3. CASE <<e, c.notice, c.key>> \in known
      BY <1>9, <2>1, <3>1, <3>3 DEF Accept, KnownInv
    <3>4. CASE <<e, c.notice, c.key>> \notin known
      <4>1. copies' = [copies EXCEPT ![c.notice][c.key] = @ + 1]
        BY <1>9, <3>4 DEF Accept
      <4>2. copies'[c.notice][c.key] = copies[c.notice][c.key] + 1
            /\ copies[c.notice][c.key] \in Nat
        BY <3>1, <3>2, <4>1
      <4> QED
        BY <2>1, <3>1, <4>2
    <3> QED
      BY <3>3, <3>4
  <2>4. CASE ~(pc[w] = "pushing" /\ Pushed(w) = <<c, e>>)
    <3>1. Had
      BY <2>1, <2>2, <2>4 DEF Pushed
    <3> QED
      BY <1>2, <3>1
  <2> QED
    BY <2>3, <2>4
<1>10. ASSUME NEW v \in Workers, Asks(v)
       PROVE  Goal
  <2>1. pc' = pc /\ now' = now /\ wire' = wire
    BY <1>10 DEF Asks, Claim, Requeue, line
  <2> QED
    BY <1>2, <1>3, <2>1
<1>11. ASSUME \/ \E n \in Notices : Finalize(n) \/ Elapse(n)
              \/ \E k \in known : Forget(k)
              \/ UNCHANGED vars
       PROVE  Goal
  <2>1. pc' = pc /\ now' = now /\ wire' = wire
    BY <1>11 DEF Finalize, Elapse, Forget, vars, workers, line
  <2> QED
    BY <1>2, <1>3, <2>1
<1> HIDE DEF Goal, Had
<1>12. ASSUME NEW v \in Workers, Deliver(v)
       PROVE  Goal
  BY <1>4, <1>5, <1>6, <1>7, <1>8, <1>12 DEF Deliver
<1>13. ASSUME NEW p \in wire, Accept(p[1], p[2])
       PROVE  Goal
  <2>1. p = <<p[1], p[2]>>
    BY DEF TypeOK
  <2> QED
    BY <1>9, <1>13, <2>1
<1>14. Goal
  BY <1>8, <1>10, <1>11, <1>12, <1>13 DEF Next, Asks
<1> QED
  BY <1>14 DEF Goal

-----------------------------------------------------------------------------
(***************************************************************************)
(* The invariant, and that what is called sent was delivered.              *)
(***************************************************************************)
Inv ==
    /\ TypeOK /\ CycleInv /\ RowInv
    /\ ClaimInv /\ UniqueInv
    /\ KnownInv /\ DeliveredInv

(* The invariant holds at first: nothing is written and nobody has a claim. *)
LEMMA InvInit == Init => Inv
<1> SUFFICES ASSUME Init PROVE Inv
  OBVIOUS
<1>1. TypeOK /\ CycleInv
  BY TypeInit
<1>2. RowInv
  BY DEF Init, Absent, RowInv
<1>3. ASSUME NEW w \in Workers, NEW c \in Claims
      PROVE  ~Carries(w, c)
  BY <1>3, NoClaimAssumption DEF Init, Carries
<1>4. ClaimInv
  BY <1>3 DEF Init, ClaimInv
<1>5. UniqueInv
  BY <1>3 DEF Init, UniqueInv
<1>6. KnownInv /\ DeliveredInv
  BY DEF Init, KnownInv, DeliveredInv
<1> QED
  BY <1>1, <1>2, <1>4, <1>5, <1>6 DEF Inv

(* Every step keeps it. *)
LEMMA InvStep == Inv /\ [Next]_vars => Inv'
BY TypeStep, RowStep, ClaimStep, UniqueStep, KnownStep, DeliveredStep DEF Inv

(* It always holds. *)
LEMMA InvHolds == Spec => []Inv
BY InvInit, InvStep, PTL DEF Spec

(* The worker that ends a notice's attempt as sent has had its summary     *)
(* delivered under the key that the row still has.                         *)
LEMMA SentStep == Inv /\ SentIsTrue /\ [Next]_vars => SentIsTrue'
<1> SUFFICES ASSUME Inv, SentIsTrue, [Next]_vars, NEW n \in Notices, row'[n].status = "sent"
             PROVE  copies'[n][row'[n].key] > 0
  BY DEF SentIsTrue
<1>1. TypeOK /\ CycleInv /\ row[n] \in RowType
  BY DEF Inv, TypeOK
<1>2. row[n].key \in Keys
  BY <1>1, RowFields
<1>3. CASE row[n].status = "sent" /\ row'[n].key = row[n].key
  BY <1>1, <1>2, <1>3, CopiesStay DEF SentIsTrue
<1>4. CASE Kept(n) \/ Ripened(n)
  BY <1>1, <1>3, <1>4, RowShapes DEF Kept
<1>5. CASE Written(n) \/ Taken(n) \/ AskedAgain(n)
  BY <1>1, <1>5, RowShapes
<1>6. ASSUME NEW w \in Workers, NEW to \in {"sent", "failed"}, NEW retry \in BOOLEAN,
             Ended(n, w, to, retry)
      PROVE  copies'[n][row'[n].key] > 0
  <2>1. row'[n].status = to /\ row'[n].key = row[n].key
    BY <1>1, <1>6, RowShapes
  <2>2. /\ pc[w] = "delivered" /\ now[w].notice = n /\ now[w].attempt = row[n].attempts
    BY <1>6, <2>1 DEF Ended, Current
  <2>3. now[w] \in Claims
    BY <1>1, <2>2 DEF TypeOK
  <2>4. Made(now[w])
    BY <2>3 DEF Inv, ClaimInv, Carries
  <2>5. now[w].key = row[n].key
    BY <2>2, <2>4 DEF Made
  <2>6. copies[n][row[n].key] > 0
    BY <2>2, <2>5 DEF Inv, DeliveredInv
  <2> QED
    BY <1>1, <1>2, <2>1, <2>6, CopiesStay
<1> QED
  BY <1>1, <1>4, <1>5, <1>6, RowCases

(* A notice that is called sent is in the chat, under the key of the last  *)
(* request for it, whoever completes which attempt when.                   *)
THEOREM SentWasDelivered == Spec => []SentIsTrue
<1>1. Init => SentIsTrue
  BY DEF Init, Absent, SentIsTrue
<1> QED
  BY <1>1, InvHolds, SentStep, PTL DEF Spec

-----------------------------------------------------------------------------
(***************************************************************************)
(* The log of the attempts.                                                *)
(***************************************************************************)
(* The attempts of a cycle are the last ones, as many as the cycle counts. *)
InCycle(n, a) == a \in Attempts /\ a <= row[n].attempts /\ a + row[n].cycle > row[n].attempts

LogInv ==
    \A n \in Notices :
        /\ row[n].status \in {"sending", "sent", "failed"}
             => row[n].attempts \in Attempts /\ log[n][row[n].attempts] = row[n].status
        /\ \A a \in Attempts : InCycle(n, a) /\ a < row[n].attempts
             => log[n][a] \in {"sending", "failed"}

(* Within the cycle only its last attempts can have used up the budget.    *)
BudgetInv ==
    \A n \in Notices :
        /\ row[n].status = "failed" /\ row[n].retryable => row[n].cycle < MaxCycle
        /\ \A a \in Attempts :
              InCycle(n, a) /\ log[n][a] = "failed" /\ a < row[n].attempts
                => a + row[n].cycle < row[n].attempts + MaxCycle

(* The log and the budget of a notice, as one invariant of its row. *)
LEMMA LogStep == Inv /\ LogInv /\ BudgetInv /\ [Next]_vars => LogInv' /\ BudgetInv'
<1> DEFINE
      Logged(n) == /\ row'[n].status \in {"sending", "sent", "failed"}
                        => row'[n].attempts \in Attempts /\ log'[n][row'[n].attempts] = row'[n].status
                   /\ row'[n].status = "failed" /\ row'[n].retryable => row'[n].cycle < MaxCycle
      Told(n, a) == a <= row'[n].attempts /\ a + row'[n].cycle > row'[n].attempts
                                          /\ a < row'[n].attempts =>
                       /\ log'[n][a] \in {"sending", "failed"}
                       /\ log'[n][a] = "failed" => a + row'[n].cycle < row'[n].attempts + MaxCycle
<1> SUFFICES ASSUME Inv, LogInv, BudgetInv, [Next]_vars, NEW n \in Notices
             PROVE  Logged(n) /\ \A a \in Attempts : Told(n, a)
  BY DEF LogInv, BudgetInv, InCycle
<1>1. /\ TypeOK /\ CycleInv /\ row[n] \in RowType
      /\ log[n] \in [Attempts -> {"none", "sending", "sent", "failed"}]
  BY DEF Inv, TypeOK
<1>2. /\ row[n].attempts \in Nat /\ row[n].cycle \in Nat /\ row[n].attempts <= MaxAttempts
      /\ MaxAttempts \in Nat /\ MaxCycle \in Nat \ {0}
      /\ row[n].cycle <= row[n].attempts
      /\ row[n].attempts = 0 <=> row[n].status \in {"none", "pending"}
      /\ row[n].status \in {"none", "pending", "sending", "sent", "failed"}
  BY <1>1, RowFields, Bounds DEF CycleInv, Inv, RowInv
<1>3. /\ row[n].status \in {"sending", "sent", "failed"}
           => row[n].attempts \in Attempts /\ log[n][row[n].attempts] = row[n].status
      /\ row[n].status = "failed" /\ row[n].retryable => row[n].cycle < MaxCycle
  BY DEF LogInv, BudgetInv
<1>4. \A a \in Attempts :
         a <= row[n].attempts /\ a + row[n].cycle > row[n].attempts /\ a < row[n].attempts =>
            /\ log[n][a] \in {"sending", "failed"}
            /\ log[n][a] = "failed" => a + row[n].cycle < row[n].attempts + MaxCycle
  BY DEF LogInv, BudgetInv, InCycle
<1>5. CASE Kept(n)
  BY <1>3, <1>4, <1>5 DEF Kept
<1>6. CASE Written(n)
  <2>1. row'[n].status = "pending" /\ row'[n].attempts = 0
    BY <1>1, <1>2, <1>6, RowShapes DEF Written
  <2>2. Logged(n)
    BY <2>1
  <2>3. \A a \in Attempts : Told(n, a)
    BY <2>1 DEF Attempts
  <2> QED
    BY <2>2, <2>3
<1>7. CASE Taken(n)
  <2>1. /\ row'[n].status = "sending" /\ row'[n].attempts = row[n].attempts + 1
        /\ row'[n].cycle = row[n].cycle + 1
        /\ log'[n] = [log[n] EXCEPT ![row[n].attempts + 1] = "sending"]
        /\ row[n].attempts < MaxAttempts
        /\ (row[n].status \in {"pending", "failed"} /\ row[n].retryable) \/ row[n].status = "sending"
    BY <1>1, <1>7, RowShapes DEF Taken
  <2>2. row[n].attempts + 1 \in Attempts
    BY <1>2, <2>1 DEF Attempts
  <2>3. Logged(n)
    BY <1>1, <2>1, <2>2
  <2>4. ASSUME NEW a \in Attempts
        PROVE  Told(n, a)
    <3>1. a \in Nat \ {0}
      BY Bounds
    <3>2. a # row[n].attempts + 1 => log'[n][a] = log[n][a]
      BY <1>1, <2>1
    <3>3. CASE a < row[n].attempts
      BY <1>2, <1>4, <2>1, <3>1, <3>2, <3>3
    <3>4. CASE a = row[n].attempts
      <4>1. row[n].status \in {"sending", "failed"} /\ log[n][a] = row[n].status
        BY <1>2, <1>3, <2>1, <3>1, <3>4
      <4>2. log'[n][a] \in {"sending", "failed"}
        BY <1>2, <3>2, <3>4, <4>1
      <4>3. log'[n][a] = "failed" => row[n].cycle < MaxCycle
        BY <1>2, <1>3, <2>1, <3>2, <3>4, <4>1
      <4> QED
        BY <1>2, <2>1, <3>4, <4>2, <4>3
    <3>5. CASE a > row[n].attempts
      BY <1>2, <2>1, <3>1, <3>5
    <3> QED
      BY <1>2, <3>1, <3>3, <3>4, <3>5
  <2> QED
    BY <2>3, <2>4
<1>8. CASE AskedAgain(n)
  <2>1. /\ row'[n].status = "sending" /\ row'[n].attempts = row[n].attempts + 1
        /\ row'[n].cycle = 1 /\ row[n].attempts < MaxAttempts
        /\ log'[n] = [log[n] EXCEPT ![row[n].attempts + 1] = "sending"]
    BY <1>1, <1>8, RowShapes DEF AskedAgain
  <2>2. row[n].attempts + 1 \in Attempts
    BY <1>2, <2>1 DEF Attempts
  <2>3. Logged(n)
    BY <1>1, <2>1, <2>2
  <2>4. ASSUME NEW a \in Attempts
        PROVE  Told(n, a)
    <3>1. a \in Nat \ {0}
      BY Bounds
    <3> QED
      BY <1>2, <2>1, <3>1
  <2> QED
    BY <2>3, <2>4
<1>9. CASE Ripened(n)
  <2>1. /\ row'[n].status = row[n].status /\ row'[n].attempts = row[n].attempts
        /\ row'[n].cycle = row[n].cycle /\ row'[n].retryable = row[n].retryable
        /\ log'[n] = log[n]
    BY <1>1, <1>9, RowShapes DEF Ripened
  <2> QED
    BY <1>3, <1>4, <2>1
<1>10. ASSUME NEW w \in Workers, NEW to \in {"sent", "failed"}, NEW retry \in BOOLEAN,
              Ended(n, w, to, retry)
       PROVE  Logged(n) /\ \A a \in Attempts : Told(n, a)
  <2>1. /\ row'[n].status = to /\ row'[n].attempts = row[n].attempts
        /\ row'[n].cycle = row[n].cycle /\ row'[n].retryable = retry
    BY <1>1, <1>10, RowShapes
  <2>2. /\ row[n].status = "sending" /\ now[w].notice = n /\ now[w].attempt = row[n].attempts
        /\ pc[w] # "ready" /\ (to = "failed" /\ retry => now[w].cycle < MaxCycle)
        /\ log'[n] = [log[n] EXCEPT ![row[n].attempts] = to]
    BY <1>10 DEF Ended, Current
  <2>3. now[w] \in Claims
    BY <1>1, <2>2 DEF TypeOK
  <2>4. Made(now[w])
    BY <2>3 DEF Inv, ClaimInv, Carries
  <2>5. now[w].cycle = row[n].cycle
    BY <2>2, <2>4 DEF Made
  <2>6. Logged(n)
    BY <1>1, <1>3, <2>1, <2>2, <2>5
  <2>7. ASSUME NEW a \in Attempts
        PROVE  Told(n, a)
    <3>1. a < row[n].attempts => log'[n][a] = log[n][a]
      BY <1>1, <1>2, <2>2, Bounds
    <3> QED
      BY <1>4, <2>1, <3>1
  <2> QED
    BY <2>6, <2>7
<1> QED
  BY <1>1, <1>5, <1>6, <1>7, <1>8, <1>9, <1>10, RowCases

(* Both always hold. *)
LEMMA LogHolds == Spec => [](Inv /\ LogInv /\ BudgetInv)
<1>1. Init => LogInv /\ BudgetInv
  <2> SUFFICES ASSUME Init PROVE LogInv /\ BudgetInv
    OBVIOUS
  <2>1. \A n \in Notices : row[n].status = "none" /\ row[n].attempts = 0
    BY DEF Init, Absent
  <2>2. \A n \in Notices : \A a \in Attempts : ~InCycle(n, a)
    BY <2>1, Bounds DEF InCycle
  <2> QED
    BY <2>1, <2>2 DEF LogInv, BudgetInv
<1> QED
  BY <1>1, InvInit, InvStep, LogStep, PTL DEF Spec

(* The log of a notice's attempts always agrees with the notice.           *)
THEOREM LogIsTrue == Spec => []LogMatchesRow
<1>1. LogInv => LogMatchesRow
  BY DEF LogInv, LogMatchesRow, CycleAttempts, InCycle
<1> QED
  BY <1>1, LogHolds, PTL

(* However workers die or answer late, a cycle fails at most MaxCycle      *)
(* times: its failures but the last are among its first MaxCycle - 1       *)
(* attempts.                                                               *)
THEOREM BudgetHolds == Spec => []BudgetKept
<1>1. Inv /\ BudgetInv => BudgetKept
  <2> SUFFICES ASSUME Inv, BudgetInv, NEW n \in Notices
               PROVE  Cardinality({a \in CycleAttempts(n) : log[n][a] = "failed"}) <= MaxCycle
    BY DEF BudgetKept
  <2> DEFINE F == {a \in CycleAttempts(n) : log[n][a] = "failed"}
             low == row[n].attempts - row[n].cycle + 1
             high == row[n].attempts - row[n].cycle + (MaxCycle - 1)
  <2>1. row[n] \in RowType /\ row[n].cycle <= row[n].attempts
    BY DEF Inv, TypeOK, CycleInv
  <2>2. row[n].attempts \in Nat /\ row[n].cycle \in Nat /\ MaxCycle \in Nat \ {0}
    BY <2>1, RowFields, Bounds
  <2>3. low \in Int /\ high \in Int
    BY <2>2
  <2>4. F \subseteq (low..high) \cup {row[n].attempts}
    <3> SUFFICES ASSUME NEW a \in F, a # row[n].attempts
                 PROVE  a \in low..high
      OBVIOUS
    <3>1. a \in Attempts /\ a \in Nat /\ InCycle(n, a) /\ log[n][a] = "failed"
      BY Bounds DEF CycleAttempts, InCycle
    <3>2. a < row[n].attempts
      BY <2>2, <3>1 DEF InCycle
    <3>3. a + row[n].cycle < row[n].attempts + MaxCycle
      BY <3>1, <3>2 DEF BudgetInv
    <3>4. a + row[n].cycle > row[n].attempts
      BY <3>1 DEF InCycle
    <3> QED
      BY <2>2, <3>1, <3>3, <3>4
  <2>5. IsFiniteSet(low..high) /\ Cardinality(low..high) = IF low > high THEN 0 ELSE high - low + 1
    BY <2>3, FS_Interval
  <2>6. Cardinality(low..high) <= MaxCycle - 1 /\ Cardinality(low..high) \in Nat
    BY <2>2, <2>5
  <2> DEFINE B == (low..high) \cup {row[n].attempts}
  <2> HIDE DEF F, low, high
  <2>7. /\ IsFiniteSet(B)
        /\ Cardinality(B) = IF row[n].attempts \in low..high THEN Cardinality(low..high)
                                                             ELSE Cardinality(low..high) + 1
    BY <2>5, FS_AddElement
  <2> HIDE DEF B
  <2>8. IsFiniteSet(F) /\ Cardinality(F) <= Cardinality(B)
    BY <2>4, <2>7, FS_Subset DEF B
  <2>9. Cardinality(F) \in Nat /\ Cardinality(B) \in Nat
    BY <2>7, <2>8, FS_CardinalityType
  <2>10. Cardinality(F) <= MaxCycle
    BY <2>2, <2>6, <2>7, <2>8, <2>9
  <2> QED
    BY <2>10 DEF F
<1> QED
  BY <1>1, LogHolds, PTL

-----------------------------------------------------------------------------
(***************************************************************************)
(* Copies.  When LINE remembers the keys long enough and all workers push  *)
(* to one channel, a key is delivered once.                                *)
(***************************************************************************)
KeysLast == ~KeysExpire /\ \A v, w \in Workers : Env[v] = Env[w]

OnceInv ==
    \A n \in Notices : \A k \in Keys :
        /\ copies[n][k] <= 1
        /\ copies[n][k] > 0 => \E e : <<e, n, k>> \in known

(* A key that was delivered is remembered, and not delivered again. *)
LEMMA OnceStep == KeysLast /\ Inv /\ OnceInv /\ [Next]_vars => OnceInv'
<1> SUFFICES ASSUME KeysLast, Inv, OnceInv, [Next]_vars, NEW n \in Notices, NEW k \in Keys
             PROVE  /\ copies'[n][k] <= 1
                    /\ copies'[n][k] > 0 => \E e : <<e, n, k>> \in known'
  BY DEF OnceInv
<1>1. /\ TypeOK /\ copies \in [Notices -> [Keys -> Nat]]
      /\ known \subseteq {Env[w] : w \in Workers} \X Notices \X Keys
      /\ wire \subseteq Claims \X {Env[w] : w \in Workers}
  BY DEF Inv, TypeOK
<1>2. copies[n][k] <= 1 /\ (copies[n][k] > 0 => \E e : <<e, n, k>> \in known)
  BY DEF OnceInv
<1>3. CASE copies' = copies /\ (known' = known \/ KeysExpire)
  BY <1>2, <1>3 DEF KeysLast
<1>4. ASSUME NEW c \in Claims, NEW e, <<c, e>> \in wire, <<e, c.notice, c.key>> \notin known,
             known' = known \cup {<<e, c.notice, c.key>>},
             copies' = [copies EXCEPT ![c.notice][c.key] = @ + 1]
      PROVE  /\ copies'[n][k] <= 1
             /\ copies'[n][k] > 0 => \E f : <<f, n, k>> \in known'
  <2>1. c.notice \in Notices /\ c.key \in Keys
    BY ClaimFields
  <2>2. CASE n = c.notice /\ k = c.key
    <3>1. \A f : <<f, n, k>> \in known => f = e
      <4> SUFFICES ASSUME NEW f, <<f, n, k>> \in known
                   PROVE  f = e
        OBVIOUS
      <4>1. f \in {Env[w] : w \in Workers} /\ e \in {Env[w] : w \in Workers}
        BY <1>1, <1>4
      <4> QED
        BY <4>1 DEF KeysLast
    <3>2. ~(copies[n][k] > 0)
      BY <1>2, <1>4, <2>2, <3>1
    <3>3. copies[n][k] = 0
      BY <1>1, <3>2
    <3>4. copies'[n][k] = copies[n][k] + 1
      BY <1>1, <1>4, <2>1, <2>2
    <3> QED
      BY <1>4, <2>2, <3>3, <3>4
  <2>3. CASE ~(n = c.notice /\ k = c.key)
    <3>1. copies'[n][k] = copies[n][k]
      BY <1>1, <1>4, <2>1, <2>3
    <3> QED
      BY <1>2, <1>4, <3>1
  <2> QED
    BY <2>2, <2>3
<1> QED
  BY <1>1, <1>3, <1>4, CopyCases

(* It always holds. *)
LEMMA OnceHolds ==
    ASSUME KeysLast
    PROVE  Spec => [](Inv /\ OnceInv)
<1>1. Init => OnceInv
  BY DEF Init, OnceInv
<1>2. Inv /\ OnceInv /\ [Next]_vars => OnceInv'
  BY OnceStep
<1> QED
  BY <1>1, <1>2, InvInit, InvStep, PTL DEF Spec

(* If LINE remembers every key and all workers share one channel, what was *)
(* asked for arrives at most once and nothing arrives that was not.        *)
THEOREM OneCopyEach ==
    ASSUME ~KeysExpire, \A v, w \in Workers : Env[v] = Env[w]
    PROVE  Spec => []OneCopyPerRequest
<1>1. Inv /\ OnceInv => OneCopyPerRequest
  <2> SUFFICES ASSUME Inv, OnceInv, NEW n \in Notices, NEW k \in Keys
               PROVE  copies[n][k] <= IF k <= row[n].resends THEN 1 ELSE 0
    BY DEF OneCopyPerRequest
  <2>1. copies[n][k] \in Nat /\ copies[n][k] <= 1
    BY DEF OnceInv, Inv, TypeOK
  <2>2. copies[n][k] > 0 => k <= row[n].resends
    BY DEF OnceInv, Inv, KnownInv
  <2> QED
    BY <2>1, <2>2
<1> QED
  BY <1>1, OnceHolds, PTL DEF KeysLast

-----------------------------------------------------------------------------
(***************************************************************************)
(* The outbox implements NoticeDelivery.                                   *)
(***************************************************************************)
(* The cases of the verdict. *)
LEMMA VerdictOf ==
    ASSUME NEW n \in Notices
    PROVE  /\ row[n].status = "none" => Verdict(n) = "none"
           /\ row[n].status = "sent" => Verdict(n) = "sent"
           /\ row[n].status = "failed" /\ ~row[n].retryable => Verdict(n) = "dropped"
           /\ row[n].status = "failed" /\ row[n].retryable => Verdict(n) = "open"
           /\ row[n].status \in {"pending", "sending"} => Verdict(n) = "open"
           /\ row[n].status # "none" /\ row[n].status \in
                 {"none", "pending", "sending", "sent", "failed"} => Verdict(n) # "none"
BY DEF Verdict

(* The outbox begins as the delivery does. *)
LEMMA RefinesInit == Init => Delivery!Init
BY DEF Init, Delivery!Init, Verdict, Absent

(* A step that changes one verdict, as a change of the table of verdicts.  *)
LEMMA VerdictTable ==
    ASSUME NEW n \in Notices, NEW q, Verdict(n)' = q,
           \A m \in Notices : m # n => Verdict(m)' = Verdict(m)
    PROVE  [m \in Notices |-> Verdict(m)]' = [[m \in Notices |-> Verdict(m)] EXCEPT ![n] = q]
OBVIOUS

(* Rows that keep their fields keep their verdict. *)
LEMMA VerdictKept ==
    ASSUME NEW n \in Notices, row'[n].status = row[n].status,
           row'[n].retryable = row[n].retryable
    PROVE  Verdict(n)' = Verdict(n)
BY DEF Verdict

(* What the row's effects mean for the delivery. *)
LEMMA VerdictCases ==
    ASSUME Inv, [Next]_vars, NEW n \in Notices
    PROVE  /\ Kept(n) \/ Ripened(n) \/ Taken(n)
                => Verdict(n)' = Verdict(n) /\ row'[n].resends = row[n].resends
           /\ Written(n) => /\ Verdict(n) = "none" /\ Verdict(n)' = "open"
                            /\ row'[n].resends = row[n].resends
           /\ AskedAgain(n) => /\ Verdict(n) # "none" /\ Verdict(n)' = "open"
                               /\ row'[n].resends = row[n].resends + 1
           /\ \A w \in Workers, to \in {"sent", "failed"}, retry \in BOOLEAN :
                Ended(n, w, to, retry) =>
                    /\ Verdict(n) = "open" /\ row'[n].resends = row[n].resends
                    /\ \/ Verdict(n)' = "open"
                       \/ Verdict(n)' = "sent" /\ row'[n].status = "sent"
                       \/ Verdict(n)' = "dropped"
<1>1. TypeOK /\ CycleInv /\ row[n] \in RowType
  BY DEF Inv, TypeOK
<1>2. row[n].status \in {"none", "pending", "sending", "sent", "failed"}
      /\ row[n].retryable \in BOOLEAN
  BY <1>1, RowFields
<1>3. ASSUME Kept(n) \/ Ripened(n)
      PROVE  Verdict(n)' = Verdict(n) /\ row'[n].resends = row[n].resends
  <2>1. /\ row'[n].status = row[n].status /\ row'[n].retryable = row[n].retryable
        /\ row'[n].resends = row[n].resends
    BY <1>1, <1>3, RowShapes DEF Kept
  <2> QED
    BY <2>1, VerdictKept
<1>4. ASSUME Taken(n)
      PROVE  Verdict(n)' = Verdict(n) /\ row'[n].resends = row[n].resends
  <2>1. row'[n].status = "sending" /\ row'[n].resends = row[n].resends
    BY <1>1, <1>4, RowShapes
  <2>2. Verdict(n)' = "open"
    BY <2>1 DEF Verdict
  <2>3. Verdict(n) = "open"
    BY <1>4, VerdictOf DEF Taken
  <2> QED
    BY <2>1, <2>2, <2>3
<1>5. ASSUME Written(n)
      PROVE  /\ Verdict(n) = "none" /\ Verdict(n)' = "open"
             /\ row'[n].resends = row[n].resends
  <2>1. row'[n].status = "pending" /\ row'[n].resends = row[n].resends
    BY <1>1, <1>5, RowShapes
  <2>2. Verdict(n)' = "open"
    BY <2>1 DEF Verdict
  <2> QED
    BY <1>5, <2>1, <2>2, VerdictOf DEF Written
<1>6. ASSUME AskedAgain(n)
      PROVE  /\ Verdict(n) # "none" /\ Verdict(n)' = "open"
             /\ row'[n].resends = row[n].resends + 1
  <2>1. row'[n].status = "sending" /\ row'[n].resends = row[n].resends + 1
    BY <1>1, <1>6, RowShapes
  <2>2. Verdict(n)' = "open"
    BY <2>1 DEF Verdict
  <2> QED
    BY <1>2, <1>6, <2>1, <2>2, VerdictOf DEF AskedAgain
<1>7. ASSUME NEW w \in Workers, NEW to \in {"sent", "failed"}, NEW retry \in BOOLEAN,
             Ended(n, w, to, retry)
      PROVE  /\ Verdict(n) = "open" /\ row'[n].resends = row[n].resends
             /\ \/ Verdict(n)' = "open"
                \/ Verdict(n)' = "sent" /\ row'[n].status = "sent"
                \/ Verdict(n)' = "dropped"
  <2>1. /\ row'[n].status = to /\ row'[n].retryable = retry
        /\ row'[n].resends = row[n].resends
    BY <1>1, <1>7, RowShapes
  <2>2. Verdict(n) = "open"
    BY <1>7, VerdictOf DEF Ended, Current
  <2>3. CASE to = "sent"
    BY <2>1, <2>2, <2>3 DEF Verdict
  <2>4. CASE to = "failed" /\ retry
    BY <2>1, <2>2, <2>4 DEF Verdict
  <2>5. CASE to = "failed" /\ ~retry
    BY <2>1, <2>2, <2>5 DEF Verdict
  <2> QED
    BY <2>3, <2>4, <2>5
<1> QED
  BY <1>3, <1>4, <1>5, <1>6, <1>7

(* A step that changes no verdict and asks for nothing is a stutter.       *)
LEMMA RefinesStutter ==
    ASSUME Inv, [Next]_vars, copies' = copies,
           \A n \in Notices : Kept(n) \/ Ripened(n) \/ Taken(n)
    PROVE  UNCHANGED Delivery!vars
<1>1. \A n \in Notices : Verdict(n)' = Verdict(n) /\ row'[n].resends = row[n].resends
  BY VerdictCases
<1>2. [n \in Notices |-> Verdict(n)]' = [n \in Notices |-> Verdict(n)]
  BY <1>1
<1>3. [n \in Notices |-> row[n].resends]' = [n \in Notices |-> row[n].resends]
  BY <1>1
<1> QED
  BY <1>2, <1>3 DEF Delivery!vars

(* The end of an attempt settles its notice or leaves it open.             *)
LEMMA RefinesComplete ==
    ASSUME Inv, [Next]_vars, OnceInv', SentIsTrue', TypeOK',
           NEW w \in Workers, Complete(w)
    PROVE  [Delivery!Next]_(Delivery!vars)
<1> DEFINE m == now[w].notice
           V == [n \in Notices |-> Verdict(n)]
           A == [n \in Notices |-> row[n].resends]
<1>1. copies' = copies
  BY DEF Complete, line
<1>2. \A n \in Notices :
         \/ Kept(n)
         \/ n = m /\ \E to \in {"sent", "failed"}, retry \in BOOLEAN : Ended(n, w, to, retry)
  BY CompleteEnds DEF Ended, Inv
<1>3. CASE \A n \in Notices : Kept(n)
  BY <1>1, <1>3, RefinesStutter
<1>4. ASSUME NEW n \in Notices, ~Kept(n)
      PROVE  Delivery!Next \/ UNCHANGED Delivery!vars
  <2>1. /\ \A k \in Notices : k # n => Kept(k)
        /\ \E to \in {"sent", "failed"}, retry \in BOOLEAN : Ended(n, w, to, retry)
    BY <1>2, <1>4
  <2>2. /\ Verdict(n) = "open" /\ row'[n].resends = row[n].resends
        /\ \/ Verdict(n)' = "open"
           \/ Verdict(n)' = "sent" /\ row'[n].status = "sent"
           \/ Verdict(n)' = "dropped"
    BY <2>1, VerdictCases
  <2>3. \A k \in Notices : k # n => Verdict(k)' = Verdict(k) /\ row'[k].resends = row[k].resends
    BY <2>1, VerdictCases
  <2>4. A' = A /\ V[n] = "open" /\ A[n] = row[n].resends
    BY <2>2, <2>3
  <2>5. CASE Verdict(n)' = "open"
    <3>1. V' = V
      BY <2>2, <2>3, <2>5
    <3> QED
      BY <1>1, <2>4, <3>1 DEF Delivery!vars
  <2>6. ASSUME NEW q \in {"sent", "dropped"}, Verdict(n)' = q,
               q = "sent" => copies[n][A[n]] = 1
        PROVE  Delivery!Next
    <3>1. V' = [V EXCEPT ![n] = q]
      BY <2>3, <2>6, VerdictTable
    <3>2. Delivery!Settle(n)
      BY <1>1, <2>4, <2>6, <3>1 DEF Delivery!Settle
    <3> QED
      BY <3>2 DEF Delivery!Next
  <2>7. CASE Verdict(n)' = "sent" /\ row'[n].status = "sent"
    <3>1. row'[n].key = row'[n].resends /\ row'[n].key \in Keys
      <4>1. Inv'
        BY InvStep
      <4>2. row'[n] \in RowType
        BY DEF TypeOK
      <4> QED
        BY <4>1, <4>2, RowFields DEF Inv, RowInv
    <3>2. copies'[n][row'[n].key] > 0 /\ copies'[n][row'[n].key] <= 1
          /\ copies'[n][row'[n].key] \in Nat
      BY <2>7, <3>1 DEF SentIsTrue, OnceInv, TypeOK
    <3>3. copies[n][A[n]] = 1
      BY <1>1, <2>2, <2>4, <3>1, <3>2
    <3> QED
      BY <2>6, <2>7, <3>3
  <2>8. CASE Verdict(n)' = "dropped"
    BY <2>6, <2>8
  <2> QED
    BY <2>2, <2>5, <2>7, <2>8
<1> QED
  BY <1>3, <1>4

(* What LINE takes in reaches the chat, or is a duplicate. *)
LEMMA RefinesAccept ==
    ASSUME Inv, OnceInv, OnceInv', TypeOK', [Next]_vars, NEW p \in wire, Accept(p[1], p[2])
    PROVE  [Delivery!Next]_(Delivery!vars)
<1> DEFINE c == p[1]
<1>1. /\ c \in Claims /\ row' = row /\ p = <<p[1], p[2]>> /\ log' = log
      /\ copies \in [Notices -> [Keys -> Nat]] /\ copies' \in [Notices -> [Keys -> Nat]]
  BY DEF Accept, rows, Inv, TypeOK
<1>2. c.notice \in Notices /\ c.key \in Keys /\ c.attempt \in Nat \ {0}
  BY <1>1, ClaimFields
<1>3. /\ [n \in Notices |-> Verdict(n)]' = [n \in Notices |-> Verdict(n)]
      /\ [n \in Notices |-> row[n].resends]' = [n \in Notices |-> row[n].resends]
  BY <1>1 DEF Verdict
<1>4. CASE copies' = copies
  BY <1>3, <1>4 DEF Delivery!vars
<1>5. CASE copies' = [copies EXCEPT ![c.notice][c.key] = @ + 1]
  <2>1. copies'[c.notice][c.key] = copies[c.notice][c.key] + 1
    BY <1>1, <1>2, <1>5
  <2>2. copies'[c.notice][c.key] <= 1 /\ copies[c.notice][c.key] \in Nat
    BY <1>1, <1>2 DEF OnceInv
  <2>3. copies[c.notice][c.key] = 0
    BY <2>1, <2>2
  <2>4. copies' = [copies EXCEPT ![c.notice][c.key] = 1]
    BY <1>1, <1>2, <1>5, <2>3
  <2>5. Made(c)
    BY <1>1 DEF Inv, ClaimInv
  <2>6. row[c.notice].status \notin {"none", "pending"} /\ row[c.notice] \in RowType
    <3>1. row[c.notice] \in RowType
      BY <1>2 DEF Inv, TypeOK
    <3>2. row[c.notice].attempts # 0
      BY <1>2, <2>5, <3>1, RowFields DEF Made
    <3> QED
      BY <1>2, <3>1, <3>2 DEF Inv, RowInv
  <2>7. Verdict(c.notice) # "none"
    BY <1>2, <2>6, RowFields, VerdictOf
  <2>8. c.key <= row[c.notice].resends
    BY <2>5 DEF Made
  <2> HIDE DEF c
  <2>9. Delivery!Reach(c.notice, c.key)
    BY <1>2, <1>3, <2>3, <2>4, <2>7, <2>8 DEF Delivery!Reach
  <2> QED
    BY <1>2, <2>9 DEF Delivery!Next
<1> QED
  BY <1>4, <1>5 DEF Accept

(* Every step of the outbox is a step of the delivery, or a stutter. *)
LEMMA RefinesStep ==
    Inv /\ Inv' /\ OnceInv /\ OnceInv' /\ SentIsTrue' /\ [Next]_vars
        => [Delivery!Next]_(Delivery!vars)
<1> SUFFICES ASSUME Inv, Inv', OnceInv, OnceInv', SentIsTrue', [Next]_vars
             PROVE  [Delivery!Next]_(Delivery!vars)
  OBVIOUS
<1> DEFINE V == [n \in Notices |-> Verdict(n)]
           A == [n \in Notices |-> row[n].resends]
           Goal == [Delivery!Next]_(Delivery!vars)
<1>1. TypeOK /\ TypeOK' /\ row \in [Notices -> RowType]
      /\ log \in [Notices -> [Attempts -> {"none", "sending", "sent", "failed"}]]
  BY DEF Inv, TypeOK
<1>2. ASSUME NEW w \in Workers, NEW S \in SUBSET Notices, Claim(w, S)
      PROVE  Goal
  <2>1. \A n \in Notices : Taken(n) \/ Kept(n)
    BY <1>1, <1>2, ClaimTakes
  <2>2. copies' = copies
    BY <1>2 DEF Claim, line
  <2> QED
    BY <2>1, <2>2, RefinesStutter
<1>3. ASSUME NEW w \in Workers, NEW n \in Notices, Requeue(w, n)
      PROVE  Goal
  <2>1. AskedAgain(n) /\ \A k \in Notices : k # n => Kept(k)
    BY <1>1, <1>3, RequeueAsks
  <2>2. /\ Verdict(n) # "none" /\ Verdict(n)' = "open"
        /\ row'[n].resends = row[n].resends + 1
    BY <2>1, VerdictCases
  <2>3. \A k \in Notices : k # n => Verdict(k)' = Verdict(k) /\ row'[k].resends = row[k].resends
    BY <2>1, VerdictCases
  <2>4. V' = [V EXCEPT ![n] = "open"]
    BY <2>2, <2>3, VerdictTable
  <2>5. A' = [A EXCEPT ![n] = @ + 1]
    BY <2>2, <2>3
  <2>6. copies' = copies
    BY <1>3 DEF Requeue, line
  <2>7. Delivery!AskAgain(n)
    BY <2>2, <2>4, <2>5, <2>6 DEF Delivery!AskAgain
  <2> QED
    BY <2>7 DEF Delivery!Next
<1>4. ASSUME NEW n \in Notices, Finalize(n)
      PROVE  Goal
  <2>1. Written(n) /\ \A k \in Notices : k # n => Kept(k)
    BY <1>1, <1>4 DEF Finalize, Written, Kept
  <2>2. Verdict(n) = "none" /\ Verdict(n)' = "open" /\ row'[n].resends = row[n].resends
    BY <2>1, VerdictCases
  <2>3. \A k \in Notices : k # n => Verdict(k)' = Verdict(k) /\ row'[k].resends = row[k].resends
    BY <2>1, VerdictCases
  <2>4. V' = [V EXCEPT ![n] = "open"]
    BY <2>2, <2>3, VerdictTable
  <2>5. A' = A
    BY <2>2, <2>3
  <2>6. copies' = copies
    BY <1>4 DEF Finalize, line
  <2>7. Delivery!Ask(n)
    BY <2>2, <2>4, <2>5, <2>6 DEF Delivery!Ask
  <2> QED
    BY <2>7 DEF Delivery!Next
<1>5. ASSUME NEW n \in Notices, Elapse(n)
      PROVE  Goal
  <2>1. \A k \in Notices : Kept(k) \/ Ripened(k)
    BY <1>1, <1>5 DEF Elapse, Ripened, Kept
  <2>2. copies' = copies
    BY <1>5 DEF Elapse, line
  <2> QED
    BY <2>1, <2>2, RefinesStutter
<1>6. ASSUME UNCHANGED <<rows, copies>>
      PROVE  Goal
  <2>1. \A n \in Notices : Kept(n)
    BY <1>6 DEF rows, Kept
  <2> QED
    BY <1>6, <2>1, RefinesStutter
<1>7. ASSUME NEW w \in Workers, Deliver(w) \/ FailToComplete(w) \/ Crash(w)
      PROVE  Goal
  <2>1. CASE Complete(w)
    BY <1>1, <2>1, RefinesComplete
  <2>2. CASE ~Complete(w)
    BY <1>6, <1>7, <2>2 DEF Deliver, Push, Delivered, Refused, Unanswered, Answer,
       FailToComplete, Crash, line
  <2> QED
    BY <2>1, <2>2
<1>8. ASSUME NEW p \in wire, Accept(p[1], p[2])
      PROVE  Goal
  BY <1>1, <1>8, RefinesAccept
<1>9. ASSUME (\E k \in known : Forget(k)) \/ UNCHANGED vars
      PROVE  Goal
  BY <1>6, <1>9 DEF Forget, vars, line
<1> HIDE DEF Goal
<1>10. Goal
  BY <1>2, <1>3, <1>4, <1>5, <1>7, <1>8, <1>9 DEF Next
<1> QED
  BY <1>10 DEF Goal

(* While keys last, the outbox implements the delivery it promises.        *)
THEOREM OutboxImplementsDelivery ==
    ASSUME ~KeysExpire, \A v, w \in Workers : Env[v] = Env[w]
    PROVE  Spec => Refines
<1>1. Inv /\ Inv' /\ OnceInv /\ OnceInv' /\ SentIsTrue' /\ [Next]_vars
        => [Delivery!Next]_(Delivery!vars)
  BY RefinesStep
<1>2. Spec => [](Inv /\ OnceInv)
  BY OnceHolds DEF KeysLast
<1> QED
  BY <1>1, <1>2, RefinesInit, SentWasDelivered, PTL DEF Spec, Refines, Delivery!Spec
=============================================================================
