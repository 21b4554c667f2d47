--------------------------- MODULE SlipIngestProofs ---------------------------
(***************************************************************************)
(* Theorems about SlipIngest, for every set of images and commands, every  *)
(* assignment of LINE times to them and every choice of the bounds.        *)
(***************************************************************************)
EXTENDS SlipIngest, FiniteSetTheorems, WellFoundedInduction, TLAPS

(* The newest batch of a set of batches is one of them. *)
LEMMA NewestInside ==
    ASSUME NEW B \in SUBSET Batches, B # {}
    PROVE  Newest(B) \in B
<1> DEFINE T == {MaxBatches - b : b \in B}
<1> DEFINE Less == OpToRel(<, Nat)
<1>1. MaxBatches \in Nat
  BY BoundAssumption
<1>2. T \subseteq Nat /\ T # {}
  <2>1. \A b \in B : MaxBatches - b \in Nat
    BY <1>1 DEF Batches
  <2>2. T \subseteq Nat
    BY <2>1
  <2>3. PICK b \in B : TRUE
    OBVIOUS
  <2> QED
    BY <2>2, <2>3
<1>3. IsWellFoundedOn(Less, Nat)
  BY NatLessThanWellFounded
<1> HIDE DEF T, Less
<1>4. PICK x \in T : \A y \in T : ~ (<<y, x>> \in Less)
  BY <1>2, <1>3, WFMin
<1>5. \A y \in T : ~ (y < x)
  BY <1>2, <1>4 DEF Less, OpToRel
<1>6. PICK b \in B : x = MaxBatches - b
  BY <1>4 DEF T
<1>7. \A c \in B : c <= b
  <2> TAKE c \in B
  <2>1. MaxBatches - c \in T
    BY DEF T
  <2>2. ~ (MaxBatches - c < MaxBatches - b)
    BY <2>1, <1>5, <1>6
  <2>3. b \in Nat /\ c \in Nat
    BY DEF Batches
  <2> QED
    BY <2>2, <2>3, <1>1
<1> QED
  BY <1>7 DEF Newest

-----------------------------------------------------------------------------
(***************************************************************************)
(* Rows.                                                                   *)
(***************************************************************************)
Sessionless == {"none", "unbound", "no_session"}

(* The fields of a row. *)
LEMMA RowFields ==
    \A s, b, n, d :
        /\ Row(s, b, n, d).state = s /\ Row(s, b, n, d).batch = b
        /\ Row(s, b, n, d).attempts = n /\ Row(s, b, n, d).due = d
BY DEF Row

(* A row is well formed when its fields are, and it has a batch exactly    *)
(* when its state says that a session was found.                           *)
LEMMA RowIsTyped ==
    ASSUME NEW s \in RowStates, NEW b \in Batches \cup {NoBatch},
           NEW n \in 0..MaxAttempts, NEW d \in BOOLEAN,
           b = NoBatch <=> s \in Sessionless, b = NoBatch => n = 0 /\ ~d
    PROVE  Row(s, b, n, d) \in RowType
<1>1. Row(s, b, n, d) \in RowRecord
  BY DEF Row, RowRecord
<1> QED
  BY <1>1, RowFields DEF RowType, Sessionless

(* The fields of a typed ledger row. *)
LEMMA RowTypeFields ==
    ASSUME NEW r \in RowType
    PROVE  /\ r.state \in RowStates /\ r.batch \in Batches \cup {NoBatch}
           /\ r.attempts \in 0..MaxAttempts /\ r.due \in BOOLEAN
           /\ r.batch = NoBatch <=> r.state \in Sessionless
           /\ r.batch = NoBatch => r.attempts = 0 /\ ~r.due
BY DEF RowType, RowRecord, Sessionless

(* NULL is no batch, and there is a first attempt. *)
LEMMA Bounds ==
    /\ NoBatch \notin Batches /\ MaxAttempts \in Nat
    /\ 0 \in 0..MaxAttempts /\ Batches \subseteq Nat
<1>1. MaxAttempts \in Nat /\ MaxBatches \in Nat
  BY BoundAssumption
<1> QED
  BY <1>1 DEF NoBatch, Batches

(* The absent row is typed. *)
LEMMA NoRowIsTyped == NoRow \in RowType
<1>1. "none" \in RowStates /\ "none" \in Sessionless
  BY DEF RowStates, Sessionless
<1> QED
  BY <1>1, Bounds, RowIsTyped DEF NoRow

(* What the capture trigger and begin look up for an image. *)
LEMMA ResolveShape ==
    ASSUME NEW i \in Images
    PROVE  /\ Resolve(i) \in RowType
           /\ Resolve(i).state \in {"received", "late_after_finalize",
                                    "excluded_after_close", "unbound"}
           /\ Resolve(i).attempts = 0
           /\ Resolve(i).batch = NoBatch => Takers(Stamp[i]) = {}
           /\ Resolve(i).batch # NoBatch =>
                 Resolve(i).batch \in Takers(Stamp[i]) \cup Closing(Stamp[i])
           /\ Resolve(i).state = "excluded_after_close"
                => AfterClose(Resolve(i).batch, Stamp[i])
           /\ Resolve(i).state = "late_after_finalize" =>
                 status[Resolve(i).batch] \notin OpenStates
<1> DEFINE t == Stamp[i]
<1>1. {"received", "late_after_finalize", "excluded_after_close", "unbound"} \subseteq RowStates
  BY DEF RowStates, InFlightStates
<1>2. CASE Takers(t) # {}
  <2> DEFINE b == Newest(Takers(t))
             s == IF status[b] \in OpenStates THEN "received" ELSE "late_after_finalize"
  <2>1. Takers(t) \in SUBSET Batches
    BY DEF Takers, Recent, Created
  <2>2. b \in Batches /\ b \in Takers(t)
    BY <1>2, <2>1, NewestInside
  <2>3. Resolve(i) = Row(s, b, 0, FALSE)
    BY <1>2 DEF Resolve
  <2>4. /\ s \in {"received", "late_after_finalize"}
        /\ s = "late_after_finalize" => status[b] \notin OpenStates
    OBVIOUS
  <2> HIDE DEF b, s
  <2>5. Row(s, b, 0, FALSE) \in RowType
    BY <1>1, <2>2, <2>4, Bounds, RowIsTyped DEF Sessionless
  <2>6. /\ Row(s, b, 0, FALSE).state = s /\ Row(s, b, 0, FALSE).batch = b
        /\ Row(s, b, 0, FALSE).attempts = 0
    BY DEF Row
  <2> QED
    BY <2>2, <2>3, <2>4, <2>5, <2>6, Bounds
<1>3. CASE Takers(t) = {} /\ Closing(t) # {}
  <2> DEFINE b == Newest(Closing(t))
  <2>1. Closing(t) \in SUBSET Batches
    BY DEF Closing, Created
  <2>2. b \in Closing(t)
    BY <1>3, <2>1, NewestInside
  <2>3. b \in Batches /\ AfterClose(b, t)
    BY <2>2 DEF Closing, Created
  <2>4. Resolve(i) = Row("excluded_after_close", b, 0, FALSE)
    BY <1>3 DEF Resolve
  <2> HIDE DEF b
  <2>5. Row("excluded_after_close", b, 0, FALSE) \in RowType
    BY <1>1, <2>3, Bounds, RowIsTyped DEF Sessionless
  <2>6. /\ Row("excluded_after_close", b, 0, FALSE).state = "excluded_after_close" /\ Row("excluded_after_close", b, 0, FALSE).batch = b
        /\ Row("excluded_after_close", b, 0, FALSE).attempts = 0
    BY DEF Row
  <2> QED
    BY <2>2, <2>3, <2>4, <2>5, <2>6, Bounds
<1>4. CASE Takers(t) = {} /\ Closing(t) = {}
  <2>1. Resolve(i) = Row("unbound", NoBatch, 0, FALSE)
    BY <1>4 DEF Resolve
  <2>2. Row("unbound", NoBatch, 0, FALSE) \in RowType
    BY <1>1, Bounds, RowIsTyped DEF Sessionless
  <2>3. /\ Row("unbound", NoBatch, 0, FALSE).state = "unbound" /\ Row("unbound", NoBatch, 0, FALSE).batch = NoBatch
        /\ Row("unbound", NoBatch, 0, FALSE).attempts = 0
    BY DEF Row
  <2> QED
    BY <1>4, <2>1, <2>2, <2>3
<1> QED
  BY <1>2, <1>3, <1>4

(* The row that begin decides about. *)
LEMMA BoundShape ==
    ASSUME TypeOK, NEW i \in Images
    PROVE  /\ Bound(i) \in RowType
           /\ \/ Bound(i) = ledger[i] /\ ledger[i].state # "unbound"
              \/ /\ ledger[i].state = "unbound"
                 /\ Bound(i).attempts = 0
                 /\ \/ /\ Bound(i) = Row("no_session", NoBatch, 0, FALSE)
                       /\ Takers(Stamp[i]) = {}
                    \/ /\ Bound(i).batch # NoBatch
                       /\ Bound(i).batch \in Takers(Stamp[i]) \cup Closing(Stamp[i])
                       /\ Bound(i).state \in {"received", "late_after_finalize",
                                              "excluded_after_close"}
                       /\ Bound(i).state = "excluded_after_close"
                            => AfterClose(Bound(i).batch, Stamp[i])
                       /\ Bound(i).state = "late_after_finalize" =>
                             status[Bound(i).batch] \notin OpenStates
<1>1. CASE ledger[i].state # "unbound"
  BY <1>1 DEF Bound, TypeOK, LedgerType
<1>2. CASE ledger[i].state = "unbound" /\ Resolve(i).batch = NoBatch
  <2>1. Bound(i) = Row("no_session", NoBatch, 0, FALSE)
    BY <1>2 DEF Bound
  <2>2. Row("no_session", NoBatch, 0, FALSE) \in RowType
    BY Bounds, RowIsTyped DEF Sessionless, RowStates
  <2>3. /\ Row("no_session", NoBatch, 0, FALSE).state = "no_session" /\ Row("no_session", NoBatch, 0, FALSE).batch = NoBatch
        /\ Row("no_session", NoBatch, 0, FALSE).attempts = 0
    BY DEF Row
  <2>4. Takers(Stamp[i]) = {}
    BY <1>2, ResolveShape
  <2> QED
    BY <1>2, <2>1, <2>2, <2>3, <2>4
<1>3. CASE ledger[i].state = "unbound" /\ Resolve(i).batch # NoBatch
  <2>1. Bound(i) = Resolve(i)
    BY <1>3 DEF Bound
  <2>2. Resolve(i) \in RowType
    BY ResolveShape
  <2>3. Resolve(i).state # "unbound"
    BY <1>3, <2>2, RowTypeFields DEF Sessionless
  <2> QED
    BY <1>3, <2>1, <2>2, <2>3, ResolveShape
<1> QED
  BY <1>1, <1>2, <1>3

(* What begin makes of it. *)
LEMMA BeginShape ==
    ASSUME TypeOK, NEW i \in Images
    PROVE  LET r == Bound(i)
               o == BeginOutcome(i, r)
               s == Begun(r, o)
           IN  /\ s \in RowType
               /\ s.batch = r.batch
               /\ \/ s = r /\ o = "refused"
                  \/ /\ r.state \in InFlightStates
                     /\ s.state \in {"excluded_not_slip", "late_after_finalize",
                                    "failed_permanent"}
                     /\ s.attempts = r.attempts /\ o = s.state
                     /\ o = "late_after_finalize" => status[r.batch] \notin OpenStates
                  \/ /\ r.state \in InFlightStates /\ o = "ingesting"
                     /\ s = Row("ingesting", r.batch, r.attempts + 1, FALSE)
                     /\ status[r.batch] \in OpenStates /\ r.batch \in Batches
                     /\ r.attempts + 1 \in Attempts
<1> DEFINE r == Bound(i)
           o == BeginOutcome(i, r)
           s == Begun(r, o)
<1> SUFFICES /\ s \in RowType
             /\ s.batch = r.batch
             /\ \/ s = r /\ o = "refused"
                \/ /\ r.state \in InFlightStates
                   /\ s.state \in {"excluded_not_slip", "late_after_finalize",
                                  "failed_permanent"}
                   /\ s.attempts = r.attempts /\ o = s.state
                   /\ o = "late_after_finalize" => status[r.batch] \notin OpenStates
                \/ /\ r.state \in InFlightStates /\ o = "ingesting"
                   /\ s = Row("ingesting", r.batch, r.attempts + 1, FALSE)
                   /\ status[r.batch] \in OpenStates /\ r.batch \in Batches
                   /\ r.attempts + 1 \in Attempts
  OBVIOUS
<1>1. r \in RowType
  BY BoundShape
<1> HIDE DEF r
<1>2. /\ r.state \in RowStates /\ r.batch \in Batches \cup {NoBatch}
      /\ r.attempts \in 0..MaxAttempts /\ r.due \in BOOLEAN
      /\ r.batch = NoBatch <=> r.state \in Sessionless
  BY <1>1, RowTypeFields
<1>3. CASE o = "refused"
  <2>1. s = r
    BY <1>3 DEF Begun
  <2> QED
    BY <1>1, <1>3, <2>1
<1>4. ASSUME o # "refused"
      PROVE  /\ r.state \in InFlightStates /\ r.batch \in Batches
             /\ o \in {"excluded_not_slip", "late_after_finalize", "failed_permanent", "ingesting"}
             /\ o = "ingesting" => status[r.batch] \in OpenStates /\ ~(r.attempts >= MaxAttempts)
             /\ o = "late_after_finalize" => status[r.batch] \notin OpenStates
  <2>1. Startable(r)
    BY <1>4 DEF BeginOutcome
  <2>2. r.state \in InFlightStates
    BY <2>1 DEF Startable, InFlightStates
  <2>3. r.batch \in Batches
    BY <1>2, <2>2 DEF InFlightStates, Sessionless
  <2>4. /\ o \in {"excluded_not_slip", "late_after_finalize", "failed_permanent", "ingesting"}
        /\ o = "ingesting" => status[r.batch] \in OpenStates /\ ~(r.attempts >= MaxAttempts)
        /\ o = "late_after_finalize" => status[r.batch] \notin OpenStates
    BY <2>1 DEF BeginOutcome
  <2> QED
    BY <2>2, <2>3, <2>4
<1>5. CASE o # "refused" /\ o # "ingesting"
  <2>1. s = Row(o, r.batch, r.attempts, FALSE)
    BY <1>5 DEF Begun
  <2> HIDE DEF o, s
  <2>2. Row(o, r.batch, r.attempts, FALSE) \in RowType
    BY <1>2, <1>4, <1>5, Bounds, RowIsTyped DEF Sessionless, RowStates
  <2>3. /\ Row(o, r.batch, r.attempts, FALSE).state = o /\ Row(o, r.batch, r.attempts, FALSE).batch = r.batch
        /\ Row(o, r.batch, r.attempts, FALSE).attempts = r.attempts
    BY DEF Row
  <2> QED
    BY <1>4, <1>5, <2>1, <2>2, <2>3
<1>6. CASE o = "ingesting"
  <2>1. s = Row("ingesting", r.batch, r.attempts + 1, FALSE)
    BY <1>6 DEF Begun
  <2> HIDE DEF o, s
  <2>2. r.attempts + 1 \in Attempts /\ r.attempts + 1 \in 0..MaxAttempts
    BY <1>2, <1>4, <1>6, Bounds DEF Attempts
  <2>3. Row("ingesting", r.batch, r.attempts + 1, FALSE) \in RowType
    BY <1>4, <1>6, <2>2, Bounds, RowIsTyped DEF Sessionless, RowStates, InFlightStates
  <2>4. /\ Row("ingesting", r.batch, r.attempts + 1, FALSE).state = "ingesting" /\ Row("ingesting", r.batch, r.attempts + 1, FALSE).batch = r.batch
        /\ Row("ingesting", r.batch, r.attempts + 1, FALSE).attempts = r.attempts + 1
    BY DEF Row
  <2> QED
    BY <1>4, <1>6, <2>1, <2>2, <2>3, <2>4
<1> QED
  BY <1>3, <1>4, <1>5, <1>6

(* What begin does to a row r. *)
BeginEffect(i, r, s) ==
    \/ s = r
    \/ /\ r.state = "unbound" /\ s.state = "no_session" /\ s.batch = NoBatch
       /\ Takers(Stamp[i]) = {}
    \/ /\ r.state = "unbound"
       /\ s.batch \in Takers(Stamp[i]) \cup Closing(Stamp[i])
       /\ s.state \in {"received", "ingesting", "failed_permanent", "excluded_not_slip",
                      "late_after_finalize", "excluded_after_close"}
       /\ s.state = "excluded_after_close" => AfterClose(s.batch, Stamp[i])
       /\ s.state = "late_after_finalize" => status[s.batch] \notin OpenStates
    \/ /\ r.state \in InFlightStates /\ s.batch = r.batch
       /\ s.state \in {"ingesting", "failed_permanent", "excluded_not_slip",
                      "late_after_finalize"}
       /\ s.state = "late_after_finalize" => status[s.batch] \notin OpenStates

(* What begin_slip_ingest does to one row. *)
LEMMA BeginHasEffect ==
    ASSUME TypeOK, NEW i \in Images
    PROVE  BeginEffect(i, ledger[i], Begun(Bound(i), BeginOutcome(i, Bound(i))))
<1> DEFINE r == ledger[i]
           u == Bound(i)
           s == Begun(u, BeginOutcome(i, u))
           Last == {"ingesting", "failed_permanent", "excluded_not_slip", "late_after_finalize"}
<1>1. s.batch = u.batch
  BY BeginShape
<1>2. \/ s = u
      \/ /\ u.state \in InFlightStates /\ s.state \in Last
         /\ s.state = "late_after_finalize" => status[s.batch] \notin OpenStates
  <2>1. Row("ingesting", u.batch, u.attempts + 1, FALSE).state = "ingesting"
    BY DEF Row
  <2> QED
    BY <2>1, BeginShape
<1>3. \/ u = r
      \/ /\ r.state = "unbound" /\ u.state = "no_session" /\ u.batch = NoBatch
         /\ Takers(Stamp[i]) = {}
      \/ /\ r.state = "unbound"
         /\ u.batch \in Takers(Stamp[i]) \cup Closing(Stamp[i])
         /\ u.state \in {"received", "late_after_finalize", "excluded_after_close"}
         /\ u.state = "excluded_after_close" => AfterClose(u.batch, Stamp[i])
         /\ u.state = "late_after_finalize" => status[u.batch] \notin OpenStates
  <2>1. /\ Row("no_session", NoBatch, 0, FALSE).state = "no_session"
        /\ Row("no_session", NoBatch, 0, FALSE).batch = NoBatch
    BY DEF Row
  <2> QED
    BY <2>1, BoundShape
<1> HIDE DEF r, u, s
<1> SUFFICES BeginEffect(i, r, s)
  BY DEF r, u, s
<1> QED
  BY <1>1, <1>2, <1>3 DEF BeginEffect, InFlightStates

(* What opening the session b with e does to a row r. *)
AdoptEffect(i, e, b, r, s) ==
    \/ s = r /\ (r.state \in {"unbound", "no_session"} => ~(Stamp[i] >= Stamp[e]))
    \/ s.state = "received" /\ s.batch = b /\ r.state \in {"unbound", "no_session"}

(* Opening a session adopts a row, as received, or leaves it alone. *)
LEMMA AdoptedShape ==
    ASSUME TypeOK, NEW e \in Opens, NEW b \in Batches, NEW i \in Images
    PROVE  /\ Adopted(e, b)[i] \in RowType
           /\ AdoptEffect(i, e, b, ledger[i], Adopted(e, b)[i])
<1>1. ledger[i] \in RowType
  BY DEF TypeOK, LedgerType
<1>2. Row("received", b, 0, FALSE) \in RowType
  BY Bounds, RowIsTyped DEF Sessionless, RowStates, InFlightStates
<1>3. /\ Row("received", b, 0, FALSE).state = "received"
      /\ Row("received", b, 0, FALSE).batch = b
  BY DEF Row
<1>4. Adopted(e, b)[i] = IF ledger[i].state \in {"unbound", "no_session"} /\ Stamp[i] >= Stamp[e]
                         THEN Row("received", b, 0, FALSE) ELSE ledger[i]
  BY DEF Adopted
<1> QED
  BY <1>1, <1>2, <1>3, <1>4 DEF AdoptEffect

(* What the claim of b does to a row r. *)
ReconcileEffect(i, b, r, s) ==
    \/ s = r /\ (r.state \in {"unbound", "no_session"} => ~Covers(b, Stamp[i]))
    \/ /\ s.batch = b /\ r.batch = b /\ r.state \in InFlightStates
       /\ s.state = "excluded_after_close" /\ AfterClose(b, Stamp[i])
    \/ /\ s.batch = b /\ r.batch = b /\ r.state \in InFlightStates
       /\ s.state = "excluded_not_slip"
    \/ /\ s.batch = b /\ r.state \in {"unbound", "no_session"}
       /\ s.state \in {"received", "excluded_not_slip"}

(* The reconciliation of a claim leaves a row alone, or ends it as         *)
(* excluded, or adopts it as received.                                     *)
LEMMA ReconciledShape ==
    ASSUME TypeOK, NEW b \in Batches, NEW i \in Images
    PROVE  /\ Reconciled(b)[i] \in RowType
           /\ ReconcileEffect(i, b, ledger[i], Reconciled(b)[i])
<1> DEFINE r == ledger[i]
<1>1. r \in RowType
  BY DEF TypeOK, LedgerType
<1> HIDE DEF r
<1>2. r.attempts \in 0..MaxAttempts
  BY <1>1, RowTypeFields
<1>3. ASSUME NEW s \in {"excluded_after_close", "excluded_not_slip", "received"}
      PROVE  Row(s, b, r.attempts, FALSE) \in RowType
  BY <1>2, Bounds, RowIsTyped DEF Sessionless, RowStates, InFlightStates
<1>4. \/ /\ Reconciled(b)[i] = r
         /\ r.state \in {"unbound", "no_session"} => ~Covers(b, Stamp[i])
      \/ /\ Reconciled(b)[i] = Row("excluded_after_close", b, r.attempts, FALSE)
         /\ r.batch = b /\ r.state \in InFlightStates
         /\ AfterClose(b, Stamp[i])
      \/ /\ Reconciled(b)[i] = Row("excluded_not_slip", b, r.attempts, FALSE)
         /\ \/ r.state \in {"unbound", "no_session"}
            \/ r.state = "received" /\ r.batch = b
      \/ /\ Reconciled(b)[i] = Row("received", b, r.attempts, FALSE)
         /\ r.state \in {"unbound", "no_session"}
  BY DEF Reconciled, r
<1>5. ASSUME NEW t \in {"excluded_after_close", "excluded_not_slip", "received"}
      PROVE  /\ Row(t, b, r.attempts, FALSE).state = t
             /\ Row(t, b, r.attempts, FALSE).batch = b
  BY DEF Row
<1> DEFINE s == Reconciled(b)[i]
<1> HIDE DEF s
<1>6. s \in RowType
  BY <1>1, <1>3, <1>4 DEF s
<1>7. ReconcileEffect(i, b, r, s)
  <2>1. CASE s = r /\ (r.state \in {"unbound", "no_session"} => ~Covers(b, Stamp[i]))
    BY <2>1 DEF ReconcileEffect
  <2>2. CASE /\ s = Row("excluded_after_close", b, r.attempts, FALSE)
             /\ r.batch = b /\ r.state \in InFlightStates /\ AfterClose(b, Stamp[i])
    BY <1>5, <2>2 DEF ReconcileEffect
  <2>3. CASE /\ s = Row("excluded_not_slip", b, r.attempts, FALSE)
             /\ \/ r.state \in {"unbound", "no_session"}
                \/ r.state = "received" /\ r.batch = b
    BY <1>5, <2>3 DEF ReconcileEffect, InFlightStates
  <2>4. CASE /\ s = Row("received", b, r.attempts, FALSE)
             /\ r.state \in {"unbound", "no_session"}
    BY <1>5, <2>4 DEF ReconcileEffect
  <2> QED
    BY <1>4, <2>1, <2>2, <2>3, <2>4 DEF s
<1> QED
  BY <1>6, <1>7 DEF r, s

Attachable == InFlightStates \cup {"failed_permanent"}

(* What the attach of the attempt n does to a row r. *)
AttachEffect(i, n, r, s) ==
    \/ s = r
    \/ /\ s.batch = r.batch /\ s.attempts = n
       /\ r.state \in Attachable /\ r.attempts = n /\ r.batch \in Batches
       /\ \/ s.state = "late_after_finalize" /\ status[r.batch] \notin OpenStates
          \/ s.state = "excluded_after_close" /\ AfterClose(r.batch, Stamp[i])
          \/ s.state = "attached" /\ status[r.batch] \in OpenStates

(* An attach acts on a row that is not settled, for its latest attempt. *)
LEMMA AttachedShape ==
    ASSUME TypeOK, NEW i \in Images, NEW n \in Attempts
    PROVE  /\ AttachedRow(i, n) \in RowType
           /\ AttachEffect(i, n, ledger[i], AttachedRow(i, n))
<1> DEFINE r == ledger[i]
<1>1. r \in RowType
  BY DEF TypeOK, LedgerType
<1> HIDE DEF r
<1>2. /\ r.state \in RowStates /\ r.batch \in Batches \cup {NoBatch}
      /\ r.attempts \in 0..MaxAttempts
      /\ r.batch = NoBatch <=> r.state \in Sessionless
      /\ r.batch = NoBatch => r.attempts = 0
  BY <1>1, RowTypeFields
<1>3. CASE AttachedRow(i, n) = r
  BY <1>1, <1>3 DEF AttachEffect, r
<1>4. CASE AttachedRow(i, n) # r
  <2>1. /\ r.state \notin {"attached", "excluded_after_close", "excluded_not_slip",
                          "late_after_finalize"}
        /\ r.attempts = n
    BY <1>4 DEF AttachedRow, r
  <2>2. r.attempts # 0
    BY <2>1, Bounds DEF Attempts
  <2>3. PICK t \in {"late_after_finalize", "excluded_after_close", "attached"} :
            /\ AttachedRow(i, n) = Row(t, r.batch, n, FALSE)
            /\ t = "excluded_after_close" =>
                  AfterClose(r.batch, Stamp[i]) /\ status[r.batch] \in OpenStates
            /\ t = "attached" => status[r.batch] \in OpenStates
            /\ t = "late_after_finalize" => status[r.batch] \notin OpenStates
    BY <1>4 DEF AttachedRow, r
  <2>4. r.batch \in Batches /\ r.state \in Attachable
    BY <1>2, <2>1, <2>2 DEF Sessionless, Attachable, RowStates
  <2>5. Row(t, r.batch, n, FALSE) \in RowType
    <3>1. t \in RowStates /\ t \notin Sessionless
      BY DEF RowStates, Sessionless
    <3>2. n \in 0..MaxAttempts
      BY <1>2, <2>1
    <3> QED
      BY <2>4, <3>1, <3>2, Bounds, RowIsTyped
  <2>6. /\ Row(t, r.batch, n, FALSE).state = t /\ Row(t, r.batch, n, FALSE).batch = r.batch
        /\ Row(t, r.batch, n, FALSE).attempts = n
    BY DEF Row
  <2>7. AttachEffect(i, n, r, AttachedRow(i, n))
    BY <2>1, <2>3, <2>4, <2>6 DEF AttachEffect
  <2> QED
    BY <2>3, <2>5, <2>7 DEF r
<1> QED
  BY <1>3, <1>4

(* What the failure of the attempt n does to a row r. *)
FailEffect(n, r, s) ==
    \/ s = r
    \/ /\ s.batch = r.batch /\ s.attempts = n
       /\ r.state \in InFlightStates /\ r.attempts = n /\ r.batch \in Batches
       /\ s.state \in {"failed_permanent", "retry_pending"}

(* A failure ends an attempt that holds the row, or changes nothing. *)
LEMMA FailedShape ==
    ASSUME TypeOK, NEW i \in Images, NEW n \in Attempts
    PROVE  /\ FailedRow(i, n) \in RowType
           /\ FailEffect(n, ledger[i], FailedRow(i, n))
<1> DEFINE r == ledger[i]
<1>1. r \in RowType
  BY DEF TypeOK, LedgerType
<1> HIDE DEF r
<1>2. /\ r.state \in RowStates /\ r.batch \in Batches \cup {NoBatch}
      /\ r.attempts \in 0..MaxAttempts
      /\ r.batch = NoBatch <=> r.state \in Sessionless
  BY <1>1, RowTypeFields
<1>3. CASE FailedRow(i, n) = r
  BY <1>1, <1>3 DEF FailEffect, r
<1>4. CASE FailedRow(i, n) # r
  <2>1. r.state \in InFlightStates /\ r.attempts = n
    BY <1>4 DEF FailedRow, r
  <2>2. PICK t \in {"failed_permanent", "retry_pending"} :
            FailedRow(i, n) = Row(t, r.batch, n, FALSE)
    BY <1>4 DEF FailedRow, r
  <2>3. r.batch \in Batches
    BY <1>2, <2>1 DEF Sessionless, InFlightStates
  <2>4. Row(t, r.batch, n, FALSE) \in RowType
    <3>1. t \in RowStates /\ t \notin Sessionless
      BY DEF RowStates, Sessionless, InFlightStates
    <3>2. n \in 0..MaxAttempts
      BY <1>2, <2>1
    <3> QED
      BY <2>3, <3>1, <3>2, Bounds, RowIsTyped
  <2>5. /\ Row(t, r.batch, n, FALSE).state = t /\ Row(t, r.batch, n, FALSE).batch = r.batch
        /\ Row(t, r.batch, n, FALSE).attempts = n
    BY DEF Row
  <2>6. FailEffect(n, r, FailedRow(i, n))
    BY <2>1, <2>2, <2>3, <2>5 DEF FailEffect
  <2> QED
    BY <2>2, <2>4, <2>6 DEF r
<1> QED
  BY <1>3, <1>4

-----------------------------------------------------------------------------
(***************************************************************************)
(* Steps, by what they change.                                             *)
(***************************************************************************)
(* begin is called by the queue worker and by the sweeps. *)
LEMMA BeginCalled ==
    ASSUME NEW i \in Images, ProcessImage(i) \/ Redrive(i)
    PROVE  \E caller \in {"queue", "loose"} : Begin(i, caller) /\ UNCHANGED sessions
BY DEF ProcessImage, Redrive, sessions

(* The steps that change a row of the ledger or a verdict. *)
LEMMA LedgerCases ==
    ASSUME [Next]_vars
    PROVE  \/ UNCHANGED <<verdict, ledger>>
           \/ \E i \in Images : Capture(i)
           \/ \E R \in Receipts : Receive(R)
           \/ \E e \in Opens, b \in Batches : OpenSession(e, b)
           \/ \E i \in Images, caller \in {"queue", "loose"} :
                 Begin(i, caller) /\ UNCHANGED sessions
           \/ \E i \in Images, n \in Attempts : Attach(i, n) \/ Fail(i, n)
           \/ \E i \in Images : Elapse(i)
           \/ \E b \in Batches, waited, ready \in BOOLEAN : ClaimClosing(b, waited, ready)
<1>1. CASE UNCHANGED vars
  BY <1>1 DEF vars, rows
<1>2. CASE Queueing
  BY <1>2 DEF Queueing, Take, Leave, Finish, Expire, rows
<1>3. CASE Commanding
  BY <1>3 DEF Commanding, OpenRefused, FindActive, CloseBatch, Cancel, rows
<1>4. CASE Ingesting
  <2>1. ASSUME NEW i \in Images, RowLocked(i) \/ ConsumeElsewhere(i)
        PROVE  UNCHANGED <<verdict, ledger>>
    BY <2>1 DEF RowLocked, ConsumeElsewhere, rows
  <2> QED
    BY <1>4, <2>1, BeginCalled DEF Ingesting
<1>5. CASE Finalizing
  BY <1>5 DEF Finalizing, Abandon, Account, Finalize, rows
<1> QED
  BY <1>1, <1>2, <1>3, <1>4, <1>5 DEF Next

(* The steps that change a batch. *)
LEMMA SessionCases ==
    ASSUME [Next]_vars
    PROVE  \/ UNCHANGED sessions
           \/ \E e \in Opens, b \in Batches : OpenSession(e, b)
           \/ \E e \in Closes : CloseBatch(e)
           \/ \E e \in Cancels, owner \in BOOLEAN : Cancel(e, owner)
           \/ \E b \in Batches, waited, ready \in BOOLEAN : ClaimClosing(b, waited, ready)
           \/ \E b \in Batches :
                 Abandon(b) \/ Account(b) \/ \E v \in {"all", "some", "none"} : Finalize(b, v)
<1>1. CASE UNCHANGED vars
  BY <1>1 DEF vars
<1>2. CASE Queueing
  BY <1>2 DEF Queueing, Capture, Receive, Take, Leave, Finish, Expire, sessions
<1>3. CASE Commanding
  BY <1>3 DEF Commanding, OpenRefused, FindActive
<1>4. CASE Ingesting
  BY <1>4 DEF Ingesting, ProcessImage, RowLocked, ConsumeElsewhere, Redrive, Elapse,
              Attach, Fail, Over
<1>5. CASE Finalizing
  BY <1>5 DEF Finalizing
<1> QED
  BY <1>1, <1>2, <1>3, <1>4, <1>5 DEF Next

TryRange == {"none", "queue", "loose", "over"}

(* The steps that change what became of an attempt. *)
LEMMA TryCases ==
    ASSUME [Next]_vars, LedgerType, NEW i \in Images
    PROVE  \A n \in Attempts :
               \/ try'[i][n] = try[i][n]
               \/ try[i][n] = "queue" /\ try'[i][n] = "loose"
               \/ Claims(i) /\ \E caller \in {"queue", "loose"} : Begin(i, caller)
               \/ (Attach(i, n) \/ Fail(i, n)) /\ try'[i][n] = "over"
<1>0. try \in [Images -> [Attempts -> TryRange]]
  BY DEF LedgerType, TryRange
<1>1. CASE UNCHANGED try
  BY <1>1
<1>2. ASSUME NEW e \in Events, Leave(e)
      PROVE  \A n \in Attempts :
                 try'[i][n] = try[i][n] \/ (try[i][n] = "queue" /\ try'[i][n] = "loose")
  <2>1. CASE e = i
    <3>1. try'[i] = [n \in Attempts |-> IF try[i][n] = "queue" THEN "loose" ELSE try[i][n]]
      BY <1>0, <1>2, <2>1 DEF Leave, Orphaned
    <3> QED
      BY <3>1
  <2>2. CASE e # i
    BY <1>0, <1>2, <2>2 DEF Leave, Orphaned
  <2> QED
    BY <2>1, <2>2
<1>3. ASSUME NEW j \in Images, NEW caller \in {"queue", "loose"}, Begin(j, caller)
      PROVE  \A n \in Attempts :
                 \/ try'[i][n] = try[i][n]
                 \/ Claims(i) /\ \E c \in {"queue", "loose"} : Begin(i, c)
  <2> DEFINE r == Bound(j)
  <2>1. CASE BeginOutcome(j, r) = "ingesting"
    <3>1. try' = [try EXCEPT ![j][r.attempts + 1] = caller]
      BY <1>3, <2>1 DEF Begin
    <3> HIDE DEF r
    <3>2. CASE j # i
      BY <1>0, <3>1, <3>2
    <3>3. CASE j = i
      BY <1>3, <2>1, <3>3 DEF Claims, r
    <3> QED
      BY <3>2, <3>3
  <2>2. CASE BeginOutcome(j, r) # "ingesting"
    BY <1>3, <2>2 DEF Begin
  <2> QED
    BY <2>1, <2>2
<1>4. ASSUME NEW j \in Images, NEW m \in Attempts, Attach(j, m) \/ Fail(j, m)
      PROVE  \A n \in Attempts :
                 \/ try'[i][n] = try[i][n]
                 \/ (Attach(i, n) \/ Fail(i, n)) /\ try'[i][n] = "over"
  <2>1. try' = [try EXCEPT ![j][m] = "over"]
    BY <1>4 DEF Attach, Fail, Over
  <2>2. ASSUME NEW n \in Attempts, ~ (j = i /\ m = n)
        PROVE  try'[i][n] = try[i][n]
    BY <1>0, <2>1, <2>2
  <2>3. try'[j][m] = "over"
    BY <1>0, <2>1
  <2> QED
    BY <1>4, <2>2, <2>3
<1>5. CASE UNCHANGED vars
  BY <1>1, <1>5 DEF vars, rows
<1>6. CASE Queueing
  BY <1>1, <1>2, <1>6 DEF Queueing, Capture, Receive, Take, Finish, Expire, rows
<1>7. CASE Commanding
  BY <1>1, <1>7 DEF Commanding, OpenRefused, OpenSession, FindActive, CloseBatch, Cancel, rows
<1>8. CASE Ingesting
  <2>1. ASSUME NEW j \in Images, RowLocked(j) \/ ConsumeElsewhere(j) \/ Elapse(j)
        PROVE  UNCHANGED try
    BY <2>1 DEF RowLocked, ConsumeElsewhere, Elapse, rows
  <2>2. ASSUME NEW j \in Images, ProcessImage(j) \/ Redrive(j)
        PROVE  \E caller \in {"queue", "loose"} : Begin(j, caller)
    BY <2>2, BeginCalled
  <2>3. PICK j \in Images :
            \/ UNCHANGED try
            \/ \E caller \in {"queue", "loose"} : Begin(j, caller)
            \/ \E m \in Attempts : Attach(j, m) \/ Fail(j, m)
    BY <1>8, <2>1, <2>2 DEF Ingesting
  <2> QED
    BY <1>1, <1>3, <1>4, <2>3
<1>9. CASE Finalizing
  BY <1>1, <1>9 DEF Finalizing, ClaimClosing, Abandon, Account, Finalize, rows
<1> QED
  BY <1>5, <1>6, <1>7, <1>8, <1>9 DEF Next

-----------------------------------------------------------------------------
(***************************************************************************)
(* Type correctness.                                                       *)
(***************************************************************************)
LEMMA TypeInit == Init => TypeOK
<1> SUFFICES ASSUME Init PROVE TypeOK
  OBVIOUS
<1>1. WorkerType
  BY DEF Init, WorkerType, Events
<1>2. SessionType
  BY DEF Init, SessionType
<1>3. LedgerType
  BY NoRowIsTyped DEF Init, LedgerType
<1> QED
  BY <1>1, <1>2, <1>3 DEF TypeOK

(* The newest of the open batches is a batch. *)
LEMMA NewestActive == Active # {} => Newest(Active) \in Batches /\ Newest(Active) \in Active
<1>1. Active \in SUBSET Batches
  BY DEF Active
<1> QED
  BY <1>1, NewestInside

(* Every step keeps the types of the workers. *)
LEMMA WorkerTypeStep == TypeOK /\ [Next]_vars => WorkerType'
<1> SUFFICES ASSUME TypeOK, [Next]_vars PROVE WorkerType'
  OBVIOUS
<1>0. WorkerType
  BY DEF TypeOK
<1>a. Images \subseteq Events /\ Commands \subseteq Events /\ Images \cap Closes = {}
  BY KindAssumption DEF Events, Commands
<1>b. Opens \subseteq Events /\ Closes \subseteq Events /\ Cancels \subseteq Events
  BY DEF Events
<1>1. CASE UNCHANGED workers
  BY <1>0, <1>1 DEF WorkerType, workers
<1>2. ASSUME NEW R \in Receipts, Receive(R)
      PROVE  WorkerType'
  BY <1>0, <1>2 DEF WorkerType, Receive
<1>3. ASSUME NEW e \in Events, Take(e) \/ Leave(e) \/ Finish(e) \/ Expire(e)
      PROVE  WorkerType'
  <2>1. target' = target
    BY <1>3 DEF Take, Leave, Finish, Expire
  <2>2. queue' \in [Events -> {"unseen", "waiting", "taken", "done", "dropped"}]
    BY <1>0, <1>3 DEF WorkerType, Take, Leave, Finish, Expire
  <2>3. work' \in [Events -> {"off", "on", "waits", "closes", "aside", "done"}]
    BY <1>0, <1>3 DEF WorkerType, Take, Leave, Finish, Expire
  <2>4. ASSUME NEW f \in Closes, work'[f] = "closes"
        PROVE  work[f] = "closes"
    BY <1>0, <1>b, <1>3, <2>4 DEF WorkerType, Take, Leave, Finish, Expire
  <2> QED
    BY <1>0, <2>1, <2>2, <2>3, <2>4 DEF WorkerType
<1>4. ASSUME NEW e \in Events, Done(e), UNCHANGED <<queue, target>>
      PROVE  WorkerType'
  BY <1>0, <1>4 DEF WorkerType, Done
<1>5. ASSUME NEW e \in Closes, FindActive(e)
      PROVE  WorkerType'
  <2>1. CASE Active = {}
    BY <1>0, <1>4, <1>b, <1>5, <2>1 DEF FindActive
  <2>2. CASE Active # {}
    <3>1. /\ work' = [work EXCEPT ![e] = "closes"]
          /\ target' = [target EXCEPT ![e] = Newest(Active)]
          /\ queue' = queue
      BY <1>5, <2>2 DEF FindActive
    <3>2. Newest(Active) \in Batches /\ Newest(Active) # NoBatch
      BY <2>2, NewestActive, Bounds
    <3> QED
      BY <1>0, <1>b, <3>1, <3>2 DEF WorkerType
  <2> QED
    BY <2>1, <2>2
<1>6. ASSUME NEW i \in Images, ProcessImage(i)
      PROVE  WorkerType'
  BY <1>0, <1>a, <1>6 DEF WorkerType, ProcessImage
<1>7. ASSUME NEW i \in Images, NEW n \in Attempts, Over(i, n)
      PROVE  WorkerType'
  BY <1>0, <1>a, <1>7 DEF WorkerType, Over
<1>8. CASE Queueing
  BY <1>1, <1>2, <1>3, <1>8 DEF Queueing, Capture
<1>9. CASE Commanding
  BY <1>b, <1>4, <1>5, <1>9 DEF Commanding, OpenRefused, OpenSession, CloseBatch, Cancel
<1>10. CASE Ingesting
  <2>1. ASSUME NEW i \in Images, Redrive(i) \/ Elapse(i)
        PROVE  UNCHANGED workers
    BY <2>1 DEF Redrive, Elapse
  <2>2. ASSUME NEW i \in Images, RowLocked(i) \/ ConsumeElsewhere(i)
        PROVE  Done(i) /\ UNCHANGED <<queue, target>>
    BY <2>2 DEF RowLocked, ConsumeElsewhere
  <2>3. ASSUME NEW i \in Images, NEW n \in Attempts, Attach(i, n) \/ Fail(i, n)
        PROVE  Over(i, n)
    BY <2>3 DEF Attach, Fail
  <2> QED
    BY <1>a, <1>1, <1>4, <1>6, <1>7, <1>10, <2>1, <2>2, <2>3 DEF Ingesting
<1>11. CASE Finalizing
  BY <1>1, <1>11 DEF Finalizing, ClaimClosing, Abandon, Account, Finalize
<1>12. CASE UNCHANGED vars
  BY <1>1, <1>12 DEF vars
<1> QED
  BY <1>8, <1>9, <1>10, <1>11, <1>12 DEF Next

BatchStatuses ==
    OpenStates \cup {"none", "processing", "completed", "review_needed", "failed", "cancelled"}

(* Every step keeps the types of the sessions. *)
LEMMA SessionTypeStep == TypeOK /\ [Next]_vars => SessionType'
<1> SUFFICES ASSUME TypeOK, [Next]_vars PROVE SessionType'
  OBVIOUS
<1>0. SessionType
  BY DEF TypeOK
<1>a. {"collecting", "closing", "processing", "cancelled"} \subseteq BatchStatuses
  BY DEF BatchStatuses, OpenStates
<1>1. CASE UNCHANGED sessions
  BY <1>0, <1>1 DEF SessionType, sessions
<1>2. ASSUME NEW e \in Opens, NEW b \in Batches, OpenSession(e, b)
      PROVE  SessionType'
  <2>1. e # None
    BY KindAssumption DEF Events
  <2> QED
    BY <1>0, <1>a, <1>2, <2>1 DEF SessionType, OpenSession, BatchStatuses
<1>3. ASSUME NEW e \in Closes \cup Cancels, NEW b \in Batches, NEW s \in {"closing", "cancelled"},
             \/ UNCHANGED <<status, closer>>
             \/ /\ status[b] # "none"
                /\ status' = [status EXCEPT ![b] = s] /\ closer' = [closer EXCEPT ![b] = e],
             UNCHANGED <<opener, counted, claimed>>
      PROVE  SessionType'
  BY <1>0, <1>a, <1>3 DEF SessionType, BatchStatuses
<1>4. ASSUME NEW e \in Closes, CloseBatch(e)
      PROVE  SessionType'
  <2>1. target[e] \in Batches
    BY <1>4, Bounds DEF CloseBatch, TypeOK, WorkerType
  <2> QED
    BY <1>3, <1>4, <2>1 DEF CloseBatch
<1>5. ASSUME NEW e \in Cancels, NEW owner \in BOOLEAN, Cancel(e, owner)
      PROVE  SessionType'
  <2>1. CASE Active # {}
    BY <1>3, <1>5, <2>1, NewestActive DEF Cancel
  <2>2. CASE Active = {}
    BY <1>0, <1>5, <2>2 DEF Cancel, SessionType
  <2> QED
    BY <2>1, <2>2
<1>6. ASSUME NEW b \in Batches, NEW waited \in BOOLEAN, NEW ready \in BOOLEAN,
             ClaimClosing(b, waited, ready)
      PROVE  SessionType'
  BY <1>0, <1>a, <1>6 DEF SessionType, ClaimClosing, BatchStatuses
<1>7. ASSUME NEW b \in Batches, Abandon(b)
      PROVE  SessionType'
  BY <1>0, <1>a, <1>7 DEF SessionType, Abandon, BatchStatuses
<1>8. ASSUME NEW b \in Batches, Account(b)
      PROVE  SessionType'
  BY <1>0, <1>8 DEF SessionType, Account
<1>9. ASSUME NEW b \in Batches, NEW v \in {"all", "some", "none"}, Finalize(b, v)
      PROVE  SessionType'
  <2>1. FinalStatus(b, v) \in BatchStatuses
    BY DEF FinalStatus, BatchStatuses
  <2> QED
    BY <1>0, <1>9, <2>1 DEF SessionType, Finalize, BatchStatuses
<1> QED
  BY <1>1, <1>2, <1>4, <1>5, <1>6, <1>7, <1>8, <1>9, SessionCases

(* Every step keeps the types of the ledger. *)
LEMMA LedgerTypeStep == TypeOK /\ [Next]_vars => LedgerType'
<1> SUFFICES ASSUME TypeOK, [Next]_vars PROVE LedgerType'
  OBVIOUS
<1>0. LedgerType
  BY DEF TypeOK
<1> DEFINE Typed == verdict' \in [Images -> RowType] /\ ledger' \in [Images -> RowType]
<1>1. Typed
  <2>1. CASE UNCHANGED <<verdict, ledger>>
    BY <1>0, <2>1 DEF LedgerType
  <2>2. ASSUME NEW i \in Images, Capture(i)
        PROVE  Typed
    BY <1>0, <2>2, ResolveShape DEF LedgerType, Capture
  <2>3. ASSUME NEW R \in Receipts, Receive(R)
        PROVE  Typed
    BY <1>0, <2>3, NoRowIsTyped DEF LedgerType, Receive
  <2>4. ASSUME NEW e \in Opens, NEW b \in Batches, OpenSession(e, b)
        PROVE  Typed
    <3>1. ledger' = Adopted(e, b) /\ verdict' = verdict
      BY <2>4 DEF OpenSession
    <3>2. \A i \in Images : Adopted(e, b)[i] \in RowType
      BY AdoptedShape
    <3>3. Adopted(e, b) = [i \in Images |-> Adopted(e, b)[i]]
      BY DEF Adopted
    <3> QED
      BY <1>0, <3>1, <3>2, <3>3 DEF LedgerType
  <2>5. ASSUME NEW i \in Images, NEW caller \in {"queue", "loose"}, Begin(i, caller)
        PROVE  Typed
    <3>1. Begun(Bound(i), BeginOutcome(i, Bound(i))) \in RowType
      BY BeginShape
    <3>2. /\ ledger' = [ledger EXCEPT ![i] = Begun(Bound(i), BeginOutcome(i, Bound(i)))]
          /\ verdict' = verdict
      BY <2>5 DEF Begin
    <3> QED
      BY <1>0, <3>1, <3>2 DEF LedgerType
  <2>6. ASSUME NEW i \in Images, NEW n \in Attempts, Attach(i, n) \/ Fail(i, n)
        PROVE  Typed
    <3>1. AttachedRow(i, n) \in RowType /\ FailedRow(i, n) \in RowType
      BY AttachedShape, FailedShape
    <3>2. verdict' = verdict
      BY <2>6 DEF Attach, Fail, Over
    <3>3. \/ ledger' = [ledger EXCEPT ![i] = AttachedRow(i, n)]
          \/ ledger' = [ledger EXCEPT ![i] = FailedRow(i, n)]
      BY <2>6 DEF Attach, Fail
    <3> QED
      BY <1>0, <3>1, <3>2, <3>3 DEF LedgerType
  <2>7. ASSUME NEW i \in Images, Elapse(i)
        PROVE  Typed
    <3> DEFINE s == [ledger[i] EXCEPT !.due = TRUE]
    <3>1. s \in RowType
      <4>1. ledger[i] \in RowType /\ ledger[i].state \in {"ingesting", "retry_pending"}
        BY <1>0, <2>7 DEF LedgerType, Elapse
      <4> QED
        BY <4>1 DEF RowType, RowRecord
    <3>2. ledger' = [ledger EXCEPT ![i] = s] /\ verdict' = verdict
      BY <1>0, <2>7 DEF Elapse, LedgerType
    <3> QED
      BY <1>0, <3>1, <3>2 DEF LedgerType
  <2>8. ASSUME NEW b \in Batches, NEW waited \in BOOLEAN, NEW ready \in BOOLEAN,
               ClaimClosing(b, waited, ready)
        PROVE  Typed
    <3>1. ledger' = Reconciled(b) /\ verdict' = verdict
      BY <2>8 DEF ClaimClosing
    <3>2. \A i \in Images : Reconciled(b)[i] \in RowType
      BY ReconciledShape
    <3>3. Reconciled(b) = [i \in Images |-> Reconciled(b)[i]]
      BY DEF Reconciled
    <3> QED
      BY <1>0, <3>1, <3>2, <3>3 DEF LedgerType
  <2> HIDE DEF Typed
  <2> QED
    BY <2>1, <2>2, <2>3, <2>4, <2>5, <2>6, <2>7, <2>8, LedgerCases
<1>2. try' \in [Images -> [Attempts -> TryRange]]
  <2>0. try \in [Images -> [Attempts -> TryRange]]
    BY <1>0 DEF LedgerType, TryRange
  <2>1. ASSUME NEW e \in Events, Leave(e)
        PROVE  try' \in [Images -> [Attempts -> TryRange]]
    BY <2>0, <2>1 DEF Leave, Orphaned, TryRange
  <2>2. ASSUME NEW i \in Images, NEW caller \in {"queue", "loose"}, Begin(i, caller)
        PROVE  try' \in [Images -> [Attempts -> TryRange]]
    BY <2>0, <2>2 DEF Begin, TryRange
  <2>3. ASSUME NEW i \in Images, NEW n \in Attempts, Over(i, n)
        PROVE  try' \in [Images -> [Attempts -> TryRange]]
    BY <2>0, <2>3 DEF Over, TryRange
  <2>4. CASE UNCHANGED vars
    BY <2>0, <2>4 DEF vars, rows
  <2>5. CASE Queueing
    BY <2>0, <2>1, <2>5 DEF Queueing, Capture, Receive, Take, Finish, Expire, rows
  <2>6. CASE Commanding
    BY <2>0, <2>6 DEF Commanding, OpenRefused, OpenSession, FindActive, CloseBatch, Cancel, rows
  <2>7. CASE Ingesting
    <3>1. ASSUME NEW j \in Images, RowLocked(j) \/ ConsumeElsewhere(j) \/ Elapse(j)
          PROVE  UNCHANGED try
      BY <3>1 DEF RowLocked, ConsumeElsewhere, Elapse, rows
    <3>2. ASSUME NEW j \in Images, ProcessImage(j) \/ Redrive(j)
          PROVE  \E caller \in {"queue", "loose"} : Begin(j, caller)
      BY <3>2, BeginCalled
    <3>3. PICK j \in Images :
              \/ UNCHANGED try
              \/ \E caller \in {"queue", "loose"} : Begin(j, caller)
              \/ \E m \in Attempts : Over(j, m)
      BY <2>7, <3>1, <3>2 DEF Ingesting, Attach, Fail
    <3> QED
      BY <2>0, <2>2, <2>3, <3>3
  <2>8. CASE Finalizing
    BY <2>0, <2>8 DEF Finalizing, ClaimClosing, Abandon, Account, Finalize, rows
  <2> QED
    BY <2>4, <2>5, <2>6, <2>7, <2>8 DEF Next
<1>3. elsewhere' \subseteq Images
  BY <1>0 DEF LedgerType, Next, vars, rows, Queueing, Commanding, Ingesting, Finalizing,
              Capture, Receive, Take, Leave, Finish, Expire, OpenRefused, OpenSession,
              FindActive, CloseBatch, Cancel, ProcessImage, Redrive, Begin, RowLocked,
              ConsumeElsewhere, Attach, Fail, Over, Elapse, ClaimClosing, Abandon, Account,
              Finalize
<1> QED
  BY <1>1, <1>2, <1>3 DEF LedgerType, TryRange

(* Every variable has its type in every reachable state: in particular a   *)
(* row has a batch exactly when a session was found for it, as the table's *)
(* CHECK demands, and no attempt number exceeds the limit.                 *)
THEOREM TypeCorrect == Spec => []TypeOK
<1>1. TypeOK /\ [Next]_vars => TypeOK'
  BY WorkerTypeStep, SessionTypeStep, LedgerTypeStep DEF TypeOK
<1> QED
  BY <1>1, TypeInit, PTL DEF Spec

-----------------------------------------------------------------------------
(***************************************************************************)
(* What a step does to one batch and to one row.                           *)
(***************************************************************************)
SameBatch(b) ==
    /\ status'[b] = status[b] /\ opener'[b] = opener[b] /\ closer'[b] = closer[b]
    /\ counted'[b] = counted[b] /\ claimed'[b] = claimed[b]

Opened(b) ==
    /\ status[b] = "none" /\ status'[b] = "collecting"
    /\ \E e \in Opens : OpenSession(e, b) /\ opener'[b] = e
    /\ closer'[b] = closer[b] /\ counted'[b] = counted[b] /\ claimed'[b] = claimed[b]

Stopped(b) ==
    /\ status[b] = "collecting" /\ status'[b] \in {"closing", "cancelled"}
    /\ opener'[b] = opener[b] /\ closer'[b] # None
    /\ counted'[b] = counted[b] /\ claimed'[b] = claimed[b]

ClaimedBy(b) ==
    /\ \/ status[b] = "collecting" /\ Abandon(b)
       \/ status[b] = "closing" /\ \E w, y \in BOOLEAN : ClaimClosing(b, w, y)
    /\ status'[b] = "processing"
    /\ opener'[b] = opener[b] /\ closer'[b] = closer[b] /\ counted'[b] = counted[b]
    /\ claimed'[b] = {i \in Images : ledger'[i] # NoRow}

Accounted(b) ==
    /\ status[b] = "processing" /\ status'[b] = "processing"
    /\ opener'[b] = opener[b] /\ closer'[b] = closer[b] /\ claimed'[b] = claimed[b]
    /\ counted'[b] = IF Incomplete(b) = {} THEN "whole" ELSE "short"
    /\ ledger' = ledger

Finalized(b) ==
    /\ status[b] = "processing" /\ counted[b] # "no"
    /\ status'[b] \in {"completed", "review_needed", "failed"}
    /\ status'[b] = "completed" => counted[b] # "short"
    /\ opener'[b] = opener[b] /\ closer'[b] = closer[b]
    /\ counted'[b] = counted[b] /\ claimed'[b] = claimed[b]

(* All that a step can do to one batch session. *)
LEMMA BatchCases ==
    ASSUME TypeOK, [Next]_vars, NEW b \in Batches
    PROVE  \/ SameBatch(b) \/ Opened(b) \/ Stopped(b) \/ ClaimedBy(b) \/ Accounted(b)
           \/ Finalized(b)
<1>0. SessionType
  BY DEF TypeOK
<1>1. CASE UNCHANGED sessions
  BY <1>1 DEF SameBatch, sessions
<1>2. ASSUME NEW e \in Opens, NEW c \in Batches, OpenSession(e, c)
      PROVE  SameBatch(b) \/ Opened(b)
  BY <1>0, <1>2 DEF SessionType, OpenSession, SameBatch, Opened
<1>3. ASSUME NEW e \in Closes \cup Cancels, NEW c \in Batches, NEW s \in {"closing", "cancelled"},
             status[c] = "collecting", UNCHANGED <<opener, counted, claimed>>,
             status' = [status EXCEPT ![c] = s], closer' = [closer EXCEPT ![c] = e]
      PROVE  SameBatch(b) \/ Stopped(b)
  <2>1. e # None
    BY KindAssumption DEF Events
  <2> QED
    BY <1>0, <1>3, <2>1 DEF SessionType, SameBatch, Stopped
<1>4. ASSUME NEW e \in Closes, CloseBatch(e)
      PROVE  SameBatch(b) \/ Stopped(b)
  <2>1. target[e] \in Batches
    BY <1>4, Bounds DEF CloseBatch, TypeOK, WorkerType
  <2>2. CASE status[target[e]] = "collecting"
    BY <1>3, <1>4, <2>1, <2>2 DEF CloseBatch
  <2>3. CASE status[target[e]] # "collecting"
    BY <1>4, <2>3 DEF CloseBatch, SameBatch
  <2> QED
    BY <2>2, <2>3
<1>5. ASSUME NEW e \in Cancels, NEW owner \in BOOLEAN, Cancel(e, owner)
      PROVE  SameBatch(b) \/ Stopped(b)
  <2>1. CASE UNCHANGED <<status, closer>>
    BY <1>5, <2>1 DEF Cancel, SameBatch
  <2>2. CASE ~ UNCHANGED <<status, closer>>
    <3>1. /\ Active # {} /\ status[Newest(Active)] = "collecting"
          /\ status' = [status EXCEPT ![Newest(Active)] = "cancelled"]
          /\ closer' = [closer EXCEPT ![Newest(Active)] = e]
          /\ UNCHANGED <<opener, counted, claimed>>
      BY <1>5, <2>2 DEF Cancel
    <3> QED
      BY <1>3, <3>1, NewestActive
  <2> QED
    BY <2>1, <2>2
<1>6. ASSUME NEW c \in Batches, NEW w \in BOOLEAN, NEW y \in BOOLEAN, ClaimClosing(c, w, y)
      PROVE  SameBatch(b) \/ ClaimedBy(b)
  <2>1. /\ UNCHANGED <<opener, closer, counted>> /\ status[c] = "closing"
        /\ \/ UNCHANGED <<status, claimed>>
           \/ /\ status' = [status EXCEPT ![c] = "processing"]
              /\ claimed' = [claimed EXCEPT ![c] = {i \in Images : ledger'[i] # NoRow}]
    BY <1>6 DEF ClaimClosing
  <2>2. CASE UNCHANGED <<status, claimed>> \/ b # c
    BY <1>0, <2>1, <2>2 DEF SessionType, SameBatch
  <2>3. CASE b = c /\ ~ UNCHANGED <<status, claimed>>
    BY <1>0, <1>6, <2>1, <2>3 DEF SessionType, ClaimedBy
  <2> QED
    BY <2>2, <2>3
<1>7. ASSUME NEW c \in Batches, Abandon(c)
      PROVE  SameBatch(b) \/ ClaimedBy(b)
  <2>1. CASE b # c
    BY <1>0, <1>7, <2>1 DEF SessionType, Abandon, SameBatch
  <2>2. CASE b = c
    <3>1. ledger' = ledger
      BY <1>7 DEF Abandon, rows
    <3>2. /\ status' = [status EXCEPT ![b] = "processing"] /\ status[b] = "collecting"
          /\ claimed' = [claimed EXCEPT ![b] = {i \in Images : ledger'[i] # NoRow}]
          /\ UNCHANGED <<opener, closer, counted>>
      BY <1>7, <2>2, <3>1 DEF Abandon
    <3> QED
      BY <1>0, <1>7, <2>2, <3>2 DEF SessionType, ClaimedBy
  <2> QED
    BY <2>1, <2>2
<1>8. ASSUME NEW c \in Batches, Account(c)
      PROVE  SameBatch(b) \/ Accounted(b)
  BY <1>0, <1>8 DEF SessionType, Account, SameBatch, Accounted, rows
<1>9. ASSUME NEW c \in Batches, NEW v \in {"all", "some", "none"}, Finalize(c, v)
      PROVE  SameBatch(b) \/ Finalized(b)
  <2>1. /\ FinalStatus(c, v) \in {"completed", "review_needed", "failed"}
        /\ FinalStatus(c, v) = "completed" => counted[c] # "short"
    BY DEF FinalStatus
  <2> QED
    BY <1>0, <1>9, <2>1 DEF SessionType, Finalize, SameBatch, Finalized
<1> QED
  BY <1>1, <1>2, <1>4, <1>5, <1>6, <1>7, <1>8, <1>9, SessionCases

(* The image is received, with the session the trigger looked up. *)
Received(i) == queue[i] = "unseen" /\ queue'[i] # "unseen" /\ ledger'[i] = verdict[i]

AdoptedBy(i) ==
    \E e \in Opens, b \in Batches :
        OpenSession(e, b) /\ AdoptEffect(i, e, b, ledger[i], ledger'[i])

BegunBy(i) == UNCHANGED sessions /\ BeginEffect(i, ledger[i], ledger'[i])

AttachedBy(i) ==
    \E n \in Attempts :
        Attach(i, n) /\ UNCHANGED sessions /\ AttachEffect(i, n, ledger[i], ledger'[i])

FailedBy(i) ==
    \E n \in Attempts :
        Fail(i, n) /\ UNCHANGED sessions /\ FailEffect(n, ledger[i], ledger'[i])

Elapsed(i) ==
    /\ ledger[i].state \in {"ingesting", "retry_pending"}
    /\ ledger'[i].state = ledger[i].state /\ ledger'[i].batch = ledger[i].batch
    /\ ledger'[i].attempts = ledger[i].attempts
    /\ UNCHANGED try

ReconciledBy(i) ==
    \E b \in Batches : status[b] = "closing" /\ ReconcileEffect(i, b, ledger[i], ledger'[i])

(* All that a step can do to one ledger row. *)
LEMMA RowCases ==
    ASSUME TypeOK, [Next]_vars, NEW i \in Images
    PROVE  \/ ledger'[i] = ledger[i] \/ Received(i) \/ AdoptedBy(i) \/ BegunBy(i)
           \/ AttachedBy(i) \/ FailedBy(i) \/ Elapsed(i) \/ ReconciledBy(i)
<1>0. ledger \in [Images -> RowType]
  BY DEF TypeOK, LedgerType
<1>1. CASE UNCHANGED <<verdict, ledger>>
  BY <1>1
<1>2. ASSUME NEW j \in Images, Capture(j)
      PROVE  ledger'[i] = ledger[i]
  BY <1>2 DEF Capture
<1>3. ASSUME NEW R \in Receipts, Receive(R)
      PROVE  ledger'[i] = ledger[i] \/ Received(i)
  BY <1>3 DEF Receive, Received, Events
<1>4. ASSUME NEW e \in Opens, NEW b \in Batches, OpenSession(e, b)
      PROVE  AdoptedBy(i)
  BY <1>4, AdoptedShape DEF AdoptedBy, OpenSession
<1>5. ASSUME NEW j \in Images, NEW caller \in {"queue", "loose"}, Begin(j, caller),
             UNCHANGED sessions
      PROVE  ledger'[i] = ledger[i] \/ BegunBy(i)
  <2>1. ledger' = [ledger EXCEPT ![j] = Begun(Bound(j), BeginOutcome(j, Bound(j)))]
    BY <1>5 DEF Begin
  <2>2. CASE i = j
    BY <1>0, <1>5, <2>1, <2>2, BeginHasEffect DEF BegunBy
  <2>3. CASE i # j
    BY <1>0, <2>1, <2>3
  <2> QED
    BY <2>2, <2>3
<1>6. ASSUME NEW j \in Images, NEW n \in Attempts, Attach(j, n)
      PROVE  ledger'[i] = ledger[i] \/ AttachedBy(i)
  <2>1. ledger' = [ledger EXCEPT ![j] = AttachedRow(j, n)] /\ UNCHANGED sessions
    BY <1>6 DEF Attach, Over
  <2>2. CASE i = j
    BY <1>0, <1>6, <2>1, <2>2, AttachedShape DEF AttachedBy
  <2>3. CASE i # j
    BY <1>0, <2>1, <2>3
  <2> QED
    BY <2>2, <2>3
<1>7. ASSUME NEW j \in Images, NEW n \in Attempts, Fail(j, n)
      PROVE  ledger'[i] = ledger[i] \/ FailedBy(i)
  <2>1. ledger' = [ledger EXCEPT ![j] = FailedRow(j, n)] /\ UNCHANGED sessions
    BY <1>7 DEF Fail, Over
  <2>2. CASE i = j
    BY <1>0, <1>7, <2>1, <2>2, FailedShape DEF FailedBy
  <2>3. CASE i # j
    BY <1>0, <2>1, <2>3
  <2> QED
    BY <2>2, <2>3
<1>8. ASSUME NEW j \in Images, Elapse(j)
      PROVE  ledger'[i] = ledger[i] \/ Elapsed(i)
  BY <1>0, <1>8 DEF Elapse, Elapsed, RowType, RowRecord
<1>9. ASSUME NEW b \in Batches, NEW waited \in BOOLEAN, NEW ready \in BOOLEAN,
             ClaimClosing(b, waited, ready)
      PROVE  ReconciledBy(i)
  BY <1>9, ReconciledShape DEF ClaimClosing, ReconciledBy
<1> QED
  BY <1>1, <1>2, <1>3, <1>4, <1>5, <1>6, <1>7, <1>8, <1>9, LedgerCases

-----------------------------------------------------------------------------
(***************************************************************************)
(* The life of a batch.                                                    *)
(***************************************************************************)
ClaimedStates == {"processing", "completed", "review_needed", "failed"}

(* A batch has no close before it is closed or cancelled; only a claimed   *)
(* batch has images that were claimed and an accounting; and only an       *)
(* accounting that found nothing missing lets its summary be complete.     *)
SessionInv ==
    \A b \in Batches :
        /\ status[b] \in {"none", "collecting"} => closer[b] = None
        /\ status[b] \notin ClaimedStates => counted[b] = "no" /\ claimed[b] = {}
        /\ status[b] = "completed" => counted[b] = "whole"

(* No session breaks its invariant at the start. *)
LEMMA SessionInit == Init => SessionInv
BY DEF Init, SessionInv

(* A session keeps its invariant. *)
LEMMA SessionStep == TypeOK /\ SessionInv /\ [Next]_vars => SessionInv'
<1> SUFFICES ASSUME TypeOK, SessionInv, [Next]_vars, NEW b \in Batches
             PROVE  /\ status'[b] \in {"none", "collecting"} => closer'[b] = None
                    /\ status'[b] \notin ClaimedStates =>
                          counted'[b] = "no" /\ claimed'[b] = {}
                    /\ status'[b] = "completed" => counted'[b] = "whole"
  BY DEF SessionInv
<1>0. /\ status[b] \in {"none", "collecting"} => closer[b] = None
      /\ status[b] \notin ClaimedStates => counted[b] = "no" /\ claimed[b] = {}
      /\ status[b] = "completed" => counted[b] = "whole"
      /\ counted[b] \in {"no", "whole", "short"}
  BY DEF SessionInv, TypeOK, SessionType
<1>1. CASE SameBatch(b)
  BY <1>0, <1>1 DEF SameBatch
<1>2. CASE Opened(b)
  BY <1>0, <1>2 DEF Opened, ClaimedStates
<1>3. CASE Stopped(b)
  BY <1>0, <1>3 DEF Stopped, ClaimedStates
<1>4. CASE ClaimedBy(b)
  BY <1>0, <1>4 DEF ClaimedBy, ClaimedStates
<1>5. CASE Accounted(b)
  BY <1>0, <1>5 DEF Accounted, ClaimedStates
<1>6. CASE Finalized(b)
  BY <1>0, <1>6 DEF Finalized, ClaimedStates
<1> QED
  BY <1>1, <1>2, <1>3, <1>4, <1>5, <1>6, BatchCases

(* What a step leaves of a batch that exists: its opener, its close once   *)
(* it has one, and that it is past collecting, or past being open.         *)
LEMMA BatchMonotone ==
    ASSUME TypeOK, SessionInv, [Next]_vars, NEW b \in Batches, status[b] # "none"
    PROVE  /\ opener'[b] = opener[b] /\ status'[b] # "none"
           /\ closer[b] # None => closer'[b] = closer[b]
           /\ status[b] # "collecting" => status'[b] # "collecting" /\ closer'[b] = closer[b]
           /\ status[b] \notin OpenStates => status'[b] \notin OpenStates
<1>0. status[b] = "collecting" => closer[b] = None
  BY DEF SessionInv
<1>1. CASE SameBatch(b)
  BY <1>1 DEF SameBatch
<1>2. CASE Opened(b)
  BY <1>2 DEF Opened
<1>3. CASE Stopped(b)
  BY <1>0, <1>3 DEF Stopped, OpenStates
<1>4. CASE ClaimedBy(b)
  BY <1>4 DEF ClaimedBy, OpenStates
<1>5. CASE Accounted(b)
  BY <1>5 DEF Accounted, OpenStates
<1>6. CASE Finalized(b)
  BY <1>6 DEF Finalized, OpenStates
<1> QED
  BY <1>1, <1>2, <1>3, <1>4, <1>5, <1>6, BatchCases

StillAfterClose(b, t) == closer'[b] # None /\ t > Stamp[closer'[b]]

(* What was sent after the close of a session stays so. *)
LEMMA AfterCloseKept ==
    ASSUME TypeOK, SessionInv, [Next]_vars, NEW b \in Batches, NEW t, AfterClose(b, t)
    PROVE  StillAfterClose(b, t)
<1>1. closer[b] # None /\ t > Stamp[closer[b]]
  BY DEF AfterClose
<1>2. status[b] # "none"
  BY <1>1 DEF SessionInv
<1>3. closer'[b] = closer[b]
  BY <1>1, <1>2, BatchMonotone
<1> QED
  BY <1>1, <1>3 DEF StillAfterClose

(* A session never goes back: a close or a cancel that acts on a batch it  *)
(* read earlier, or a second one, reopens nothing and moves no close.      *)
THEOREM NoReopening == Spec => SessionsNeverReopen
<1>1. TypeOK /\ SessionInv /\ [Next]_vars =>
        [\A b \in Created :
            /\ status[b] # "collecting" => status'[b] # "collecting"
            /\ status[b] \notin OpenStates => status'[b] \notin OpenStates
            /\ closer[b] # None => closer'[b] = closer[b]]_vars
  BY BatchMonotone DEF Created
<1>2. TypeOK /\ SessionInv /\ [Next]_vars => SessionInv'
  BY SessionStep
<1> QED
  BY <1>1, <1>2, SessionInit, TypeCorrect, PTL DEF Spec, SessionsNeverReopen

-----------------------------------------------------------------------------
(***************************************************************************)
(* The life of a row.                                                      *)
(***************************************************************************)
FreshStates == {"none", "received", "late_after_finalize", "excluded_after_close", "unbound"}

(* A verdict is one of the trigger's. *)
VerdictInv == \A i \in Images : verdict[i].state \in FreshStates

(* An image has no row before its event is received. *)
SeenInv == \A i \in Images : queue[i] = "unseen" => ledger[i] = NoRow

(* An image excluded for coming after a close does come after that close.  *)
ExcludedInv ==
    \A i \in Images :
        /\ ledger[i].state = "excluded_after_close" => AfterClose(ledger[i].batch, Stamp[i])
        /\ verdict[i].state = "excluded_after_close" => AfterClose(verdict[i].batch, Stamp[i])

(* The attempt that a retry follows has a number and has answered.         *)
AnsweredInv ==
    \A i \in Images :
        ledger[i].state = "retry_pending" =>
            /\ ledger[i].attempts \in Attempts
            /\ try[i][ledger[i].attempts] = "over"

RowInv == VerdictInv /\ SeenInv /\ ExcludedInv /\ AnsweredInv

(* The rows satisfy their invariant at the start: there are none. *)
LEMMA RowInit == Init => RowInv
<1> SUFFICES ASSUME Init PROVE RowInv
  OBVIOUS
<1>1. \A i \in Images : verdict[i] = NoRow /\ ledger[i] = NoRow
  BY DEF Init
<1>2. NoRow.state = "none"
  BY DEF NoRow, Row
<1> QED
  BY <1>1, <1>2 DEF RowInv, VerdictInv, SeenInv, ExcludedInv, AnsweredInv, FreshStates

(* A verdict is kept, cleared or looked up. *)
LEMMA VerdictCases ==
    ASSUME TypeOK, [Next]_vars, NEW i \in Images
    PROVE  \/ verdict'[i] = verdict[i] \/ verdict'[i] = NoRow
           \/ verdict'[i] = Resolve(i) /\ UNCHANGED sessions
<1>0. verdict \in [Images -> RowType]
  BY DEF TypeOK, LedgerType
<1>1. ASSUME NEW j \in Images, Capture(j)
      PROVE  verdict'[i] = verdict[i] \/ (verdict'[i] = Resolve(i) /\ UNCHANGED sessions)
  BY <1>0, <1>1 DEF Capture
<1>2. ASSUME NEW R \in Receipts, Receive(R)
      PROVE  verdict'[i] = verdict[i] \/ verdict'[i] = NoRow
  BY <1>0, <1>2 DEF Receive
<1>3. ASSUME NEW j \in Images, NEW n \in Attempts, Attach(j, n) \/ Fail(j, n)
      PROVE  verdict' = verdict
  BY <1>3 DEF Attach, Fail, Over
<1> QED
  BY <1>1, <1>2, <1>3, LedgerCases DEF OpenSession, Begin, Elapse, ClaimClosing

(* A verdict is still one of the trigger's. *)
LEMMA VerdictStep == TypeOK /\ VerdictInv /\ [Next]_vars => VerdictInv'
<1> SUFFICES ASSUME TypeOK, VerdictInv, [Next]_vars, NEW i \in Images
             PROVE  verdict'[i].state \in FreshStates
  BY DEF VerdictInv
<1>1. NoRow.state = "none"
  BY DEF NoRow, Row
<1> QED
  BY <1>1, VerdictCases, ResolveShape DEF VerdictInv, FreshStates

(* An event that has been received stays received. *)
LEMMA SeenForGood ==
    ASSUME TypeOK, [Next]_vars, NEW i \in Images, queue[i] # "unseen"
    PROVE  queue'[i] # "unseen"
<1>0. queue \in [Events -> {"unseen", "waiting", "taken", "done", "dropped"}] /\ i \in Events
  BY DEF TypeOK, WorkerType, Events
<1>1. CASE queue' = queue
  BY <1>1
<1>2. CASE Queueing
  BY <1>0, <1>2 DEF Queueing, Capture, Receive, Take, Leave, Finish, Expire, workers
<1>3. CASE Commanding
  BY <1>1, <1>3 DEF Commanding, OpenRefused, OpenSession, FindActive, CloseBatch, Cancel
<1>4. CASE Ingesting
  BY <1>1, <1>4 DEF Ingesting, ProcessImage, RowLocked, ConsumeElsewhere, Redrive, Elapse,
                    Attach, Fail, Over, workers
<1>5. CASE Finalizing
  BY <1>1, <1>5 DEF Finalizing, ClaimClosing, Abandon, Account, Finalize, workers
<1>6. CASE UNCHANGED vars
  BY <1>1, <1>6 DEF vars, workers
<1> QED
  BY <1>2, <1>3, <1>4, <1>5, <1>6 DEF Next

Settled == {"attached", "excluded_after_close", "excluded_not_slip", "late_after_finalize"}

(* A row keeps its batch, and a settled row keeps everything. *)
LEMMA RowKept ==
    ASSUME TypeOK, SeenInv, [Next]_vars, NEW i \in Images
    PROVE  /\ ledger[i].batch # NoBatch => ledger'[i].batch = ledger[i].batch
           /\ ledger[i].state \in Settled => ledger'[i] = ledger[i]
<1> DEFINE r == ledger[i]
           s == ledger'[i]
<1>0. /\ r \in RowType /\ r.state \in RowStates
      /\ r.batch = NoBatch <=> r.state \in Sessionless
  BY RowTypeFields DEF TypeOK, LedgerType
<1>1. CASE s = r
  BY <1>1
<1>2. CASE Received(i)
  <2>1. r.batch = NoBatch /\ r.state = "none"
    BY <1>2 DEF SeenInv, Received, NoRow, Row
  <2> QED
    BY <2>1 DEF Settled
<1>3. CASE AdoptedBy(i)
  BY <1>0, <1>3 DEF AdoptedBy, AdoptEffect, Settled, Sessionless
<1>4. CASE BegunBy(i)
  BY <1>0, <1>4 DEF BegunBy, BeginEffect, Settled, Sessionless, InFlightStates
<1>5. CASE AttachedBy(i)
  BY <1>5 DEF AttachedBy, AttachEffect, Settled, Attachable, InFlightStates
<1>6. CASE FailedBy(i)
  BY <1>6 DEF FailedBy, FailEffect, Settled, InFlightStates
<1>7. CASE Elapsed(i)
  BY <1>7 DEF Elapsed, Settled
<1>8. CASE ReconciledBy(i)
  BY <1>0, <1>8 DEF ReconciledBy, ReconcileEffect, Settled, InFlightStates, Sessionless
<1> QED
  BY <1>1, <1>2, <1>3, <1>4, <1>5, <1>6, <1>7, <1>8, RowCases

(* Where each state of a row comes from. *)
LEMMA RowOrigin ==
    ASSUME TypeOK, VerdictInv, [Next]_vars, NEW i \in Images, ledger'[i] # ledger[i]
    PROVE  /\ ledger'[i].state = "attached" =>
                 /\ AttachedBy(i) /\ ledger'[i].batch = ledger[i].batch
                 /\ status[ledger[i].batch] \in OpenStates
           /\ ledger'[i].state = "excluded_after_close" =>
                 \/ Received(i)
                 \/ AfterClose(ledger'[i].batch, Stamp[i])
           /\ ledger'[i].state = "retry_pending" => FailedBy(i) \/ Elapsed(i)
           /\ ledger'[i].state = "no_session" => BegunBy(i) /\ Takers(Stamp[i]) = {}
           /\ ledger[i].state = "failed_permanent" => AttachedBy(i) \/ Received(i)
           /\ ledger'[i].state = "none" => Received(i)
<1> DEFINE r == ledger[i]
           s == ledger'[i]
           Goal == /\ s.state = "attached" =>
                        AttachedBy(i) /\ s.batch = r.batch /\ status[r.batch] \in OpenStates
                   /\ s.state = "excluded_after_close" =>
                        Received(i) \/ AfterClose(s.batch, Stamp[i])
                   /\ s.state = "retry_pending" => FailedBy(i) \/ Elapsed(i)
                   /\ s.state = "no_session" => BegunBy(i) /\ Takers(Stamp[i]) = {}
                   /\ r.state = "failed_permanent" => AttachedBy(i) \/ Received(i)
                   /\ s.state = "none" => Received(i)
<1> SUFFICES Goal
  OBVIOUS
<1>0. r \in RowType
  BY DEF TypeOK, LedgerType
<1>1. CASE Received(i)
  BY <1>1 DEF Received, VerdictInv, FreshStates
<1>2. CASE AdoptedBy(i)
  BY <1>2 DEF AdoptedBy, AdoptEffect
<1>3. CASE BegunBy(i)
  BY <1>3 DEF BegunBy, BeginEffect, InFlightStates
<1>4. CASE AttachedBy(i)
  BY <1>4 DEF AttachedBy, AttachEffect
<1>5. CASE FailedBy(i)
  BY <1>5 DEF FailedBy, FailEffect, InFlightStates
<1>6. CASE Elapsed(i)
  BY <1>6 DEF Elapsed
<1>7. CASE ReconciledBy(i)
  BY <1>7 DEF ReconciledBy, ReconcileEffect, InFlightStates
<1> QED
  BY <1>1, <1>2, <1>3, <1>4, <1>5, <1>6, <1>7, RowCases

(* Only the receipt of its event gives an image a row. *)
LEMMA AbsentKept ==
    ASSUME TypeOK, [Next]_vars, NEW i \in Images, ledger[i] = NoRow, ledger'[i] # NoRow
    PROVE  Received(i)
<1>0. /\ NoRow.state = "none" /\ NoRow.batch = NoBatch /\ NoRow.attempts = 0
  BY DEF NoRow, Row
<1>1. ~ AdoptedBy(i)
  BY <1>0 DEF AdoptedBy, AdoptEffect
<1>2. ~ BegunBy(i)
  BY <1>0 DEF BegunBy, BeginEffect, InFlightStates
<1>3. ~ AttachedBy(i)
  BY <1>0 DEF AttachedBy, AttachEffect, Attachable, InFlightStates
<1>4. ~ FailedBy(i)
  BY <1>0 DEF FailedBy, FailEffect, InFlightStates
<1>5. ~ Elapsed(i)
  BY <1>0 DEF Elapsed
<1>6. ~ ReconciledBy(i)
  BY <1>0, Bounds DEF ReconciledBy, ReconcileEffect, InFlightStates
<1> QED
  BY <1>1, <1>2, <1>3, <1>4, <1>5, <1>6, RowCases

(* An image whose event is not received still has no row. *)
LEMMA SeenStep == TypeOK /\ SeenInv /\ [Next]_vars => SeenInv'
<1> SUFFICES ASSUME TypeOK, SeenInv, [Next]_vars, NEW i \in Images, queue'[i] = "unseen"
             PROVE  ledger'[i] = NoRow
  BY DEF SeenInv
<1>1. queue[i] = "unseen"
  BY SeenForGood
<1>2. ledger[i] = NoRow
  BY <1>1 DEF SeenInv
<1> QED
  BY <1>2, AbsentKept DEF Received

(* A row excluded for coming after a close still comes after it. *)
LEMMA ExcludedStep == TypeOK /\ SessionInv /\ RowInv /\ [Next]_vars => ExcludedInv'
<1> SUFFICES ASSUME TypeOK, SessionInv, RowInv, [Next]_vars, NEW i \in Images
             PROVE  /\ ledger'[i].state = "excluded_after_close" =>
                          StillAfterClose(ledger'[i].batch, Stamp[i])
                    /\ verdict'[i].state = "excluded_after_close" =>
                          StillAfterClose(verdict'[i].batch, Stamp[i])
  BY DEF ExcludedInv, AfterClose, StillAfterClose
<1>0. TypeOK'
  BY WorkerTypeStep, SessionTypeStep, LedgerTypeStep DEF TypeOK
<1>a. ASSUME NEW r \in RowType, r.state = "excluded_after_close", AfterClose(r.batch, Stamp[i])
      PROVE  StillAfterClose(r.batch, Stamp[i])
  <2>1. r.batch \in Batches
    BY <1>a, RowTypeFields DEF Sessionless
  <2> QED
    BY <1>a, <2>1, AfterCloseKept
<1>1. /\ ledger[i].state = "excluded_after_close" => AfterClose(ledger[i].batch, Stamp[i])
      /\ verdict[i].state = "excluded_after_close" => AfterClose(verdict[i].batch, Stamp[i])
  BY DEF RowInv, ExcludedInv
<1>2. ASSUME ledger'[i].state = "excluded_after_close"
      PROVE  AfterClose(ledger'[i].batch, Stamp[i])
  <2>1. CASE ledger'[i] = ledger[i]
    BY <1>1, <1>2, <2>1
  <2>2. CASE ledger'[i] # ledger[i]
    BY <1>1, <1>2, <2>2, RowOrigin DEF RowInv, Received
  <2> QED
    BY <2>1, <2>2
<1>3. ASSUME verdict'[i].state = "excluded_after_close"
      PROVE  AfterClose(verdict'[i].batch, Stamp[i])
  <2>1. NoRow.state = "none"
    BY DEF NoRow, Row
  <2> QED
    BY <1>1, <1>3, <2>1, VerdictCases, ResolveShape
<1>4. ledger'[i] \in RowType /\ verdict'[i] \in RowType
  BY <1>0 DEF TypeOK, LedgerType
<1> QED
  BY <1>a, <1>2, <1>3, <1>4

(* A retry still follows an attempt that has answered. *)
LEMMA AnsweredStep == TypeOK /\ RowInv /\ [Next]_vars => AnsweredInv'
<1> SUFFICES ASSUME TypeOK, RowInv, [Next]_vars, NEW i \in Images,
                    ledger'[i].state = "retry_pending"
             PROVE  /\ ledger'[i].attempts \in Attempts
                    /\ try'[i][ledger'[i].attempts] = "over"
  BY DEF AnsweredInv
<1> DEFINE r == ledger[i]
           s == ledger'[i]
<1>0. r \in RowType /\ try \in [Images -> [Attempts -> TryRange]]
  BY DEF TypeOK, LedgerType, TryRange
<1>a. r.state = "retry_pending" => r.attempts \in Attempts /\ try[i][r.attempts] = "over"
  BY DEF RowInv, AnsweredInv
<1>1. CASE s = r
  <2> DEFINE n == r.attempts
  <2>1. n \in Attempts /\ try[i][n] = "over"
    BY <1>a, <1>1
  <2>2. ~ (Claims(i) /\ \E caller \in {"queue", "loose"} : Begin(i, caller))
    <3>1. ASSUME NEW caller \in {"queue", "loose"}, Begin(i, caller), Claims(i)
          PROVE  s = Row("ingesting", Bound(i).batch, Bound(i).attempts + 1, FALSE)
      <4>1. s = Begun(Bound(i), BeginOutcome(i, Bound(i)))
        BY <3>1 DEF Begin, TypeOK, LedgerType
      <4> QED
        BY <3>1, <4>1 DEF Begun, Claims
    <3>2. Row("ingesting", Bound(i).batch, Bound(i).attempts + 1, FALSE).state = "ingesting"
      BY DEF Row
    <3> QED
      BY <3>1, <3>2
  <2>3. try'[i][n] = "over"
    BY <2>1, <2>2, TryCases DEF TypeOK
  <2> QED
    BY <1>1, <2>1, <2>3
<1>2. CASE s # r /\ FailedBy(i)
  <2>1. PICK n \in Attempts : Fail(i, n) /\ FailEffect(n, r, s)
    BY <1>2 DEF FailedBy
  <2>3. s.attempts = n
    BY <1>2, <2>1 DEF FailEffect
  <2>4. try'[i][n] = "over"
    BY <1>0, <2>1 DEF Fail, Over
  <2> QED
    BY <2>3, <2>4
<1>3. CASE s # r /\ Elapsed(i)
  <2>1. s.state = r.state /\ s.attempts = r.attempts /\ try' = try
    BY <1>3 DEF Elapsed
  <2> QED
    BY <1>a, <2>1
<1> QED
  BY <1>1, <1>2, <1>3, RowOrigin DEF RowInv

(* The invariants of a batch and of a row hold together. *)
Inv == TypeOK /\ SessionInv /\ RowInv

(* The inductive invariant is kept by every step. *)
LEMMA InvStep == Inv /\ [Next]_vars => Inv'
<1>1. TypeOK /\ [Next]_vars => TypeOK'
  BY WorkerTypeStep, SessionTypeStep, LedgerTypeStep DEF TypeOK
<1>2. TypeOK /\ RowInv /\ [Next]_vars => VerdictInv' /\ SeenInv'
  BY VerdictStep, SeenStep DEF RowInv
<1> QED
  BY <1>1, <1>2, SessionStep, ExcludedStep, AnsweredStep DEF Inv, RowInv

(* The inductive invariant holds in every reachable state. *)
LEMMA InvHolds == Spec => []Inv
<1>1. Init => Inv
  BY TypeInit, SessionInit, RowInit DEF Inv
<1> QED
  BY <1>1, InvStep, PTL DEF Spec

(* A row is retried only after its latest attempt answered: an attempt     *)
(* that lost its lease to a newer one cannot end the newer one.            *)
THEOREM RetriesFollowAnswers == Spec => []RetryFollowsAnswer
<1>1. Inv => RetryFollowsAnswer
  BY DEF Inv, RowInv, AnsweredInv, RetryFollowsAnswer
<1> QED
  BY <1>1, InvHolds, PTL

(* The total of a batch that was claimed or cancelled is settled, however  *)
(* late an attempt answers and however often the ledger is reconciled.     *)
THEOREM TotalsSettle == Spec => TotalsAreSettled
<1>1. ASSUME Inv, [Next]_vars, NEW b \in Created, status[b] \notin OpenStates
      PROVE  Attached(b)' = Attached(b)
  <2>1. ASSUME NEW i \in Images
        PROVE  (ledger[i].batch = b /\ ledger[i].state = "attached")
                 <=> (ledger'[i].batch = b /\ ledger'[i].state = "attached")
    <3>1. CASE ledger'[i] = ledger[i]
      BY <3>1
    <3>2. CASE ledger'[i] # ledger[i]
      <4>1. ledger[i].state # "attached"
        BY <1>1, <3>2, RowKept DEF Inv, RowInv, Settled
      <4>2. ~ (ledger'[i].batch = b /\ ledger'[i].state = "attached")
        BY <1>1, <3>2, RowOrigin DEF Inv, RowInv
      <4> QED
        BY <4>1, <4>2
    <3> QED
      BY <3>1, <3>2
  <2> QED
    BY <2>1 DEF Attached
<1>2. Inv /\ [Next]_vars =>
        [\A b \in Created : status[b] \notin OpenStates => Attached(b)' = Attached(b)]_vars
  BY <1>1
<1> QED
  BY <1>2, InvHolds, PTL DEF Spec, TotalsAreSettled

(* An image's fate is never revised, save that of an image given up on, by *)
(* the last attempt made for it.                                           *)
THEOREM FatesAreFixed == Spec => FateIsFixed
<1>1. ASSUME Inv, [Next]_vars, NEW i \in Images
      PROVE  LET r == ledger[i]
                 s == ledger'[i]
             IN  /\ r.batch # NoBatch => s.batch = r.batch
                 /\ r.state \in {"attached", "excluded_after_close", "excluded_not_slip",
                                "late_after_finalize"} => s = r
                 /\ r.state = "failed_permanent" /\ s # r =>
                       try[i][r.attempts] # "over" /\ try'[i][r.attempts] = "over"
  <2>1. /\ ledger[i].batch # NoBatch => ledger'[i].batch = ledger[i].batch
        /\ ledger[i].state \in Settled => ledger'[i] = ledger[i]
    BY <1>1, RowKept DEF Inv, RowInv
  <2>2. ASSUME ledger[i].state = "failed_permanent", ledger'[i] # ledger[i]
        PROVE  try[i][ledger[i].attempts] # "over" /\ try'[i][ledger[i].attempts] = "over"
    <3>1. ~ Received(i)
      BY <1>1, <2>2 DEF Received, Inv, RowInv, SeenInv, NoRow, Row
    <3>2. AttachedBy(i)
      BY <1>1, <2>2, <3>1, RowOrigin DEF Inv, RowInv
    <3>3. PICK n \in Attempts : Attach(i, n) /\ AttachEffect(i, n, ledger[i], ledger'[i])
      BY <3>2 DEF AttachedBy
    <3>4. ledger[i].attempts = n
      BY <2>2, <3>3 DEF AttachEffect
    <3>5. try[i][n] # "over" /\ try'[i][n] = "over"
      <4>1. try \in [Images -> [Attempts -> TryRange]]
        BY <1>1 DEF Inv, TypeOK, LedgerType, TryRange
      <4> QED
        BY <3>3, <4>1 DEF Attach, Running, Over
    <3> QED
      BY <3>4, <3>5
  <2> QED
    BY <2>1, <2>2 DEF Settled
<1>2. Inv /\ [Next]_vars =>
        [\A i \in Images :
            LET r == ledger[i]
                s == ledger'[i]
            IN  /\ r.batch # NoBatch => s.batch = r.batch
                /\ r.state \in {"attached", "excluded_after_close", "excluded_not_slip",
                               "late_after_finalize"} => s = r
                /\ r.state = "failed_permanent" /\ s # r =>
                        try[i][r.attempts] # "over" /\ try'[i][r.attempts] = "over"]_vars
  BY <1>1
<1> QED
  BY <1>2, InvHolds, PTL DEF Spec, FateIsFixed

-----------------------------------------------------------------------------
(***************************************************************************)
(* no_session.                                                             *)
(***************************************************************************)
(* A session that exists covers no LINE time that it did not cover.        *)
LEMMA CoversKept ==
    ASSUME TypeOK, SessionInv, [Next]_vars, NEW b \in Batches, status[b] # "none", NEW t,
           ~ Covers(b, t)
    PROVE  ~ Covers(b, t)'
<1>1. opener'[b] = opener[b]
  BY BatchMonotone
<1>2. AfterClose(b, t) => StillAfterClose(b, t)
  BY AfterCloseKept
<1>3. Covers(b, t)' <=> Stamp[opener'[b]] <= t /\ ~ StillAfterClose(b, t)
  BY DEF Covers, AfterClose, StillAfterClose
<1> QED
  BY <1>1, <1>2, <1>3 DEF Covers

(* A session is looked at less and less: newer ones come before it.        *)
LEMMA RecentShrinks ==
    ASSUME TypeOK, SessionInv, [Next]_vars, NEW b \in Created, b \in Recent'
    PROVE  b \in Recent
<1> DEFINE N == {c \in Created : c > b}
           M == {c \in Created' : c > b}
<1>1. Created \subseteq Created'
  BY BatchMonotone DEF Created
<1>2. N \subseteq M
  BY <1>1
<1>3. MaxBatches \in Nat /\ Depth \in Nat
  BY BoundAssumption
<1>4. IsFiniteSet(1..MaxBatches)
  BY <1>3, FS_Interval
<1>5. Created' \subseteq 1..MaxBatches
  BY DEF Created, Batches
<1>6. IsFiniteSet(M)
  BY <1>4, <1>5, FS_Subset
<1>7. IsFiniteSet(N) /\ Cardinality(N) <= Cardinality(M)
  BY <1>2, <1>6, FS_Subset
<1>8. Cardinality(N) \in Nat /\ Cardinality(M) \in Nat
  BY <1>6, <1>7, FS_CardinalityType
<1>9. Cardinality(M) < Depth
  BY DEF Recent
<1> HIDE DEF N, M
<1>10. Cardinality(N) < Depth
  BY <1>3, <1>7, <1>8, <1>9
<1> QED
  BY <1>10 DEF Recent, N

(* A row without a session still has none it belongs to. *)
LEMMA NoSessionStep == Inv /\ NoSessionMeansNone /\ [Next]_vars => NoSessionMeansNone'
<1> SUFFICES ASSUME Inv, NoSessionMeansNone, [Next]_vars, NEW i \in Images,
                    NEW b \in (Recent \cap Active)', ledger'[i].state = "no_session"
             PROVE  ~ Covers(b, Stamp[i])'
  BY DEF NoSessionMeansNone
<1>0. /\ TypeOK /\ SessionInv /\ VerdictInv
      /\ b \in Batches /\ status'[b] \in OpenStates /\ b \in Recent'
  BY DEF Inv, RowInv, Active
<1>1. CASE status[b] = "none"
  <2>1. Opened(b)
    BY <1>0, <1>1, BatchCases
          DEF SameBatch, Stopped, ClaimedBy, Accounted, Finalized, OpenStates
  <2>2. PICK e \in Opens : OpenSession(e, b) /\ opener'[b] = e
    BY <2>1 DEF Opened
  <2>3. ledger'[i] = Adopted(e, b)[i]
    BY <2>2 DEF OpenSession
  <2>4. AdoptEffect(i, e, b, ledger[i], ledger'[i])
    BY <1>0, <2>3, AdoptedShape
  <2>5. ~ (Stamp[i] >= Stamp[e])
    BY <2>4 DEF AdoptEffect
  <2>6. Stamp[i] \in Nat /\ Stamp[e] \in Nat
    BY StampAssumption DEF Events
  <2>7. ~ (Stamp[opener'[b]] <= Stamp[i])
    BY <2>2, <2>5, <2>6
  <2> QED
    BY <2>7 DEF Covers
<1>2. CASE status[b] # "none"
  <2>1. b \in Created /\ status[b] \in OpenStates
    BY <1>0, <1>2, BatchMonotone DEF Created
  <2>2. b \in Recent \cap Active
    BY <1>0, <2>1, RecentShrinks DEF Active
  <2>3. CASE ledger'[i] = ledger[i]
    <3>1. ~ Covers(b, Stamp[i])
      BY <2>2, <2>3 DEF NoSessionMeansNone
    <3> QED
      BY <1>0, <1>2, <3>1, CoversKept
  <2>4. CASE ledger'[i] # ledger[i]
    <3>1. Takers(Stamp[i]) = {}
      BY <1>0, <2>4, RowOrigin
    <3>2. ~ Covers(b, Stamp[i])
      BY <2>1, <2>2, <3>1 DEF Takers
    <3> QED
      BY <1>0, <1>2, <3>2, CoversKept
  <2> QED
    BY <2>3, <2>4
<1> QED
  BY <1>1, <1>2

(* no_session is never a mistake while a session is open: no image of its  *)
(* window has that verdict, however late the session opened.               *)
THEOREM NoSessionIsRight == Spec => []NoSessionMeansNone
<1>1. Init => NoSessionMeansNone
  BY DEF Init, NoSessionMeansNone, NoRow, Row
<1> QED
  BY <1>1, NoSessionStep, InvHolds, PTL DEF Spec

-----------------------------------------------------------------------------
(***************************************************************************)
(* Complete summaries.                                                     *)
(***************************************************************************)
(* An image in the ledger when a batch was claimed has a row; if the batch *)
(* was closed and does not have it, it is not one of its window, since the *)
(* claim adopted those.                                                    *)
ClaimInv ==
    \A b \in Batches : \A i \in claimed[b] :
        /\ ledger[i] # NoRow
        /\ closer[b] # None /\ ledger[i].batch = NoBatch => ~ Covers(b, Stamp[i])

(* What a batch held when its accounting found nothing missing is settled. *)
WholeInv ==
    \A b \in Batches : \A i \in claimed[b] :
        counted[b] = "whole" /\ ledger[i].batch = b =>
            ledger[i].state \in {"attached", "excluded_after_close", "excluded_not_slip"}

(* A row without a state is no row. *)
LEMMA AbsentRow ==
    ASSUME NEW r \in RowType
    PROVE  r.state = "none" <=> r = NoRow
BY DEF RowType, RowRecord, NoRow, Row

(* A step keeps what a claim of completeness rests on. *)
LEMMA ClaimStep == Inv /\ ClaimInv /\ [Next]_vars => ClaimInv'
<1> SUFFICES ASSUME Inv, ClaimInv, [Next]_vars, NEW b \in Batches, NEW i \in claimed'[b]
             PROVE  /\ ledger'[i] # NoRow
                    /\ closer'[b] # None /\ ledger'[i].batch = NoBatch => ~ Covers(b, Stamp[i])'
  BY DEF ClaimInv
<1>0. TypeOK /\ SessionInv /\ SeenInv /\ VerdictInv /\ TypeOK'
  BY InvStep DEF Inv, RowInv
<1>1. i \in Images /\ ledger[i] \in RowType /\ ledger'[i] \in RowType
  BY <1>0 DEF TypeOK, SessionType, LedgerType
<1>2. CASE claimed'[b] = claimed[b]
  <2>1. /\ i \in claimed[b] /\ ledger[i] # NoRow
        /\ closer[b] # None /\ ledger[i].batch = NoBatch => ~ Covers(b, Stamp[i])
    BY <1>2 DEF ClaimInv
  <2>2. status[b] \in ClaimedStates
    BY <2>1 DEF Inv, SessionInv
  <2>3. status[b] # "none" /\ closer'[b] = closer[b]
    BY <1>0, <2>2, BatchMonotone DEF ClaimedStates
  <2>4. ledger'[i] # NoRow
    <3>1. CASE ledger'[i] = ledger[i]
      BY <2>1, <3>1
    <3>2. CASE ledger'[i] # ledger[i]
      <4>1. ~ Received(i)
        BY <1>0, <1>1, <2>1 DEF SeenInv, Received
      <4>2. ledger'[i].state # "none"
        BY <1>0, <1>1, <3>2, <4>1, RowOrigin
      <4> QED
        BY <1>1, <4>2, AbsentRow
    <3> QED
      BY <3>1, <3>2
  <2>5. ledger'[i].batch = NoBatch => ledger[i].batch = NoBatch
    BY <1>0, <1>1, RowKept
  <2>6. ~ Covers(b, Stamp[i]) => ~ Covers(b, Stamp[i])'
    BY <1>0, <2>3, CoversKept
  <2> QED
    BY <2>1, <2>3, <2>4, <2>5, <2>6
<1>3. CASE ClaimedBy(b)
  <2>1. ledger'[i] # NoRow /\ closer'[b] = closer[b] /\ opener'[b] = opener[b]
    BY <1>3 DEF ClaimedBy
  <2>2. CASE status[b] = "collecting"
    BY <1>0, <2>1, <2>2 DEF SessionInv
  <2>3. CASE status[b] = "closing"
    <3>1. PICK w \in BOOLEAN, y \in BOOLEAN : ClaimClosing(b, w, y)
      BY <1>3, <2>3 DEF ClaimedBy
    <3>2. ledger'[i] = Reconciled(b)[i]
      BY <3>1 DEF ClaimClosing
    <3>3. ASSUME ledger'[i].batch = NoBatch
          PROVE  ~ Covers(b, Stamp[i])
      <4>1. ReconcileEffect(i, b, ledger[i], ledger'[i])
        BY <1>0, <1>1, <3>2, ReconciledShape
      <4>2. /\ ledger'[i] = ledger[i]
            /\ ledger[i].state \in {"unbound", "no_session"} => ~ Covers(b, Stamp[i])
        BY <3>3, <4>1, Bounds DEF ReconcileEffect
      <4>3. ledger[i].state \in Sessionless /\ ledger[i].state # "none"
        BY <1>1, <2>1, <3>3, <4>2, RowTypeFields, AbsentRow
      <4> QED
        BY <4>2, <4>3 DEF Sessionless
    <3>4. ~ Covers(b, Stamp[i]) => ~ Covers(b, Stamp[i])'
      BY <1>0, <2>3, CoversKept
    <3> QED
      BY <2>1, <3>3, <3>4
  <2> QED
    BY <1>3, <2>2, <2>3 DEF ClaimedBy
<1> QED
  BY <1>0, <1>2, <1>3, BatchCases DEF SameBatch, Opened, Stopped, Accounted, Finalized

(* Nothing is bound to a claimed batch that was not bound to it when it    *)
(* was claimed.                                                            *)
LEMMA NothingJoins ==
    ASSUME Inv, ClaimInv, [Next]_vars, NEW b \in Batches, NEW i \in claimed[b],
           status[b] \in ClaimedStates, ledger[i].batch = NoBatch
    PROVE  ledger'[i].batch # b
<1> DEFINE r == ledger[i]
           s == ledger'[i]
<1>0. /\ TypeOK /\ SessionInv /\ SeenInv /\ i \in Images /\ r \in RowType
      /\ b # NoBatch /\ r # NoRow
      /\ status[b] \notin OpenStates /\ status[b] # "none"
  BY Bounds DEF Inv, RowInv, TypeOK, SessionType, LedgerType, ClaimInv, ClaimedStates, OpenStates
<1>1. CASE s = r
  BY <1>0, <1>1
<1>2. CASE Received(i)
  BY <1>0, <1>2 DEF Received, SeenInv
<1>3. CASE AdoptedBy(i)
  BY <1>0, <1>3 DEF AdoptedBy, AdoptEffect, OpenSession
<1>4. CASE BegunBy(i)
  <2>1. b \notin Closing(Stamp[i])
    BY <1>0 DEF Closing, OpenStates
  <2>2. b \notin Takers(Stamp[i])
    BY <1>0 DEF Takers, ClaimInv
  <2> QED
    BY <1>0, <1>4, <2>1, <2>2 DEF BegunBy, BeginEffect
<1>5. CASE AttachedBy(i)
  BY <1>0, <1>5 DEF AttachedBy, AttachEffect
<1>6. CASE FailedBy(i)
  BY <1>0, <1>6 DEF FailedBy, FailEffect
<1>7. CASE Elapsed(i)
  BY <1>0, <1>7 DEF Elapsed
<1>8. CASE ReconciledBy(i)
  BY <1>0, <1>8 DEF ReconciledBy, ReconcileEffect, OpenStates
<1> QED
  BY <1>0, <1>1, <1>2, <1>3, <1>4, <1>5, <1>6, <1>7, <1>8, RowCases

(* What a whole accounting counted stays settled. *)
LEMMA WholeStep == Inv /\ ClaimInv /\ WholeInv /\ [Next]_vars => WholeInv'
<1> SUFFICES ASSUME Inv, ClaimInv, WholeInv, [Next]_vars, NEW b \in Batches,
                    NEW i \in claimed'[b], counted'[b] = "whole", ledger'[i].batch = b
             PROVE  ledger'[i].state \in {"attached", "excluded_after_close", "excluded_not_slip"}
  BY DEF WholeInv
<1>0. /\ TypeOK /\ SessionInv /\ SeenInv /\ b # NoBatch
      /\ status[b] \notin ClaimedStates => counted[b] = "no"
  BY Bounds DEF Inv, RowInv, SessionInv
<1>a. TypeOK'
  BY InvStep DEF Inv
<1>b. i \in Images
  BY <1>a DEF TypeOK, SessionType
<1>1. CASE Accounted(b)
  <2>1. Incomplete(b) = {} /\ ledger' = ledger
    BY <1>1 DEF Accounted
  <2>2. ledger[i] \in RowType
    BY <1>0, <1>b DEF TypeOK, LedgerType
  <2>3. ledger[i].state \in RowStates /\ ledger[i].state \notin Sessionless
    BY <1>0, <2>1, <2>2, RowTypeFields
  <2>4. ledger[i].state \notin
            InFlightStates \cup {"failed_permanent", "late_after_finalize"}
    BY <1>b, <2>1 DEF Incomplete
  <2> QED
    BY <2>1, <2>3, <2>4 DEF RowStates, Sessionless
<1>2. CASE claimed'[b] = claimed[b] /\ counted'[b] = counted[b]
  <2>1. i \in claimed[b] /\ counted[b] = "whole" /\ status[b] \in ClaimedStates
    BY <1>0, <1>2
  <2>2. ledger[i].batch # NoBatch => ledger[i].batch = b
    BY <1>0, <1>b, RowKept
  <2>3. ledger[i].batch # NoBatch
    BY <2>1, NothingJoins
  <2>4. ledger[i].state \in {"attached", "excluded_after_close", "excluded_not_slip"}
    BY <2>1, <2>2, <2>3 DEF WholeInv
  <2>5. ledger'[i] = ledger[i]
    BY <1>0, <1>b, <2>4, RowKept DEF Settled
  <2> QED
    BY <2>4, <2>5
<1>3. CASE ClaimedBy(b)
  BY <1>0, <1>3 DEF ClaimedBy, ClaimedStates
<1> QED
  BY <1>0, <1>1, <1>2, <1>3, BatchCases DEF SameBatch, Opened, Stopped, Finalized

(* Both hold in every reachable state. *)
LEMMA ClaimsHold == Spec => [](ClaimInv /\ WholeInv)
<1>1. Init => ClaimInv /\ WholeInv
  BY DEF Init, ClaimInv, WholeInv
<1> QED
  BY <1>1, ClaimStep, WholeStep, InvHolds, PTL DEF Spec

(* No image that was in the ledger when its batch was claimed is missing   *)
(* from a summary called complete.                                         *)
THEOREM CompleteIsAccounted == Spec => []CompletedIsAccounted
<1>1. Inv /\ WholeInv => CompletedIsAccounted
  BY DEF Inv, SessionInv, WholeInv, CompletedIsAccounted
<1> QED
  BY <1>1, InvHolds, ClaimsHold, PTL

(* A summary that calls a closed session complete is complete: it has      *)
(* every image of the session's window, save those that another flow took  *)
(* or that another session has.                                            *)
THEOREM CompleteIsWhole == Spec => []CompletedIsWhole
<1>1. ASSUME Inv, ClaimInv, WholeInv, NEW b \in Batches, NEW i \in claimed[b],
             status[b] = "completed", closer[b] # None, Within(b, i)
      PROVE  \/ ledger[i].batch = b /\ ledger[i].state \in {"attached", "excluded_not_slip"}
             \/ ledger[i].batch \notin {b, NoBatch}
  <2>1. i \in Images /\ Covers(b, Stamp[i]) /\ counted[b] = "whole"
    BY <1>1 DEF Inv, TypeOK, SessionType, SessionInv, Within
  <2>2. ledger[i].batch # NoBatch
    BY <1>1, <2>1 DEF ClaimInv
  <2>3. ASSUME ledger[i].batch = b
        PROVE  ledger[i].state \in {"attached", "excluded_not_slip"}
    <3>1. ledger[i].state \in {"attached", "excluded_after_close", "excluded_not_slip"}
      BY <1>1, <2>1, <2>3 DEF WholeInv
    <3>2. ledger[i].state # "excluded_after_close"
      BY <1>1, <2>1, <2>3 DEF Inv, RowInv, ExcludedInv, Covers
    <3> QED
      BY <3>1, <3>2
  <2> QED
    BY <2>2, <2>3
<1>2. Inv /\ ClaimInv /\ WholeInv => CompletedIsWhole
  BY <1>1 DEF CompletedIsWhole
<1> QED
  BY <1>2, InvHolds, ClaimsHold, PTL

-----------------------------------------------------------------------------
(***************************************************************************)
(* The ledger implements SlipCollection.  A row, or the verdict on an      *)
(* image that is being received, names a session that exists, and calls an *)
(* image late only when that session takes no images any more.             *)
(***************************************************************************)
Sound(r) ==
    /\ r.batch # NoBatch => r.batch \in Batches /\ status[r.batch] # "none"
    /\ r.state = "late_after_finalize" => status[r.batch] \notin OpenStates

SoundNext(r) ==
    /\ r.batch # NoBatch => r.batch \in Batches /\ status'[r.batch] # "none"
    /\ r.state = "late_after_finalize" => status'[r.batch] \notin OpenStates

SoundInv == \A i \in Images : Sound(ledger[i]) /\ Sound(verdict[i])

(* What was sound stays so. *)
LEMMA SoundKept ==
    ASSUME TypeOK, SessionInv, [Next]_vars, NEW r \in RowType, Sound(r)
    PROVE  SoundNext(r)
<1>1. r.batch = NoBatch <=> r.state \in Sessionless
  BY RowTypeFields
<1>2. CASE r.batch = NoBatch
  BY <1>1, <1>2 DEF SoundNext, Sessionless
<1>3. CASE r.batch # NoBatch
  BY <1>3, BatchMonotone DEF Sound, SoundNext
<1> QED
  BY <1>2, <1>3

LEMMA ResolveIsSound ==
    ASSUME NEW i \in Images
    PROVE  Sound(Resolve(i))
<1>1. /\ Resolve(i) \in RowType
      /\ Resolve(i).batch # NoBatch =>
            Resolve(i).batch \in Takers(Stamp[i]) \cup Closing(Stamp[i])
      /\ Resolve(i).state = "late_after_finalize" =>
            status[Resolve(i).batch] \notin OpenStates
  BY ResolveShape
<1> QED
  BY <1>1 DEF Sound, Takers, Closing, Recent, Created

LEMMA NoRowIsSound == Sound(NoRow) /\ SoundNext(NoRow)
BY DEF Sound, SoundNext, NoRow, Row

(* What a row becomes is sound. *)
LEMMA RowStaysSound ==
    ASSUME Inv, SoundInv, [Next]_vars, NEW i \in Images
    PROVE  SoundNext(ledger'[i])
<1> DEFINE r == ledger[i]
           s == ledger'[i]
<1>0. /\ TypeOK /\ SessionInv /\ r \in RowType /\ verdict[i] \in RowType
      /\ Sound(r) /\ Sound(verdict[i])
      /\ r.batch = NoBatch <=> r.state \in Sessionless
  BY RowTypeFields DEF Inv, TypeOK, LedgerType, SoundInv
<1>a. SoundNext(r) /\ SoundNext(verdict[i])
  BY <1>0, SoundKept DEF Inv
<1>1. CASE s = r
  BY <1>1, <1>a
<1>2. CASE Received(i)
  BY <1>2, <1>a DEF Received
<1>3. CASE AdoptedBy(i)
  <2>1. PICK e \in Opens, b \in Batches :
            OpenSession(e, b) /\ AdoptEffect(i, e, b, r, s)
    BY <1>3 DEF AdoptedBy
  <2>2. status'[b] = "collecting"
    BY <1>0, <2>1 DEF OpenSession, TypeOK, SessionType
  <2> QED
    BY <1>a, <2>1, <2>2 DEF AdoptEffect, SoundNext
<1>4. CASE BegunBy(i)
  <2>1. status' = status
    BY <1>4 DEF BegunBy, sessions
  <2> QED
    BY <1>0, <1>a, <1>4, <2>1
       DEF BegunBy, BeginEffect, Takers, Closing, Recent, Created, Sound, SoundNext
<1>5. CASE AttachedBy(i)
  <2>1. status' = status
    BY <1>5 DEF AttachedBy, sessions
  <2> QED
    BY <1>0, <1>a, <1>5, <2>1, Bounds DEF AttachedBy, AttachEffect, Sound, SoundNext
<1>6. CASE FailedBy(i)
  BY <1>a, <1>6 DEF FailedBy, FailEffect, SoundNext
<1>7. CASE Elapsed(i)
  BY <1>a, <1>7 DEF Elapsed, SoundNext
<1>8. CASE ReconciledBy(i)
  <2>1. PICK b \in Batches : status[b] = "closing" /\ ReconcileEffect(i, b, r, s)
    BY <1>8 DEF ReconciledBy
  <2>2. status'[b] # "none"
    BY <1>0, <2>1, BatchMonotone
  <2> QED
    BY <1>a, <2>1, <2>2 DEF ReconcileEffect, SoundNext
<1> QED
  BY <1>0, <1>1, <1>2, <1>3, <1>4, <1>5, <1>6, <1>7, <1>8, RowCases

LEMMA SoundStep == Inv /\ SoundInv /\ [Next]_vars => SoundInv'
<1> SUFFICES ASSUME Inv, SoundInv, [Next]_vars, NEW i \in Images
             PROVE  SoundNext(ledger'[i]) /\ SoundNext(verdict'[i])
  BY DEF SoundInv, Sound, SoundNext
<1>1. /\ TypeOK /\ SessionInv /\ verdict[i] \in RowType /\ Sound(verdict[i])
      /\ Resolve(i) \in RowType
  BY ResolveShape DEF Inv, TypeOK, LedgerType, SoundInv
<1>2. SoundNext(verdict[i]) /\ SoundNext(Resolve(i)) /\ SoundNext(NoRow)
  BY <1>1, SoundKept, ResolveIsSound, NoRowIsSound
<1>3. SoundNext(verdict'[i])
  BY <1>1, <1>2, VerdictCases
<1> QED
  BY <1>3, RowStaysSound

LEMMA SoundHolds == Spec => []SoundInv
<1>1. Init => SoundInv
  BY NoRowIsSound DEF Init, SoundInv
<1> QED
  BY <1>1, SoundStep, InvHolds, PTL DEF Spec

(* The place of an image, read off its row. *)
LEMMA PlaceOf ==
    ASSUME NEW r \in RowType
    PROVE  /\ Place(r).of = r.batch
           /\ r.batch = NoBatch => Place(r) = Collection!Free
           /\ r.batch # NoBatch =>
                /\ r.state = "attached" <=> Place(r) = Collection!At(r.batch, "in")
                /\ r.state \in {"excluded_after_close", "excluded_not_slip"}
                     <=> Place(r) = Collection!At(r.batch, "out")
                /\ r.state = "late_after_finalize" <=> Place(r) = Collection!At(r.batch, "late")
                /\ r.state \in InFlightStates \cup {"failed_permanent"}
                     <=> Place(r) = Collection!At(r.batch, "owed")
           /\ Place(r) \in Collection!Places
<1>1. /\ r.state \in RowStates /\ r.batch \in Batches \cup {NoBatch}
      /\ r.batch = NoBatch <=> r.state \in Sessionless
  BY RowTypeFields
<1>2. CASE r.batch = NoBatch
  BY <1>1, <1>2 DEF Place, Sessionless, Collection!Free, Collection!At, Collection!Places
<1>3. CASE r.batch # NoBatch
  <2>1. r.batch \in Batches /\ r.state \notin Sessionless
    BY <1>1, <1>3
  <2>2. /\ Place(r).of = r.batch /\ Place(r) = Collection!At(r.batch, Place(r).is)
        /\ Place(r).is =
             IF r.state = "attached" THEN "in"
             ELSE IF r.state \in {"excluded_after_close", "excluded_not_slip"} THEN "out"
             ELSE IF r.state = "late_after_finalize" THEN "late" ELSE "owed"
    BY <1>3 DEF Place, Collection!At
  <2>3. \A x, y : Collection!At(r.batch, x) = Collection!At(r.batch, y) => x = y
    BY DEF Collection!At
  <2>4. Place(r).is \in {"owed", "in", "out", "late"}
    BY <2>2
  <2>5. Place(r) \in Collection!Places
    BY <2>1, <2>2, <2>4 DEF Collection!At, Collection!Places
  <2>6. r.state \in InFlightStates \cup {"failed_permanent"} <=>
          r.state \notin {"attached", "excluded_after_close", "excluded_not_slip",
                         "late_after_finalize"}
    BY <1>1, <2>1 DEF RowStates, InFlightStates, Sessionless
  <2> QED
    BY <1>3, <2>2, <2>3, <2>5, <2>6
<1> QED
  BY <1>2, <1>3

(* A row that goes from an in-flight state, or from none, to a sound one   *)
(* goes where SlipCollection lets it go.                                   *)
LEMMA RowMayGo ==
    ASSUME TypeOK, NEW i \in Images, NEW s \in RowType,
           s.batch \in Batches, Sound(s),
           \/ ledger[i].batch = NoBatch /\ s.state # "attached"
           \/ ledger[i].state \in InFlightStates \cup {"failed_permanent"}
              /\ ledger[i].batch = s.batch,
           s.state = "attached" => status[s.batch] \in OpenStates
    PROVE  Collection!MayGo(i, Place(s))
<1>1. /\ ledger[i] \in RowType /\ Place(s).of = s.batch /\ s.batch # NoBatch
      /\ Collection!Taking = OpenStates
  BY PlaceOf, Bounds DEF TypeOK, LedgerType, Collection!Taking, OpenStates
<1>2. /\ Place(s).is = "in" => s.state = "attached"
      /\ Place(s).is = "late" => s.state = "late_after_finalize"
  BY <1>1, PlaceOf DEF Place
<1>3. \/ Place(ledger[i]) = Collection!Free /\ s.state # "attached"
      \/ /\ Place(ledger[i]) = Collection!At(s.batch, "owed")
         /\ Place(ledger[i]) # Collection!Free
  <2>1. CASE ledger[i].batch = NoBatch
    BY <1>1, <2>1, PlaceOf DEF InFlightStates
  <2>2. CASE ledger[i].batch # NoBatch
    <3>1. Place(ledger[i]) = Collection!At(s.batch, "owed")
      BY <1>1, <2>2, PlaceOf
    <3> QED
      BY <1>1, <3>1 DEF Collection!At, Collection!Free
  <2> QED
    BY <2>1, <2>2
<1> QED
  BY <1>1, <1>2, <1>3 DEF Collection!MayGo, Sound

(* Wherever a step takes a row, other than the opening of a session, it    *)
(* goes where SlipCollection lets it go.                                   *)
LEMMA RowGoes ==
    ASSUME Inv, Inv', SoundInv, [Next]_vars, NEW i \in Images, ~ AdoptedBy(i)
    PROVE  \/ Place(ledger'[i]) = Place(ledger[i])
           \/ Collection!MayGo(i, Place(ledger'[i]))
<1> DEFINE r == ledger[i]
           s == ledger'[i]
<1>0. /\ TypeOK /\ r \in RowType /\ s \in RowType
      /\ Sound(r) /\ Sound(verdict[i]) /\ verdict[i].state \in FreshStates
      /\ r.batch = NoBatch <=> r.state \in Sessionless
      /\ s.batch \in Batches \cup {NoBatch}
  BY RowTypeFields DEF Inv, RowInv, VerdictInv, TypeOK, LedgerType, SoundInv
<1>1. CASE s.batch = NoBatch
  <2>1. r.batch = NoBatch
    BY <1>1, RowKept DEF Inv, RowInv
  <2> QED
    BY <1>0, <1>1, <2>1, PlaceOf
<1>2. CASE s = r
  BY <1>2
<1>3. CASE s.batch # NoBatch /\ Received(i)
  <2>1. s = verdict[i] /\ r.batch = NoBatch /\ s.state # "attached"
    BY <1>0, <1>3 DEF Received, Inv, RowInv, SeenInv, NoRow, Row, FreshStates
  <2> QED
    BY <1>0, <1>3, <2>1, RowMayGo
<1>4. CASE s # r /\ s.batch # NoBatch /\ BegunBy(i)
  <2>1. /\ r.batch = NoBatch \/ (r.state \in InFlightStates /\ r.batch = s.batch)
        /\ s.state # "attached"
    BY <1>0, <1>4 DEF BegunBy, BeginEffect, InFlightStates, Sessionless
  <2>2. Sound(s)
    BY <1>0, <1>4 DEF BegunBy, BeginEffect, Takers, Closing, Recent, Created, Sound
  <2> QED
    BY <1>0, <1>4, <2>1, <2>2, RowMayGo
<1>5. CASE s # r /\ s.batch # NoBatch /\ AttachedBy(i)
  <2>1. /\ r.state \in InFlightStates \cup {"failed_permanent"} /\ r.batch = s.batch
        /\ s.state = "attached" => status[s.batch] \in OpenStates
        /\ s.state = "late_after_finalize" => status[s.batch] \notin OpenStates
    BY <1>5 DEF AttachedBy, AttachEffect, Attachable
  <2>2. Sound(s)
    BY <1>0, <1>5, <2>1 DEF Sound
  <2> QED
    BY <1>0, <1>5, <2>1, <2>2, RowMayGo
<1>6. CASE s # r /\ s.batch # NoBatch /\ FailedBy(i)
  <2>1. /\ r.state \in InFlightStates /\ r.batch = s.batch
        /\ s.state \notin {"attached", "late_after_finalize"}
    BY <1>6 DEF FailedBy, FailEffect
  <2>2. Sound(s)
    BY <1>0, <1>6, <2>1 DEF Sound
  <2> QED
    BY <1>0, <1>6, <2>1, <2>2, RowMayGo
<1>7. CASE s.batch # NoBatch /\ Elapsed(i)
  <2>1. r.batch = s.batch /\ r.state = s.state
    BY <1>7 DEF Elapsed
  <2> QED
    BY <2>1 DEF Place
<1>8. CASE s # r /\ s.batch # NoBatch /\ ReconciledBy(i)
  <2>1. PICK b \in Batches : status[b] = "closing" /\ ReconcileEffect(i, b, r, s)
    BY <1>8 DEF ReconciledBy
  <2>2. /\ s.batch = b /\ s.state \notin {"attached", "late_after_finalize"}
        /\ r.batch = NoBatch \/ (r.state \in InFlightStates /\ r.batch = s.batch)
    BY <1>0, <1>8, <2>1 DEF ReconcileEffect, Sessionless
  <2>3. Sound(s)
    BY <2>1, <2>2 DEF Sound
  <2> QED
    BY <1>0, <1>8, <2>2, <2>3, RowMayGo
<1> QED
  BY <1>0, <1>1, <1>2, <1>3, <1>4, <1>5, <1>6, <1>7, <1>8, RowCases

Placed == [i \in Images |-> Place(ledger[i])]

LEMMA PlacedNext ==
    ASSUME TypeOK'
    PROVE  Placed' \in [Images -> Collection!Places]
BY PlaceOf DEF Placed, TypeOK, LedgerType

LEMMA PlacedSame == ASSUME UNCHANGED ledger PROVE UNCHANGED Placed
BY DEF Placed

(* The images of a session, in its total or missing from it. *)
LEMMA TotalsOf ==
    ASSUME TypeOK, NEW b \in Batches
    PROVE  /\ Collection!InTotal(b) = Attached(b)
           /\ Collection!Missing(b) = Incomplete(b)
<1>1. ASSUME NEW i \in Images
      PROVE  /\ Place(ledger[i]) = Collection!At(b, "in")
                  <=> ledger[i].batch = b /\ ledger[i].state = "attached"
             /\ Place(ledger[i]) \in {Collection!At(b, "owed"), Collection!At(b, "late")}
                  <=> /\ ledger[i].batch = b
                      /\ ledger[i].state \in
                            InFlightStates \cup {"failed_permanent", "late_after_finalize"}
  <2>1. ledger[i] \in RowType /\ b # NoBatch
    BY Bounds DEF TypeOK, LedgerType
  <2>2. Place(ledger[i]).of = ledger[i].batch
    BY <2>1, PlaceOf
  <2>3. \A x : Collection!At(b, x).of = b
    BY DEF Collection!At
  <2>4. CASE ledger[i].batch # b
    BY <2>2, <2>3, <2>4
  <2>5. CASE ledger[i].batch = b
    BY <2>1, <2>5, PlaceOf
  <2> QED
    BY <2>4, <2>5
<1>2. Collection!InTotal(b) = Attached(b)
  BY <1>1 DEF Collection!InTotal, Attached
<1>3. Collection!Missing(b) = Incomplete(b)
  BY <1>1 DEF Collection!Missing, Incomplete
<1> QED
  BY <1>2, <1>3

(* A step that leaves the batches alone settles images, if anything. *)
LEMMA RefinesSettle ==
    ASSUME Inv, Inv', SoundInv, [Next]_vars, UNCHANGED <<status, counted>>
    PROVE  Collection!Settle
<1>1. ASSUME NEW i \in Images PROVE ~ AdoptedBy(i)
  BY DEF AdoptedBy, OpenSession, Inv, TypeOK, SessionType
<1>2. \A i \in Images : Placed'[i] = Placed[i] \/ Collection!MayGo(i, Placed'[i])
  BY <1>1, RowGoes DEF Placed
<1> QED
  BY <1>2, PlacedNext DEF Collection!Settle, Placed, Inv

LEMMA RefinesOpen ==
    ASSUME Inv, Inv', NEW e \in Opens, NEW b \in Batches, OpenSession(e, b)
    PROVE  Collection!Open(b)
<1> DEFINE S == {i \in Images : ledger'[i] # ledger[i]}
<1>1. ASSUME NEW i \in Images
      PROVE  /\ i \in S => /\ Place(ledger[i]) = Collection!Free
                           /\ Place(ledger'[i]) = Collection!At(b, "owed")
             /\ i \notin S => Place(ledger'[i]) = Place(ledger[i])
  <2>1. /\ ledger[i] \in RowType /\ ledger'[i] \in RowType
        /\ ledger[i].state \in Sessionless => ledger[i].batch = NoBatch
    BY RowTypeFields DEF Inv, TypeOK, LedgerType
  <2>2. AdoptEffect(i, e, b, ledger[i], ledger'[i])
    BY AdoptedShape DEF Inv, OpenSession
  <2> QED
    BY <2>1, <2>2, PlaceOf, Bounds DEF AdoptEffect, Sessionless, InFlightStates
<1>2. S \in SUBSET {i \in Images : Placed[i] = Collection!Free}
  BY <1>1 DEF Placed
<1>3. Placed' = [i \in Images |-> IF i \in S THEN Collection!At(b, "owed") ELSE Placed[i]]
  BY <1>1 DEF Placed
<1> HIDE DEF S
<1> QED
  BY <1>2, <1>3 DEF OpenSession, Collection!Open, Placed

LEMMA RefinesClaim ==
    ASSUME Inv, Inv', SoundInv, [Next]_vars, NEW b \in Batches,
           NEW w \in BOOLEAN, NEW y \in BOOLEAN, ClaimClosing(b, w, y)
    PROVE  Collection!Settle \/ Collection!Claim(b)
<1>1. CASE UNCHANGED status
  BY <1>1, RefinesSettle DEF ClaimClosing
<1>2. CASE ~ UNCHANGED status
  <2>1. /\ status' = [status EXCEPT ![b] = "processing"] /\ UNCHANGED counted
        /\ status[b] = "closing" /\ ledger' = Reconciled(b)
    BY <1>2 DEF ClaimClosing
  <2>2. ASSUME NEW i \in Images, Place(ledger'[i]) # Place(ledger[i])
        PROVE  /\ Place(ledger'[i]) \in {Collection!At(b, "owed"), Collection!At(b, "out")}
               /\ Collection!MayGo(i, Place(ledger'[i]))
    <3>1. ReconcileEffect(i, b, ledger[i], ledger'[i]) /\ ledger'[i] \in RowType
      BY <2>1, ReconciledShape DEF Inv
    <3>2. /\ ledger'[i].batch = b
          /\ ledger'[i].state \in {"received", "excluded_not_slip", "excluded_after_close"}
      BY <2>2, <3>1 DEF ReconcileEffect
    <3>3. ~ AdoptedBy(i)
      <4>1. \A e \in Opens, c \in Batches : ~ OpenSession(e, c)
        BY <2>1 DEF OpenSession, Inv, TypeOK, SessionType
      <4> QED
        BY <4>1 DEF AdoptedBy
    <3>4. Collection!MayGo(i, Place(ledger'[i]))
      BY <2>2, <3>3, RowGoes
    <3> QED
      BY <3>1, <3>2, <3>4, PlaceOf, Bounds DEF InFlightStates
  <2>3. \A i \in Images :
          \/ Placed'[i] = Placed[i]
          \/ /\ Placed'[i] \in {Collection!At(b, "owed"), Collection!At(b, "out")}
             /\ Collection!MayGo(i, Placed'[i])
    BY <2>2 DEF Placed
  <2>4. status[b] \in Collection!Taking
    BY <2>1 DEF Collection!Taking
  <2> QED
    BY <2>1, <2>3, <2>4, PlacedNext DEF Collection!Claim, Placed, Inv
<1> QED
  BY <1>1, <1>2

(* The other steps of a batch leave the ledger alone. *)
LEMMA RefinesBatch ==
    ASSUME Inv, Inv', SoundInv, [Next]_vars, NEW b \in Batches,
           Abandon(b) \/ Account(b) \/ \E v \in {"all", "some", "none"} : Finalize(b, v)
    PROVE  Collection!Claim(b) \/ Collection!Count(b) \/ Collection!Finish(b)
<1>0. UNCHANGED ledger
  BY DEF Abandon, Account, Finalize, rows
<1>a. UNCHANGED Placed /\ Placed' \in [Images -> Collection!Places]
  BY <1>0, PlacedSame, PlacedNext DEF Inv
<1>1. CASE Abandon(b)
  BY <1>1, <1>a DEF Abandon, Collection!Claim, Collection!Taking, Placed
<1>2. CASE Account(b)
  BY <1>2, <1>a, TotalsOf DEF Account, Collection!Count, Placed, Inv
<1>3. ASSUME NEW v \in {"all", "some", "none"}, Finalize(b, v)
      PROVE  Collection!Finish(b)
  <2>1. /\ FinalStatus(b, v) \in {"completed", "review_needed", "failed"}
        /\ FinalStatus(b, v) # "failed" => Collection!InTotal(b) # {}
        /\ FinalStatus(b, v) = "completed" => counted[b] # "short"
    BY TotalsOf DEF FinalStatus, Inv
  <2>2. counted[b] \in {"no", "whole", "short"}
    BY DEF Inv, TypeOK, SessionType
  <2> QED
    BY <1>3, <1>a, <2>1, <2>2 DEF Finalize, Collection!Finish, Placed
<1> QED
  BY <1>1, <1>2, <1>3

LEMMA RefinesStop ==
    ASSUME Inv, NEW b \in Batches, NEW s \in {"closing", "cancelled"},
           status[b] = "collecting", status' = [status EXCEPT ![b] = s],
           UNCHANGED <<counted, ledger>>
    PROVE  Collection!Stop(b)
<1>1. UNCHANGED Placed
  BY PlacedSame
<1> QED
  BY <1>1 DEF Collection!Stop, Placed

(* Every step is a step of the collection, or none. *)
LEMMA RefinesStep == Inv /\ Inv' /\ SoundInv /\ [Next]_vars => [Collection!Next]_(Collection!vars)
<1> SUFFICES ASSUME Inv, Inv', SoundInv, [Next]_vars
             PROVE  Collection!Next
  OBVIOUS
<1>1. CASE UNCHANGED <<status, counted>>
  BY <1>1, RefinesSettle DEF Collection!Next
<1>2. ASSUME NEW e \in Opens, NEW b \in Batches, OpenSession(e, b)
      PROVE  Collection!Next
  BY <1>2, RefinesOpen DEF Collection!Next
<1>3. ASSUME NEW e \in Closes, CloseBatch(e), ~ UNCHANGED status
      PROVE  Collection!Next
  <2>1. target[e] \in Batches
    BY <1>3, Bounds DEF CloseBatch, Inv, TypeOK, WorkerType
  <2> QED
    BY <1>3, <2>1, RefinesStop DEF CloseBatch, rows, Collection!Next
<1>4. ASSUME NEW e \in Cancels, NEW owner \in BOOLEAN, Cancel(e, owner), ~ UNCHANGED status
      PROVE  Collection!Next
  BY <1>4, NewestActive, RefinesStop DEF Cancel, rows, Collection!Next, Inv
<1>5. ASSUME NEW b \in Batches, NEW w \in BOOLEAN, NEW y \in BOOLEAN, ClaimClosing(b, w, y)
      PROVE  Collection!Next
  BY <1>5, RefinesClaim DEF Collection!Next
<1>6. ASSUME NEW b \in Batches,
             Abandon(b) \/ Account(b) \/ \E v \in {"all", "some", "none"} : Finalize(b, v)
      PROVE  Collection!Next
  BY <1>6, RefinesBatch DEF Collection!Next
<1>7. /\ \A e \in Closes : CloseBatch(e) => UNCHANGED counted
      /\ \A e \in Cancels, owner \in BOOLEAN : Cancel(e, owner) => UNCHANGED counted
  BY DEF CloseBatch, Cancel
<1> QED
  BY <1>1, <1>2, <1>3, <1>4, <1>5, <1>6, <1>7, SessionCases DEF sessions

LEMMA RefinesInit == Init => Collection!Init
<1> SUFFICES ASSUME Init PROVE Collection!Init
  OBVIOUS
<1>1. \A i \in Images : Place(ledger[i]) = Collection!Free
  BY NoRowIsTyped, PlaceOf DEF Init, NoRow, Row
<1> QED
  BY <1>1 DEF Init, Collection!Init

(* Whatever receipts, attempts, retries, commands and claims interleave,   *)
(* every step of the ledger and the batches is a step of SlipCollection or *)
(* none: sessions never reopen and at most one collects, an image belongs  *)
(* to one session for good and joins its total only while it is open, and  *)
(* a summary is complete only after a count that found none missing.       *)
THEOREM LedgerImplementsCollection == Spec => Refines
<1>1. Init => Collection!Init
  BY RefinesInit
<1>2. Inv /\ Inv' /\ SoundInv /\ [Next]_vars => [Collection!Next]_(Collection!vars)
  BY RefinesStep
<1> QED
  BY <1>1, <1>2, InvHolds, SoundHolds, PTL DEF Spec, Refines, Collection!Spec
===============================================================================
