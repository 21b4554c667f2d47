------------------------- MODULE WebhookQueueProofs -------------------------
(***************************************************************************)
(* Theorems about WebhookQueue, for every set of events, sources, payloads *)
(* and invocations and every choice of the time limits and budgets.        *)
(***************************************************************************)
EXTENDS WebhookQueue, FiniteSetTheorems, TLAPS

(***************************************************************************)
(* What a receive RPC inserts.                                             *)
(***************************************************************************)
(* What an invocation receives has a length. *)
LEMMA PayloadLength ==
    ASSUME NEW p \in Payloads \cup {<<>>}
    PROVE  Len(p) \in Nat
<1>1. CASE p \in Payloads
  BY <1>1, PayloadAssumption
<1>2. CASE p = <<>>
  BY <1>2
<1> QED
  BY <1>1, <1>2

(* The positions a receive RPC carries are a finite set. *)
LEMMA ChunkFinite ==
    ASSUME NEW p \in Payloads \cup {<<>>}, NEW k \in Nat
    PROVE  IsFiniteSet(Chunk(p, k))
<1>1. IsFiniteSet(k..Len(p))
  BY PayloadLength, FS_Interval
<1>2. IsFiniteSet({k})
  BY FS_Singleton
<1> QED
  BY <1>1, <1>2 DEF Chunk

(* The receive_order of an inserted row comes from the sequence: it is at  *)
(* least the old value of nextOrder and below the new one.                 *)
LEMMA FreshOrder ==
    ASSUME NEW p \in Payloads \cup {<<>>}, NEW k \in Nat, nextOrder \in Nat \ {0},
           InsertRows(p, Chunk(p, k))
    PROVE  /\ nextOrder' \in Nat \ {0} /\ nextOrder <= nextOrder'
           /\ \A e \in Events :
                 IF status[e] = "absent" /\ status'[e] # "absent"
                 THEN order'[e] \in nextOrder..(nextOrder' - 1)
                 ELSE order'[e] = order[e]
           /\ \A e \in Events :
                 \/ status'[e] = status[e]
                 \/ status[e] = "absent" /\ status'[e] = "pending"
<1> DEFINE C == Chunk(p, k)
           new == {j \in C : status[p[j]] = "absent"}
           at(e) == CHOOSE j \in new : p[j] = e
           fresh == {p[j] : j \in new}
           below(e) == {j \in new : j < at(e)}
<1>1. IsFiniteSet(new)
  BY ChunkFinite, FS_Subset
<1>2. Cardinality(new) \in Nat
  BY <1>1, FS_CardinalityType
<1>3. /\ status' = [e \in Events |-> IF e \in fresh THEN "pending" ELSE status[e]]
      /\ order' = [e \in Events |->
                      IF e \in fresh THEN nextOrder + Cardinality(below(e)) ELSE order[e]]
      /\ nextOrder' = nextOrder + Cardinality(new)
  BY DEF InsertRows
<1>4. ASSUME NEW e \in fresh
      PROVE  Cardinality(below(e)) \in 0..(Cardinality(new) - 1)
  <2>1. at(e) \in new
    OBVIOUS
  <2>2. /\ IsFiniteSet(new \ {at(e)})
        /\ Cardinality(new \ {at(e)}) = Cardinality(new) - 1
    BY <2>1, <1>1, FS_RemoveElement
  <2>3. ~(at(e) < at(e))
    <3>1. at(e) \in Int
      BY <2>1, PayloadLength DEF Chunk
    <3> QED
      BY <3>1
  <2>4. below(e) \subseteq new \ {at(e)}
    <3> HIDE DEF at
    <3> QED
      BY <2>3
  <2>5. /\ IsFiniteSet(below(e))
        /\ Cardinality(below(e)) <= Cardinality(new \ {at(e)})
    BY <2>2, <2>4, FS_Subset
  <2>6. Cardinality(below(e)) \in Nat
    BY <2>5, FS_CardinalityType
  <2> QED
    BY <2>2, <2>5, <2>6, <1>2
<1>5. \A e \in Events : e \in fresh => status[e] = "absent"
  OBVIOUS
<1> HIDE DEF new, at, fresh, below
<1>6. nextOrder' \in Nat \ {0} /\ nextOrder <= nextOrder'
  BY <1>2, <1>3
<1>7. ASSUME NEW e \in Events, e \in fresh
      PROVE  order'[e] \in nextOrder..(nextOrder' - 1)
  <2>1. order'[e] = nextOrder + Cardinality(below(e))
    BY <1>3, <1>7
  <2> QED
    BY <1>2, <1>3, <1>4, <1>7, <2>1
<1>8. \A e \in Events : e \notin fresh => order'[e] = order[e] /\ status'[e] = status[e]
  BY <1>3
<1>9. \A e \in Events : e \in fresh => status'[e] = "pending"
  BY <1>3
<1> QED
  BY <1>5, <1>6, <1>7, <1>8, <1>9

-----------------------------------------------------------------------------
(***************************************************************************)
(* Type correctness.                                                       *)
(***************************************************************************)
LEMMA TypeInit == Init => TypeOK
BY ClockAssumption, NoOneAssumption
   DEF Init, TypeOK, Statuses, OpenStates, InvocationType, InvocationRecord, Resting, Started

(* Every step keeps the types. *)
LEMMA TypeStep == TypeOK /\ [Next]_vars => TypeOK'
<1> SUFFICES ASSUME TypeOK, [Next]_vars PROVE TypeOK'
  OBVIOUS
<1> USE ClockAssumption, NoOneAssumption, BudgetAssumption
<1>a. \A i \in Invocations : inv[i] \in InvocationType
  BY DEF TypeOK
<1>b. Resting \in InvocationType
  BY DEF Resting, Started, InvocationType, InvocationRecord
<1>1. ASSUME NEW i \in Invocations, NEW p \in Payloads, Deliver(i, p)
      PROVE  TypeOK'
  <2>1. Started("receive", "webhook", p, {}, WebhookBudget) \in InvocationType
    BY DEF Started, InvocationType, InvocationRecord
  <2> QED
    BY <1>1, <2>1 DEF Deliver, TypeOK, rows
<1>2. ASSUME NEW i \in Invocations, Receive(i)
      PROVE  TypeOK'
  <2> DEFINE p == inv[i].payload
             C == Chunk(p, inv[i].pos)
  <2>1. p \in Payloads \cup {<<>>} /\ inv[i].pos \in Nat
    BY <1>a DEF InvocationType, InvocationRecord
  <2>2. InsertRows(p, C)
    BY <1>2 DEF Receive
  <2>3. order' \in [Events -> Nat] /\ nextOrder' \in Nat \ {0}
    <3>1. nextOrder \in Nat \ {0} /\ order \in [Events -> Nat]
      BY DEF TypeOK
    <3>2. order' = [e \in Events |-> order'[e]]
      BY <2>2 DEF InsertRows
    <3>3. ASSUME NEW e \in Events
          PROVE  order'[e] \in Nat
      <4>1. \/ order'[e] \in nextOrder..(nextOrder' - 1)
            \/ order'[e] = order[e]
        BY <2>1, <2>2, <3>1, FreshOrder
      <4> QED
        BY <3>1, <4>1
    <3>4. nextOrder' \in Nat \ {0}
      BY <2>1, <2>2, <3>1, FreshOrder
    <3> QED
      BY <3>2, <3>3, <3>4
  <2>4. /\ status' \in [Events -> Statuses]
        /\ \A e \in Events : status'[e] = "processing" <=> token'[e] # NoOne
    <3>1. status' = [e \in Events |-> status'[e]]
      BY <2>2 DEF InsertRows
    <3>2. \A e \in Events : \/ status'[e] = status[e]
                            \/ status[e] = "absent" /\ status'[e] = "pending"
      BY <2>1, <2>2, FreshOrder DEF TypeOK
    <3>3. token' = token
      BY <2>2 DEF InsertRows
    <3> QED
      BY <3>1, <3>2, <3>3 DEF TypeOK, Statuses, OpenStates
  <2>5. inv' \in [Invocations -> InvocationType]
    <3>1. {Source[p[k]] : k \in 1..Len(p)} \subseteq Sources
      BY <2>1, SourceAssumption, PayloadAssumption
    <3>2. AllReceived(inv[i]) \in InvocationType
      <4> DEFINE S == {Source[p[k]] : k \in 1..Len(p)}
      <4>1. \A T \in SUBSET Sources :
               [inv[i] EXCEPT !.pc = "drain", !.payload = <<>>, !.pos = 1, !.sources = T]
                  \in InvocationType
        <5>1. inv[i] \in InvocationRecord
          BY <1>a DEF InvocationType
        <5>2. ASSUME NEW T \in SUBSET Sources
              PROVE  LET r == [inv[i] EXCEPT !.pc = "drain", !.payload = <<>>, !.pos = 1,
                                             !.sources = T]
                     IN  r \in InvocationRecord /\ r.pc = "drain"
          BY <5>1 DEF InvocationRecord
        <5> QED
          BY <5>2 DEF InvocationType
      <4>2. S \in SUBSET Sources
        BY <3>1
      <4>3. [inv[i] EXCEPT !.pc = "drain", !.payload = <<>>, !.pos = 1, !.sources = S]
               \in InvocationType
        BY <4>1, <4>2
      <4> QED
        BY <4>3, Zenon DEF AllReceived
    <3>3. ChunkReceived(inv[i]) \in InvocationType
      <4>1. inv[i] \in InvocationType /\ inv[i].pos + 1 \in Nat
        BY <1>a DEF InvocationType, InvocationRecord
      <4> QED
        BY <4>1 DEF ChunkReceived, InvocationType, InvocationRecord
    <3>4. inv' = [inv EXCEPT ![i] = IF Len(p) \in C THEN AllReceived(inv[i])
                                                    ELSE ChunkReceived(inv[i])]
      BY <1>2 DEF Receive
    <3> HIDE DEF p, C
    <3> QED
      BY <3>2, <3>3, <3>4 DEF TypeOK
  <2> QED
    BY <2>2, <2>3, <2>4, <2>5 DEF TypeOK, InsertRows
<1>3. ASSUME NEW i \in Invocations, NEW s \in Sources, NEW e \in Events, Claim(i, s, e)
      PROVE  TypeOK'
  <2>1. [inv[i] EXCEPT !.pc = "business", !.event = e, !.left = @ - 1] \in InvocationType
    <3>1. inv[i].left - 1 \in Nat
      BY <1>3, <1>a DEF Claim, MayClaim, InvocationType, InvocationRecord
    <3> QED
      BY <1>a, <3>1 DEF InvocationType, InvocationRecord
  <2>2. inv' \in [Invocations -> InvocationType]
    BY <1>3, <2>1 DEF Claim, TypeOK
  <2> QED
    BY <1>3, <2>2 DEF Claim, TypeOK, StatusAfterQuarantine, Quarantined, Idle,
                      Statuses, OpenStates
<1>4. ASSUME NEW i \in Invocations, NEW s \in Sources
      PROVE  NextSource(inv[i], s) \in InvocationType
  <2>1. inv[i] \in InvocationRecord
    BY <1>a DEF InvocationType
  <2>2. (IF inv[i].kind = "webhook" THEN WebhookBudget ELSE inv[i].left) \in Nat
    BY <2>1, BudgetAssumption DEF InvocationRecord
  <2>3. NextSource(inv[i], s) \in InvocationRecord
    BY <2>1, <2>2 DEF NextSource, InvocationRecord
  <2>4. NextSource(inv[i], s).pc = "drain"
    BY <2>1 DEF NextSource, InvocationRecord
  <2> QED
    BY <2>3, <2>4 DEF InvocationType
<1>5. ASSUME NEW i \in Invocations, NEW s \in Sources, ClaimNothing(i, s)
      PROVE  TypeOK'
  BY <1>5, <1>4 DEF ClaimNothing, TypeOK, StatusAfterQuarantine, Quarantined, Idle,
                    Statuses, OpenStates
<1>6. ASSUME NEW i \in Invocations, NEW s \in Sources, SkipSource(i, s)
      PROVE  TypeOK'
  BY <1>6, <1>4 DEF SkipSource, TypeOK, rows
<1>7. ASSUME NEW i \in Invocations, EndDrain(i)
      PROVE  TypeOK'
  BY <1>7, <1>b DEF EndDrain, TypeOK, rows
<1>8. ASSUME NEW i \in Invocations, Process(i)
      PROVE  TypeOK'
  <2>1. ASSUME NEW r \in {"succeeded", "errored"}
        PROVE  [inv[i] EXCEPT !.pc = r] \in InvocationType
    <3>1. inv[i] \in InvocationRecord /\ inv[i].event \in Events
      BY <1>8, <1>a DEF Process, InvocationType
    <3>2. [inv[i] EXCEPT !.pc = r] \in InvocationRecord
      BY <3>1 DEF InvocationRecord
    <3>3. [inv[i] EXCEPT !.pc = r].event = inv[i].event
      BY <3>1 DEF InvocationRecord
    <3> QED
      BY <3>1, <3>2, <3>3 DEF InvocationType
  <2> QED
    BY <1>8, <2>1 DEF Process, TypeOK, rows
<1>9. ASSUME NEW i \in Invocations
      PROVE  [inv[i] EXCEPT !.pc = "drain", !.event = NoOne] \in InvocationType
  BY <1>a DEF InvocationType, InvocationRecord
<1>10. ASSUME NEW i \in Invocations, CompleteProcessed(i)
       PROVE  TypeOK'
  <2>1. inv[i].event \in Events
    BY <1>10, <1>a DEF CompleteProcessed, InvocationType
  <2>2. inv' \in [Invocations -> InvocationType]
    BY <1>10, <1>9 DEF CompleteProcessed, TypeOK
  <2>3. CASE Owns(i, inv[i].event)
    BY <1>10, <2>1, <2>2, <2>3 DEF CompleteProcessed, Complete, TypeOK, Statuses
  <2>4. CASE ~Owns(i, inv[i].event)
    BY <1>10, <2>2, <2>4 DEF CompleteProcessed, TypeOK, rows
  <2> QED
    BY <2>3, <2>4
<1>11. ASSUME NEW i \in Invocations, Release(i)
       PROVE  TypeOK'
  <2> DEFINE e == inv[i].event
  <2>1. CASE Owns(i, e)
    <3>1. e \in Events
      BY <1>11, <1>a DEF Release, InvocationType
    <3>2. Source[e] \in Sources
      BY <3>1, SourceAssumption
    <3>3. NextSource(inv[i], Source[e]) \in InvocationType
      BY <1>4, <3>2
    <3> QED
      BY <1>11, <2>1, <3>1, <3>3 DEF Release, Complete, TypeOK, Statuses, OpenStates
  <2>2. CASE ~Owns(i, e)
    <3>1. inv' \in [Invocations -> InvocationType]
      BY <1>11, <1>9, <2>2 DEF Release, TypeOK
    <3>2. UNCHANGED rows
      BY <1>11, <2>2 DEF Release
    <3> QED
      BY <3>1, <3>2 DEF TypeOK, rows
  <2> QED
    BY <2>1, <2>2
<1>12. ASSUME NEW i \in Invocations, Recover(i)
       PROVE  TypeOK'
  <2>1. {Source[e] : e \in Swept} \subseteq Sources
    BY SourceAssumption DEF Swept, Recent
  <2>2. Started("drain", "recovery", <<>>, {Source[e] : e \in Swept}, RecoverBudget)
           \in InvocationType
    BY <2>1 DEF Started, InvocationType, InvocationRecord
  <2> QED
    BY <1>12, <2>2 DEF Recover, TypeOK, rows
<1>13. ASSUME NEW i \in Invocations, Crash(i)
       PROVE  TypeOK'
  BY <1>13, <1>b DEF Crash, TypeOK, rows
<1>14. CASE Reconcile
  BY <1>14 DEF Reconcile, TypeOK, StatusAfterQuarantine, Quarantined, Idle, Statuses,
               OpenStates, Surfacing, Unsurfaced
<1>15. ASSUME NEW e \in Events, Dismiss(e)
       PROVE  TypeOK'
  BY <1>15 DEF Dismiss, TypeOK, Statuses
<1>16. CASE Tick
  <2>1. ASSUME NEW i \in Live
        PROVE  [inv[i] EXCEPT !.life = @ + 1] \in InvocationType
    <3>1. inv[i].life + 1 \in 0..MaxDuration
      BY <1>16, <1>a DEF Tick, Live, InvocationType, InvocationRecord
    <3> QED
      <4> DEFINE r == [inv[i] EXCEPT !.life = inv[i].life + 1]
      <4>1. inv[i] \in InvocationType /\ inv[i] \in InvocationRecord
        BY <1>a DEF Live, InvocationType
      <4>2. r \in InvocationRecord
        BY <4>1, <3>1 DEF InvocationRecord
      <4>3. r.pc = inv[i].pc /\ r.event = inv[i].event
        BY <4>1 DEF InvocationRecord
      <4> QED
        BY <4>1, <4>2, <4>3 DEF InvocationType
  <2>2. inv' \in [Invocations -> InvocationType]
    BY <1>16, <1>a, <2>1 DEF Tick
  <2>3. age' \in [Events -> 0..StaleAge] /\ leaseAge' \in [Events -> 0..Lease]
    BY <1>16 DEF Tick, TypeOK
  <2> QED
    BY <1>16, <2>2, <2>3 DEF Tick, TypeOK
<1>17. CASE UNCHANGED vars
  BY <1>17 DEF vars, rows, TypeOK
<1>18. QED
  BY <1>1, <1>2, <1>3, <1>5, <1>6, <1>7, <1>8, <1>10, <1>11, <1>12, <1>13, <1>14, <1>15,
     <1>16, <1>17 DEF Next, Drain

(* Every variable keeps its type, and a row has a claim token exactly      *)
(* while it is processing: the table's CHECK constraint never fires.       *)
THEOREM TypeCorrect == Spec => []TypeOK
<1>1. Init => TypeOK
  BY TypeInit
<1>2. TypeOK /\ [Next]_vars => TypeOK'
  BY TypeStep
<1> QED
  BY <1>1, <1>2, PTL DEF Spec

-----------------------------------------------------------------------------
(***************************************************************************)
(* No overtaking.                                                          *)
(***************************************************************************)
OrderInv ==
    /\ \A e \in Present : order[e] < nextOrder
    /\ \A e \in Events : mark[e] <= nextOrder
    /\ NoOvertaking

(* The order survives every step that opens, receives and claims nothing. *)
LEMMA OrderFrame ==
    ASSUME OrderInv, UNCHANGED <<order, mark, nextOrder>>,
           \A e \in Events :
              /\ status'[e] # "absent" => status[e] # "absent"
              /\ status'[e] \in OpenStates => status[e] \in OpenStates
              /\ status'[e] \in {"processing", "processed"} =>
                    status[e] \in {"processing", "processed"}
    PROVE  OrderInv'
BY DEF OrderInv, NoOvertaking, Present, OpenRows, Before

(* Every step keeps the order below its counter, and overtakes nothing. *)
LEMMA OrderStep == TypeOK /\ OrderInv /\ [Next]_vars => OrderInv'
<1> SUFFICES ASSUME TypeOK, OrderInv, [Next]_vars PROVE OrderInv'
  OBVIOUS
<1>1. ASSUME NEW i \in Invocations, Receive(i)
      PROVE  OrderInv'
  <2> DEFINE p == inv[i].payload
             C == Chunk(p, inv[i].pos)
  <2>1. p \in Payloads \cup {<<>>} /\ inv[i].pos \in Nat /\ nextOrder \in Nat \ {0}
    BY DEF TypeOK, InvocationType, InvocationRecord
  <2>2. InsertRows(p, C) /\ mark' = mark
    BY <1>1 DEF Receive, InsertRows
  <2>3. nextOrder' \in Nat /\ nextOrder <= nextOrder'
    BY <2>1, <2>2, FreshOrder
  <2>4. ASSUME NEW e \in Events
        PROVE  \/ status'[e] = status[e] /\ order'[e] = order[e]
               \/ /\ status[e] = "absent" /\ status'[e] = "pending"
                  /\ order'[e] \in nextOrder..(nextOrder' - 1)
    <3>1. IF status[e] = "absent" /\ status'[e] # "absent"
          THEN order'[e] \in nextOrder..(nextOrder' - 1)
          ELSE order'[e] = order[e]
      BY <2>1, <2>2, FreshOrder
    <3>2. status'[e] = status[e] \/ (status[e] = "absent" /\ status'[e] = "pending")
      BY <2>1, <2>2, FreshOrder
    <3> QED
      BY <3>1, <3>2
  <2>5. \A e \in Events : order[e] \in Nat /\ mark[e] \in Nat /\ order'[e] \in Nat
    BY <2>1, <2>3, <2>4 DEF TypeOK
  <2>6. \A e \in Present' : order'[e] < nextOrder'
    BY <2>1, <2>3, <2>4, <2>5 DEF OrderInv, Present
  <2>7. \A e \in Events : mark'[e] <= nextOrder'
    BY <2>1, <2>2, <2>3, <2>5 DEF OrderInv
  <2>8. ASSUME NEW a \in Events, NEW b \in Events, Before(a, b)', a \in OpenRows',
               status'[b] \in {"processing", "processed"}
        PROVE  mark'[b] <= order'[a]
    <3>1. status'[b] = status[b] /\ order'[b] = order[b]
      BY <2>4, <2>8
    <3>2. CASE status'[a] = status[a] /\ order'[a] = order[a]
      BY <2>2, <2>8, <3>1, <3>2 DEF OrderInv, NoOvertaking, Before, OpenRows
    <3>3. CASE order'[a] \in nextOrder..(nextOrder' - 1)
      BY <2>1, <2>2, <2>3, <2>5, <3>3 DEF OrderInv
    <3> QED
      BY <2>4, <3>2, <3>3
  <2> QED
    BY <2>6, <2>7, <2>8 DEF OrderInv, NoOvertaking
<1>2. ASSUME NEW i \in Invocations, NEW s \in Sources, NEW e \in Events, Claim(i, s, e)
      PROVE  OrderInv'
  <2> DEFINE Q == Quarantined({s})
  <2>1. /\ status' = [f \in Events |-> IF f = e THEN "processing"
                                       ELSE IF f \in Q THEN "stale" ELSE status[f]]
        /\ mark' = [mark EXCEPT ![e] = nextOrder]
        /\ UNCHANGED <<order, nextOrder>>
    BY <1>2 DEF Claim, StatusAfterQuarantine
  <2>2. /\ e \in OpenRows
        /\ \A f \in OpenRows \ Q : ~Before(f, e)
    BY <1>2 DEF Claim, Claimable, Idle, OpenRows, OpenStates
  <2>3. \A f \in OpenRows' : f \in OpenRows /\ (f = e \/ f \notin Q)
    BY <2>1, <2>2 DEF OpenRows, OpenStates
  <2>4. nextOrder \in Nat /\ mark \in [Events -> Nat] /\ order \in [Events -> Nat]
    BY DEF TypeOK
  <2>5. ~Before(e, e)
    BY <2>4, StampAssumption DEF Before
  <2>6. \A f \in Events : mark'[f] <= nextOrder'
    BY <2>1, <2>4 DEF OrderInv
  <2>7. \A f \in Present' : order'[f] < nextOrder'
    BY <2>1, <2>2 DEF OrderInv, Present, OpenRows, OpenStates, Quarantined, Idle
  <2>8. ASSUME NEW a \in Events, NEW b \in Events, Before(a, b)', a \in OpenRows',
               status'[b] \in {"processing", "processed"}
        PROVE  mark'[b] <= order'[a]
    <3>1. Before(a, b)
      BY <2>1, <2>8 DEF Before
    <3>2. b # e
      BY <2>2, <2>3, <2>5, <2>8, <3>1
    <3>3. mark'[b] = mark[b] /\ status[b] \in {"processing", "processed"}
      BY <2>1, <2>4, <2>8, <3>2
    <3> QED
      BY <2>1, <2>3, <2>8, <3>1, <3>3 DEF OrderInv, NoOvertaking
  <2> QED
    BY <2>6, <2>7, <2>8 DEF OrderInv, NoOvertaking
<1>3. ASSUME NEW i \in Invocations,
             \/ \E p \in Payloads : Deliver(i, p)
             \/ \E s \in Sources : ClaimNothing(i, s) \/ SkipSource(i, s)
             \/ EndDrain(i) \/ Process(i) \/ Recover(i) \/ Crash(i)
      PROVE  OrderInv'
  BY <1>3, OrderFrame
     DEF Deliver, ClaimNothing, SkipSource, EndDrain, Process, Recover, Crash, rows,
         StatusAfterQuarantine, Quarantined, Idle, OpenStates
<1>4. ASSUME NEW i \in Invocations, CompleteProcessed(i) \/ Release(i)
      PROVE  OrderInv'
  <2>1. status \in [Events -> Statuses]
    BY DEF TypeOK
  <2>2. CASE Owns(i, inv[i].event)
    BY <1>4, <2>1, <2>2, OrderFrame DEF CompleteProcessed, Release, Complete, Owns, OpenStates
  <2>3. CASE ~Owns(i, inv[i].event)
    BY <1>4, <2>3, OrderFrame DEF CompleteProcessed, Release, rows
  <2> QED
    BY <2>2, <2>3
<1>5. CASE Reconcile
  BY <1>5, OrderFrame DEF Reconcile, StatusAfterQuarantine, Quarantined, Idle, OpenStates
<1>6. ASSUME NEW e \in Events, Dismiss(e)
      PROVE  OrderInv'
  BY <1>6, OrderFrame DEF Dismiss, OpenStates, TypeOK
<1>7. CASE Tick
  BY <1>7, OrderFrame DEF Tick
<1>8. CASE UNCHANGED vars
  BY <1>8, OrderFrame DEF vars, rows
<1> QED
  BY <1>1, <1>2, <1>3, <1>4, <1>5, <1>6, <1>7, <1>8 DEF Next, Drain

(* A close is never claimed while a row that sorts before it is open: an   *)
(* open earlier row of a claimed or processed one arrived after the claim. *)
THEOREM NeverOvertaken == Spec => []NoOvertaking
<1>1. Init => OrderInv
  BY DEF Init, OrderInv, NoOvertaking, Present, OpenRows, OpenStates
<1>2. TypeOK /\ OrderInv /\ [Next]_vars => OrderInv'
  BY OrderStep
<1>3. OrderInv => NoOvertaking
  BY DEF OrderInv
<1> QED
  BY <1>1, <1>2, <1>3, TypeCorrect, PTL DEF Spec

-----------------------------------------------------------------------------
(***************************************************************************)
(* Durability of payloads.                                                 *)
(***************************************************************************)
(* No two payloads share an event.                                         *)
PayloadsAreDisjoint ==
    \A p, q \in Payloads : \A j \in 1..Len(p), k \in 1..Len(q) : p[j] = q[k] => p = q

(* A receive RPC gives the new rows of a payload increasing orders.        *)
LEMMA ChunkOrder ==
    ASSUME NEW p \in Payloads, NEW pos \in Nat, nextOrder \in Nat \ {0},
           InsertRows(p, Chunk(p, pos)), Chunk(p, pos) \subseteq 1..Len(p),
           NEW j \in Chunk(p, pos), NEW k \in Chunk(p, pos), j < k,
           status[p[j]] = "absent", status[p[k]] = "absent"
    PROVE  order'[p[j]] < order'[p[k]]
<1> DEFINE new == {l \in Chunk(p, pos) : status[p[l]] = "absent"}
           at(e) == CHOOSE l \in new : p[l] = e
           below(l) == {m \in new : m < l}
<1>1. /\ Len(p) \in Nat
      /\ \A l \in 1..Len(p) : p[l] \in Events
      /\ \A l, m \in 1..Len(p) : p[l] = p[m] => l = m
  BY PayloadAssumption
<1>2. j \in new /\ k \in new
  OBVIOUS
<1>3. ASSUME NEW l \in new
      PROVE  at(p[l]) = l
  <2>1. at(p[l]) \in new /\ p[at(p[l])] = p[l]
    OBVIOUS
  <2>2. new \subseteq 1..Len(p)
    OBVIOUS
  <2> QED
    BY <1>1, <2>1, <2>2
<1>4. ASSUME NEW l \in new
      PROVE  order'[p[l]] = nextOrder + Cardinality(below(l))
  <2>1. p[l] \in Events /\ p[l] \in {p[m] : m \in new}
    BY <1>1
  <2>2. order'[p[l]] = nextOrder + Cardinality({m \in new : m < at(p[l])})
    BY <2>1 DEF InsertRows
  <2>3. at(p[l]) = l
    BY <1>3
  <2> HIDE DEF at, new
  <2> QED
    BY <2>2, <2>3
<1>5. IsFiniteSet(new)
  BY ChunkFinite, FS_Subset
<1>6. /\ IsFiniteSet(below(k)) /\ IsFiniteSet(below(j))
      /\ Cardinality(below(k)) \in Nat /\ Cardinality(below(j)) \in Nat
  BY <1>5, FS_Subset, FS_CardinalityType
<1>7. below(j) \subseteq below(k) \ {j} /\ j \in below(k)
  <2>1. new \subseteq 1..Len(p)
    OBVIOUS
  <2> QED
    BY <1>1, <1>2, <2>1
<1>8. Cardinality(below(j)) < Cardinality(below(k))
  <2>1. /\ IsFiniteSet(below(k) \ {j})
        /\ Cardinality(below(k) \ {j}) = Cardinality(below(k)) - 1
    BY <1>6, <1>7, FS_RemoveElement
  <2>2. Cardinality(below(j)) <= Cardinality(below(k) \ {j})
    BY <1>7, <2>1, FS_Subset
  <2> QED
    BY <1>6, <2>1, <2>2
<1> HIDE DEF new, below
<1> QED
  BY <1>2, <1>4, <1>6, <1>8

(* A request has received its payload up to where it stands. *)
RequestOK(r) ==
    r.pc = "receive" =>
        /\ r.payload \in Payloads
        /\ r.pos \in 1..Len(r.payload)
        /\ \A j \in 1..Len(r.payload) : j < r.pos => r.payload[j] \in Present

ReceiptInv == \A i \in Invocations : RequestOK(inv[i])

(* A present row stays present with its order, as long as no row is        *)
(* inserted; requests are at the same place or begin, or rest.             *)
LEMMA ReceiptFrame ==
    ASSUME ReceiptInv, PayloadPrefix, UNCHANGED order,
           \A e \in Events : status'[e] = "absent" <=> status[e] = "absent",
           \A i \in Invocations :
              \/ inv'[i].pc # "receive"
              \/ /\ inv[i].pc = "receive"
                 /\ inv'[i].payload = inv[i].payload /\ inv'[i].pos = inv[i].pos
              \/ inv'[i].payload \in Payloads /\ inv'[i].pos = 1
    PROVE  ReceiptInv' /\ PayloadPrefix'
<1>1. Present' = Present
  BY DEF Present
<1>2. PayloadPrefix'
  BY <1>1 DEF PayloadPrefix
<1>3. ASSUME NEW i \in Invocations
      PROVE  RequestOK(inv[i])'
  <2>1. CASE inv[i].pc = "receive" /\ inv'[i].payload = inv[i].payload /\ inv'[i].pos = inv[i].pos
    BY <1>1, <2>1 DEF ReceiptInv, RequestOK
  <2>2. CASE inv'[i].payload \in Payloads /\ inv'[i].pos = 1
    <3>1. Len(inv'[i].payload) \in Nat /\ Len(inv'[i].payload) > 0
      BY <2>2, PayloadAssumption
    <3> QED
      BY <2>2, <3>1 DEF RequestOK
  <2> QED
    BY <2>1, <2>2 DEF RequestOK
<1> QED
  BY <1>2, <1>3 DEF ReceiptInv

(* What a receive RPC inserts extends the prefix its request has received. *)
LEMMA ReceiptReceive ==
    ASSUME PayloadsAreDisjoint, TypeOK, TypeOK', OrderInv, ReceiptInv, PayloadPrefix,
           NEW i \in Invocations, Receive(i)
    PROVE  ReceiptInv' /\ PayloadPrefix'
<1> DEFINE p == inv[i].payload
           pos == inv[i].pos
           C == Chunk(p, pos)
<1>1. /\ p \in Payloads /\ pos \in 1..Len(p)
      /\ \A j \in 1..Len(p) : j < pos => p[j] \in Present
  BY DEF Receive, ReceiptInv, RequestOK
<1>2. /\ Len(p) \in Nat
      /\ \A l \in 1..Len(p) : p[l] \in Events
      /\ \A l, m \in 1..Len(p) : p[l] = p[m] => l = m
  BY <1>1, PayloadAssumption
<1>3. C \subseteq 1..Len(p) /\ pos \in C /\ (C = {pos} \/ C = pos..Len(p))
  BY <1>1, <1>2 DEF Chunk
<1>4. /\ InsertRows(p, C)
      /\ inv' = [inv EXCEPT ![i] = IF Len(p) \in C THEN AllReceived(inv[i])
                                                    ELSE ChunkReceived(inv[i])]
  BY DEF Receive
<1>5. /\ nextOrder \in Nat \ {0} /\ nextOrder' \in Nat
      /\ order \in [Events -> Nat] /\ order' \in [Events -> Nat]
      /\ inv \in [Invocations -> InvocationType]
  BY DEF TypeOK
<1>6. \A e \in Events :
         /\ e \in Present => order'[e] = order[e] /\ order[e] < nextOrder /\ status'[e] = status[e]
         /\ e \notin Present /\ e \in Present' => order'[e] >= nextOrder
  <2>1. \A e \in Events :
           /\ IF status[e] = "absent" /\ status'[e] # "absent"
              THEN order'[e] \in nextOrder..(nextOrder' - 1) ELSE order'[e] = order[e]
           /\ status'[e] = status[e] \/ (status[e] = "absent" /\ status'[e] = "pending")
    BY <1>1, <1>4, <1>5, FreshOrder
  <2> QED
    BY <1>5, <2>1 DEF Present, OrderInv
<1>7. \A e \in Events :
         e \in Present' <=> e \in Present \/ \E l \in C : p[l] = e
  BY <1>2, <1>3, <1>4 DEF InsertRows, Present
<1> HIDE DEF C
<1>8. ASSUME NEW q \in Payloads, NEW j \in 1..Len(q), NEW k \in 1..Len(q),
             j < k, q[k] \in Present'
      PROVE  q[j] \in Present' /\ order'[q[j]] < order'[q[k]]
  <2>1. q[j] \in Events /\ q[k] \in Events
    BY PayloadAssumption
  <2>2. CASE q[k] \in Present
    <3>1. q[j] \in Present /\ order[q[j]] < order[q[k]]
      BY <1>8, <2>2 DEF PayloadPrefix
    <3> QED
      BY <1>6, <1>7, <2>1, <2>2, <3>1
  <2>3. CASE q[k] \notin Present
    <3>1. PICK l \in C : p[l] = q[k]
      BY <1>7, <1>8, <2>1, <2>3
    <3>2. q = p /\ l = k
      <4>1. l \in 1..Len(p)
        BY <1>3
      <4>2. q = p
        BY <1>1, <3>1, <4>1 DEF PayloadsAreDisjoint
      <4> QED
        BY <1>2, <3>1, <4>1, <4>2
    <3>3. CASE p[j] \in Present
      BY <1>5, <1>6, <1>7, <1>8, <2>1, <2>3, <3>2, <3>3
    <3>4. CASE p[j] \notin Present
      <4>1. j \in C
        BY <1>1, <1>2, <1>3, <1>8, <3>1, <3>2, <3>4
      <4>2. order'[p[j]] < order'[p[k]]
        <5>1. k \in C /\ status[p[j]] = "absent" /\ status[p[k]] = "absent"
          BY <2>1, <2>3, <3>1, <3>2, <3>4 DEF Present
        <5>2. C = Chunk(p, pos)
          BY DEF C
        <5>3. /\ InsertRows(p, Chunk(p, pos)) /\ Chunk(p, pos) \subseteq 1..Len(p)
              /\ j \in Chunk(p, pos) /\ k \in Chunk(p, pos)
          BY <1>3, <1>4, <4>1, <5>1, <5>2
        <5>4. pos \in Nat
          BY <1>1, <1>2
        <5> HIDE DEF p, pos
        <5> QED
          BY <1>1, <1>5, <1>8, <5>1, <5>3, <5>4, ChunkOrder
      <4> QED
        BY <1>7, <2>1, <3>2, <4>1, <4>2
    <3> QED
      BY <3>2, <3>3, <3>4
  <2> QED
    BY <2>2, <2>3
<1>9. ASSUME NEW h \in Invocations
      PROVE  RequestOK(inv[h])'
  <2>1. CASE h # i
    <3>1. inv'[h] = inv[h] /\ RequestOK(inv[h])
      BY <1>4, <1>5, <2>1 DEF ReceiptInv
    <3>2. inv[h].pc = "receive" => \A j \in 1..Len(inv[h].payload) : inv[h].payload[j] \in Events
      BY <3>1, PayloadAssumption DEF RequestOK
    <3> QED
      BY <1>7, <3>1, <3>2 DEF RequestOK
  <2>2. CASE h = i /\ Len(p) \in C
    <3>1. inv'[i].pc = "drain"
      BY <1>4, <1>5, <2>2 DEF AllReceived, InvocationType, InvocationRecord
    <3> QED
      BY <2>2, <3>1 DEF RequestOK
  <2>3. CASE h = i /\ Len(p) \notin C
    <3>1. C = {pos} /\ pos < Len(p)
      BY <1>1, <1>2, <1>3, <2>3
    <3>2. inv'[i].payload = p /\ inv'[i].pos = pos + 1
      BY <1>4, <1>5, <2>3 DEF ChunkReceived, InvocationType, InvocationRecord
    <3>3. ASSUME NEW j \in 1..Len(p), j < pos + 1
          PROVE  p[j] \in Present'
      <4>1. j < pos \/ j = pos
        BY <1>1, <3>3
      <4> QED
        BY <1>1, <1>2, <1>3, <1>7, <4>1
    <3>4. pos + 1 \in 1..Len(p)
      BY <1>1, <1>2, <3>1
    <3> QED
      BY <1>1, <2>3, <3>2, <3>3, <3>4 DEF RequestOK
  <2> QED
    BY <2>1, <2>2, <2>3
<1> QED
  BY <1>8, <1>9 DEF ReceiptInv, PayloadPrefix

(* A drain that turns to its next source is not receiving. *)
LEMMA NextSourceDrains ==
    \A r \in InvocationType : \A s : NextSource(r, s).pc = "drain"
BY DEF NextSource, InvocationType, InvocationRecord

(* Every other step leaves what was received as it is. *)
LEMMA ReceiptStep ==
    PayloadsAreDisjoint /\ TypeOK /\ TypeOK' /\ OrderInv /\ ReceiptInv /\ PayloadPrefix
        /\ [Next]_vars => ReceiptInv' /\ PayloadPrefix'
<1> SUFFICES ASSUME PayloadsAreDisjoint, TypeOK, TypeOK', OrderInv, ReceiptInv, PayloadPrefix,
                    [Next]_vars
             PROVE  ReceiptInv' /\ PayloadPrefix'
  OBVIOUS
<1> DEFINE Keeps == \A e \in Events : status'[e] = "absent" <=> status[e] = "absent"
           Waits(h) == \/ inv'[h].pc # "receive"
                       \/ /\ inv[h].pc = "receive"
                          /\ inv'[h].payload = inv[h].payload /\ inv'[h].pos = inv[h].pos
                       \/ inv'[h].payload \in Payloads /\ inv'[h].pos = 1
<1>a. /\ status \in [Events -> Statuses]
      /\ inv \in [Invocations -> InvocationType] /\ inv' \in [Invocations -> InvocationType]
      /\ \A h \in Invocations : inv[h] \in InvocationRecord /\ inv'[h] \in InvocationRecord
  BY DEF TypeOK, InvocationType
<1>b. ASSUME NEW i \in Invocations, NEW r, inv' = [inv EXCEPT ![i] = r], r.pc # "receive"
      PROVE  \A h \in Invocations : Waits(h)
  BY <1>a, <1>b
<1>c. ASSUME UNCHANGED order, Keeps, \A h \in Invocations : Waits(h)
      PROVE  ReceiptInv' /\ PayloadPrefix'
  BY <1>c, ReceiptFrame
<1>1. ASSUME NEW i \in Invocations, NEW p \in Payloads, Deliver(i, p)
      PROVE  ReceiptInv' /\ PayloadPrefix'
  <2>1. \A h \in Invocations : Waits(h)
    BY <1>1, <1>a DEF Deliver, Started
  <2> QED
    BY <1>1, <1>c, <2>1 DEF Deliver, rows
<1>2. ASSUME NEW i \in Invocations, NEW s \in Sources, NEW e \in Events, Claim(i, s, e)
      PROVE  ReceiptInv' /\ PayloadPrefix'
  <2>1. \A h \in Invocations : Waits(h)
    BY <1>2, <1>a DEF Claim, InvocationRecord
  <2>2. Keeps
    BY <1>2, <1>a DEF Claim, StatusAfterQuarantine, Quarantined, Claimable, Idle, OpenStates
  <2> QED
    BY <1>2, <1>c, <2>1, <2>2 DEF Claim
<1>3. ASSUME NEW i \in Invocations, NEW s \in Sources, ClaimNothing(i, s) \/ SkipSource(i, s)
      PROVE  ReceiptInv' /\ PayloadPrefix'
  <2>1. \A h \in Invocations : Waits(h)
    <3>1. inv' = [inv EXCEPT ![i] = NextSource(inv[i], s)]
      BY <1>3 DEF ClaimNothing, SkipSource
    <3>2. NextSource(inv[i], s).pc = "drain"
      BY <1>a, NextSourceDrains
    <3> HIDE DEF Waits
    <3> QED
      BY <1>b, <3>1, <3>2
  <2>2. Keeps
    BY <1>3, <1>a DEF ClaimNothing, SkipSource, StatusAfterQuarantine, Quarantined, Idle,
                      OpenStates, rows
  <2> QED
    BY <1>3, <1>c, <2>1, <2>2 DEF ClaimNothing, SkipSource, rows
<1>4. ASSUME NEW i \in Invocations,
             EndDrain(i) \/ Process(i) \/ Recover(i) \/ Crash(i)
      PROVE  ReceiptInv' /\ PayloadPrefix'
  <2>1. PICK r : inv' = [inv EXCEPT ![i] = r] /\ r.pc # "receive"
    <3>1. /\ \A r \in {"succeeded", "errored"} : [inv[i] EXCEPT !.pc = r].pc = r
          /\ Resting.pc = "idle"
          /\ \A S : Started("drain", "recovery", <<>>, S, RecoverBudget).pc = "drain"
      BY <1>a DEF Started, Resting, InvocationRecord
    <3> QED
      BY <1>4, <3>1 DEF EndDrain, Process, Recover, Crash
  <2>2. \A h \in Invocations : Waits(h)
    BY <1>b, <2>1
  <2> QED
    BY <1>4, <1>c, <2>2 DEF EndDrain, Process, Recover, Crash, rows
<1>5. ASSUME NEW i \in Invocations, CompleteProcessed(i) \/ Release(i)
      PROVE  ReceiptInv' /\ PayloadPrefix'
  <2>1. \A h \in Invocations : Waits(h)
    <3>1. PICK r : inv' = [inv EXCEPT ![i] = r] /\ r.pc # "receive"
      <4>1. [inv[i] EXCEPT !.pc = "drain", !.event = NoOne].pc = "drain"
        BY <1>a DEF InvocationRecord
      <4>2. \A s : NextSource(inv[i], s).pc = "drain"
        BY <1>a, NextSourceDrains
      <4> QED
        BY <1>5, <4>1, <4>2 DEF CompleteProcessed, Release
    <3> HIDE DEF Waits
    <3> QED
      BY <1>b, <3>1
  <2>2. Keeps /\ UNCHANGED order
    <3>1. CASE Owns(i, inv[i].event)
      BY <1>5, <1>a, <3>1 DEF CompleteProcessed, Release, Complete, Owns
    <3>2. CASE ~Owns(i, inv[i].event)
      BY <1>5, <3>2 DEF CompleteProcessed, Release, rows
    <3> QED
      BY <3>1, <3>2
  <2> QED
    BY <1>c, <2>1, <2>2
<1>6. CASE Reconcile
  BY <1>6, <1>c, <1>a DEF Reconcile, StatusAfterQuarantine, Quarantined, Idle, OpenStates
<1>7. ASSUME NEW e \in Events, Dismiss(e)
      PROVE  ReceiptInv' /\ PayloadPrefix'
  BY <1>7, <1>c, <1>a DEF Dismiss
<1>8. CASE Tick
  <2>1. \A h \in Invocations : Waits(h)
    BY <1>8, <1>a DEF Tick, InvocationRecord
  <2> QED
    BY <1>8, <1>c, <2>1 DEF Tick
<1>9. CASE UNCHANGED vars
  BY <1>9, <1>c DEF vars, rows
<1> QED
  BY <1>1, <1>2, <1>3, <1>4, <1>5, <1>6, <1>7, <1>8, <1>9, ReceiptReceive DEF Next, Drain

(* When payloads share no event, the queue holds a prefix of each in the   *)
(* payload's own order, whoever received it and wherever requests died.    *)
THEOREM PayloadsAreDurable ==
    ASSUME PayloadsAreDisjoint
    PROVE  Spec => []PayloadPrefix
<1>1. Init => OrderInv /\ ReceiptInv /\ PayloadPrefix
  BY DEF Init, OrderInv, NoOvertaking, Present, OpenRows, OpenStates, ReceiptInv, RequestOK,
         Resting, Started, PayloadPrefix
<1>2. TypeOK /\ OrderInv /\ [Next]_vars => OrderInv'
  BY OrderStep
<1>3. TypeOK /\ TypeOK' /\ OrderInv /\ ReceiptInv /\ PayloadPrefix /\ [Next]_vars
         => ReceiptInv' /\ PayloadPrefix'
  BY ReceiptStep
<1> QED
  BY <1>1, <1>2, <1>3, TypeCorrect, PTL DEF Spec

-----------------------------------------------------------------------------
(***************************************************************************)
(* Leases.                                                                 *)
(***************************************************************************)
(* While a working invocation is younger than a lease it owns its event,   *)
(* and while it owns the event the lease began no earlier than it did.     *)
LeaseOK(j) ==
    /\ inv[j].life < Lease => Owns(j, inv[j].event)
    /\ Owns(j, inv[j].event) => leaseAge[inv[j].event] <= inv[j].life

LeaseInv == \A j \in Working : LeaseOK(j)

(* A row may change under a working invocation when the invocation did not *)
(* own it, or when its lease had run out.                                  *)
LEMMA LeaseFrame ==
    ASSUME NEW j, TypeOK, LeaseInv, j \in Working,
           inv'[j].event = inv[j].event, inv'[j].life = inv[j].life,
           LET e == inv[j].event
           IN  \/ /\ Owns(j, e)' <=> Owns(j, e)
                  /\ leaseAge'[e] = leaseAge[e]
               \/ /\ ~Owns(j, e) \/ LeaseExpired(e)
                  /\ ~Owns(j, e)'
    PROVE  LeaseOK(j)'
<1> DEFINE e == inv[j].event
<1>1. LeaseOK(j)
  BY DEF LeaseInv
<1>2. e \in Events /\ inv[j].life \in Nat /\ leaseAge[e] \in Nat /\ Lease \in Nat
  BY ClockAssumption DEF TypeOK, Working, InvocationType, InvocationRecord
<1>3. Owns(j, inv[j].event)' <=> Owns(j, e)'
  BY DEF Owns
<1>4. CASE (Owns(j, e)' <=> Owns(j, e)) /\ leaseAge'[e] = leaseAge[e]
  BY <1>1, <1>4 DEF LeaseOK, Owns
<1>5. CASE (~Owns(j, e) \/ LeaseExpired(e)) /\ ~Owns(j, e)'
  BY <1>1, <1>2, <1>5 DEF LeaseOK, LeaseExpired, Owns
<1> QED
  BY <1>4, <1>5

(* The steps of an invocation i that leave the other records alone and     *)
(* take i out of the working invocations, or keep it at work unchanged.    *)
LEMMA LeaseOthers ==
    ASSUME NEW i \in Invocations, TypeOK, LeaseInv,
           \A j \in Invocations \ {i} : inv'[j] = inv[j],
           i \in Working' => /\ i \in Working
                             /\ inv'[i].event = inv[i].event
                             /\ inv'[i].life = inv[i].life,
           \A e \in Events :
              \/ /\ status'[e] = status[e] /\ token'[e] = token[e]
                 /\ leaseAge'[e] = leaseAge[e]
              \/ /\ status[e] = "processing" => (LeaseExpired(e) \/ token[e] = i)
                 /\ token[e] = i => i \notin Working'
                 /\ status'[e] # "processing"
    PROVE  LeaseInv'
<1> SUFFICES ASSUME NEW j \in Working' PROVE LeaseOK(j)'
  BY DEF LeaseInv
<1>1. /\ j \in Working
      /\ inv'[j].event = inv[j].event
      /\ inv'[j].life = inv[j].life
      /\ j = i => i \in Working'
  BY DEF Working
<1>2. inv[j].event \in Events
  BY <1>1 DEF TypeOK, Working, InvocationType
<1> QED
  BY <1>1, <1>2, LeaseFrame DEF Owns

(* Every step keeps the leases. *)
LEMMA LeaseStep == TypeOK /\ LeaseInv /\ [Next]_vars => LeaseInv'
<1> SUFFICES ASSUME TypeOK, LeaseInv, [Next]_vars PROVE LeaseInv'
  OBVIOUS
<1>1. ASSUME NEW i \in Invocations, Receive(i)
      PROVE  LeaseInv'
  <2>1. /\ inv[i].payload \in Payloads \cup {<<>>} /\ inv[i].pos \in Nat
        /\ nextOrder \in Nat \ {0}
    BY DEF TypeOK, InvocationType, InvocationRecord
  <2>2. \A e \in Events : \/ status'[e] = status[e]
                          \/ status[e] = "absent" /\ status'[e] = "pending"
    BY <1>1, <2>1, FreshOrder DEF Receive
  <2>3. UNCHANGED <<token, leaseAge>>
    BY <1>1 DEF Receive, InsertRows
  <2>4. \A j \in Invocations \ {i} : inv'[j] = inv[j]
    BY <1>1 DEF Receive, TypeOK
  <2>5. i \notin Working'
    BY <1>1 DEF Receive, Working, AllReceived, ChunkReceived, TypeOK, InvocationType,
                InvocationRecord
  <2> QED
    BY <2>2, <2>3, <2>4, <2>5, LeaseOthers
<1>2. ASSUME NEW i \in Invocations, NEW s \in Sources, NEW e \in Events, Claim(i, s, e)
      PROVE  LeaseInv'
  <2> DEFINE Q == Quarantined({s})
  <2>1. /\ status' = [f \in Events |-> IF f = e THEN "processing"
                                       ELSE IF f \in Q THEN "stale" ELSE status[f]]
        /\ token' = [f \in Events |-> IF f = e THEN i
                                      ELSE IF f \in Q THEN NoOne ELSE token[f]]
        /\ leaseAge' = [leaseAge EXCEPT ![e] = 0]
        /\ inv' = [inv EXCEPT ![i].pc = "business", ![i].event = e, ![i].left = @ - 1]
        /\ inv[i].pc = "drain"
    BY <1>2 DEF Claim, StatusAfterQuarantine, MayClaim
  <2>2. \A f \in Q \cup {e} : status[f] = "processing" => LeaseExpired(f)
    BY <1>2 DEF Claim, Claimable, Quarantined, Idle
  <2> SUFFICES ASSUME NEW j \in Working' PROVE LeaseOK(j)'
    BY DEF LeaseInv
  <2> HIDE DEF Q
  <2>3. CASE j = i
    <3>1. inv'[i].event = e /\ inv'[i].life = inv[i].life
      BY <2>1 DEF TypeOK, InvocationType, InvocationRecord
    <3>2. leaseAge'[e] = 0 /\ status'[e] = "processing" /\ token'[e] = i
      BY <2>1 DEF TypeOK
    <3>3. inv[i].life \in Nat
      BY ClockAssumption DEF TypeOK, InvocationType, InvocationRecord
    <3> QED
      BY <2>3, <3>1, <3>2, <3>3 DEF LeaseOK, Owns
  <2>4. CASE j # i
    <3>1. j \in Working /\ inv'[j] = inv[j]
      BY <2>1, <2>4 DEF Working, TypeOK
    <3>2. inv[j].event \in Events
      BY <3>1 DEF TypeOK, Working, InvocationType
    <3>3. j # NoOne
      BY <3>1, NoOneAssumption DEF Working
    <3>4. CASE inv[j].event = e \/ inv[j].event \in Q
      BY <2>1, <2>2, <2>4, <3>1, <3>2, <3>3, <3>4, LeaseFrame DEF Owns
    <3>5. CASE inv[j].event # e /\ inv[j].event \notin Q
      BY <2>1, <3>1, <3>2, <3>5, LeaseFrame DEF Owns, TypeOK
    <3> QED
      BY <3>4, <3>5
  <2> QED
    BY <2>3, <2>4
<1>3. ASSUME NEW i \in Invocations, NEW s \in Sources, ClaimNothing(i, s)
      PROVE  LeaseInv'
  <2>1. i \notin Working' /\ (\A j \in Invocations \ {i} : inv'[j] = inv[j])
    BY <1>3 DEF ClaimNothing, Working, NextSource, TypeOK, InvocationType, InvocationRecord
  <2> QED
    BY <1>3, <2>1, LeaseOthers
       DEF ClaimNothing, StatusAfterQuarantine, Quarantined, Idle, TypeOK
<1>4. ASSUME NEW i \in Invocations,
             \/ \E p \in Payloads : Deliver(i, p)
             \/ \E s \in Sources : SkipSource(i, s)
             \/ EndDrain(i) \/ Recover(i) \/ Crash(i)
      PROVE  LeaseInv'
  <2>1. i \notin Working'
    <3>1. inv'[i].pc \in {"idle", "receive", "drain"}
      <4>1. CASE \E p \in Payloads : Deliver(i, p)
        BY <4>1 DEF Deliver, Started, TypeOK
      <4>2. CASE \E s \in Sources : SkipSource(i, s)
        BY <4>2, NextSourceDrains DEF SkipSource, TypeOK
      <4>3. CASE EndDrain(i) \/ Crash(i)
        BY <4>3 DEF EndDrain, Crash, Resting, Started, TypeOK
      <4>4. CASE Recover(i)
        BY <4>4 DEF Recover, Started, TypeOK
      <4> QED
        BY <1>4, <4>1, <4>2, <4>3, <4>4
    <3> QED
      BY <3>1 DEF Working
  <2>2. \A j \in Invocations \ {i} : inv'[j] = inv[j]
    BY <1>4 DEF Deliver, SkipSource, EndDrain, Recover, Crash, TypeOK
  <2>3. UNCHANGED rows
    BY <1>4 DEF Deliver, SkipSource, EndDrain, Recover, Crash
  <2> QED
    BY <2>1, <2>2, <2>3, LeaseOthers DEF rows
<1>5. ASSUME NEW i \in Invocations, Process(i)
      PROVE  LeaseInv'
  <2>1. /\ i \in Working
        /\ inv'[i].event = inv[i].event
        /\ inv'[i].life = inv[i].life
        /\ \A j \in Invocations \ {i} : inv'[j] = inv[j]
    BY <1>5 DEF Process, Working, TypeOK, InvocationType, InvocationRecord
  <2> QED
    BY <1>5, <2>1, LeaseOthers DEF Process, rows
<1>6. ASSUME NEW i \in Invocations, CompleteProcessed(i) \/ Release(i)
      PROVE  LeaseInv'
  <2>1. i \notin Working' /\ (\A j \in Invocations \ {i} : inv'[j] = inv[j])
    <3>1. inv \in [Invocations -> InvocationType]
      BY DEF TypeOK
    <3>2. [inv[i] EXCEPT !.pc = "drain", !.event = NoOne].pc = "drain"
      BY <3>1 DEF InvocationType, InvocationRecord
    <3>3. inv'[i].pc = "drain" /\ (\A j \in Invocations \ {i} : inv'[j] = inv[j])
      <4>1. CASE CompleteProcessed(i)
        BY <4>1, <3>1 DEF CompleteProcessed, InvocationType, InvocationRecord
      <4>2. CASE Release(i) /\ Owns(i, inv[i].event)
        <5>1. inv' = [inv EXCEPT ![i] = NextSource(@, Source[inv[i].event])]
          BY <4>2 DEF Release
        <5> QED
          BY <5>1, <3>1, NextSourceDrains
      <4>3. CASE Release(i) /\ ~Owns(i, inv[i].event)
        BY <4>3, <3>1 DEF Release, InvocationType, InvocationRecord
      <4> QED
        BY <1>6, <4>1, <4>2, <4>3
    <3> QED
      BY <3>3 DEF Working
  <2>2. CASE Owns(i, inv[i].event)
    BY <1>6, <2>1, <2>2, LeaseOthers DEF CompleteProcessed, Release, Complete, Owns, TypeOK
  <2>3. CASE ~Owns(i, inv[i].event)
    BY <1>6, <2>1, <2>3, LeaseOthers DEF CompleteProcessed, Release, rows
  <2> QED
    BY <2>2, <2>3
<1>7. CASE Reconcile
  <2> SUFFICES ASSUME NEW j \in Working' PROVE LeaseOK(j)'
    BY DEF LeaseInv
  <2>1. j \in Working /\ inv' = inv /\ inv[j].event \in Events
    BY <1>7 DEF Reconcile, Working, TypeOK, InvocationType
  <2> QED
    BY <1>7, <2>1, LeaseFrame
       DEF Reconcile, StatusAfterQuarantine, Quarantined, Idle, Owns, TypeOK
<1>8. ASSUME NEW e \in Events, Dismiss(e)
      PROVE  LeaseInv'
  <2> SUFFICES ASSUME NEW j \in Working' PROVE LeaseOK(j)'
    BY DEF LeaseInv
  <2>1. j \in Working /\ inv' = inv /\ inv[j].event \in Events
    BY <1>8 DEF Dismiss, Working, TypeOK, InvocationType
  <2> QED
    BY <1>8, <2>1, LeaseFrame DEF Dismiss, Owns, TypeOK
<1>9. CASE Tick
  <2> SUFFICES ASSUME NEW j \in Working' PROVE LeaseOK(j)'
    BY DEF LeaseInv
  <2> DEFINE e == inv[j].event
  <2>1. /\ j \in Working /\ j \in Live
        /\ inv'[j].event = e /\ inv'[j].life = inv[j].life + 1
    BY <1>9 DEF Tick, Working, Live, TypeOK, InvocationType, InvocationRecord
  <2>2. e \in Events /\ inv[j].life \in Nat /\ leaseAge[e] \in Nat /\ Lease \in Nat
    BY <2>1, ClockAssumption DEF TypeOK, Working, InvocationType, InvocationRecord
  <2>3. status' = status /\ token' = token
    BY <1>9 DEF Tick
  <2>4. leaseAge'[e] <= leaseAge[e] + 1
    BY <1>9, <2>2 DEF Tick
  <2>5. LeaseOK(j) /\ leaseAge'[e] \in Nat
    BY <1>9, <2>1, <2>2 DEF LeaseInv, Tick
  <2>6. Owns(j, inv[j].event)' <=> Owns(j, e)
    BY <2>1, <2>3 DEF Owns
  <2> HIDE DEF e
  <2>7. /\ inv[j].life < Lease => Owns(j, e)
        /\ Owns(j, e) => leaseAge[e] <= inv[j].life
    BY <2>5 DEF LeaseOK, e
  <2>8. /\ inv'[j].life < Lease => Owns(j, e)
        /\ Owns(j, e) => leaseAge'[e] <= inv'[j].life
    BY <2>1, <2>2, <2>4, <2>5, <2>7
  <2> QED
    BY <2>1, <2>6, <2>8 DEF LeaseOK
<1>10. CASE UNCHANGED vars
  <2> SUFFICES ASSUME NEW j \in Working' PROVE LeaseOK(j)'
    BY DEF LeaseInv
  <2> QED
    BY <1>10, LeaseFrame DEF vars, rows, Working, Owns
<1> QED
  BY <1>1, <1>2, <1>3, <1>4, <1>5, <1>6, <1>7, <1>8, <1>9, <1>10 DEF Next, Drain

(* The lease invariant holds in every reachable state. *)
LEMMA LeaseCorrect == Spec => []LeaseInv
<1>1. Init => LeaseInv
  BY DEF Init, LeaseInv, Working, Resting, Started
<1>2. TypeOK /\ LeaseInv /\ [Next]_vars => LeaseInv'
  BY LeaseStep
<1> QED
  BY <1>1, <1>2, TypeCorrect, PTL DEF Spec

(* Within a lease of its start, an invocation owns the event it works on.  *)
THEOREM LeaseProtects == Spec => []OwnedWhileLeased
<1>1. LeaseInv => OwnedWhileLeased
  BY DEF LeaseInv, LeaseOK, OwnedWhileLeased
<1> QED
  BY <1>1, LeaseCorrect, PTL

(* When the platform's limit is shorter than the lease, as 60 seconds are  *)
(* shorter than 5 minutes, no event is ever worked on by two invocations.  *)
THEOREM WorkIsExclusive ==
    ASSUME MaxDuration < Lease
    PROVE  Spec => []ExclusiveWork
<1>1. TypeOK /\ LeaseInv => ExclusiveWork
  <2> SUFFICES ASSUME TypeOK, LeaseInv, NEW i \in Working, NEW j \in Working,
                      inv[i].event = inv[j].event
               PROVE  i = j
    BY DEF ExclusiveWork
  <2>1. inv[i].life \in 0..MaxDuration /\ inv[j].life \in 0..MaxDuration
    BY DEF TypeOK, Working, InvocationType, InvocationRecord
  <2>2. inv[i].life < Lease /\ inv[j].life < Lease
    BY <2>1, ClockAssumption
  <2> QED
    BY <2>2 DEF LeaseInv, LeaseOK, Owns
<1> QED
  BY <1>1, TypeCorrect, LeaseCorrect, PTL

-----------------------------------------------------------------------------
(***************************************************************************)
(* Finality.                                                               *)
(***************************************************************************)
(* The only steps a row takes that has left the queue. *)
LEMMA FinalStep ==
    ASSUME TypeOK, [Next]_vars, NEW e \in Events
    PROVE  /\ status[e] \in {"processed", "failed"} => status'[e] = status[e]
           /\ status[e] = "stale" => status'[e] \in {"stale", "failed"}
<1>a. status \in [Events -> Statuses]
  BY DEF TypeOK
<1>1. ASSUME NEW i \in Invocations, Receive(i)
      PROVE  status'[e] = status[e] \/ status[e] = "absent"
  <2>1. /\ inv[i].payload \in Payloads \cup {<<>>} /\ inv[i].pos \in Nat
        /\ nextOrder \in Nat \ {0}
    BY DEF TypeOK, InvocationType, InvocationRecord
  <2> QED
    BY <1>1, <2>1, FreshOrder DEF Receive
<1>2. ASSUME NEW i \in Invocations, NEW s \in Sources, NEW f \in Events, Claim(i, s, f)
      PROVE  status'[e] = status[e] \/ status[e] \in OpenStates
  BY <1>2, <1>a DEF Claim, Claimable, StatusAfterQuarantine, Quarantined, Idle, OpenStates
<1>3. ASSUME NEW i \in Invocations, NEW s \in Sources, ClaimNothing(i, s)
      PROVE  status'[e] = status[e] \/ status[e] \in OpenStates
  BY <1>3 DEF ClaimNothing, StatusAfterQuarantine, Quarantined, Idle, OpenStates
<1>4. ASSUME NEW i \in Invocations, CompleteProcessed(i) \/ Release(i)
      PROVE  status'[e] = status[e] \/ status[e] \in OpenStates
  BY <1>4, <1>a DEF CompleteProcessed, Release, Complete, Owns, OpenStates, rows
<1>5. ASSUME NEW i \in Invocations,
             \/ \E p \in Payloads : Deliver(i, p)
             \/ \E s \in Sources : SkipSource(i, s)
             \/ EndDrain(i) \/ Process(i) \/ Recover(i) \/ Crash(i)
      PROVE  status'[e] = status[e]
  BY <1>5 DEF Deliver, SkipSource, EndDrain, Process, Recover, Crash, rows
<1>6. CASE Reconcile
  BY <1>6 DEF Reconcile, StatusAfterQuarantine, Quarantined, Idle
<1>7. ASSUME NEW f \in Events, Dismiss(f)
      PROVE  status'[e] = status[e] \/ (status[e] = "stale" /\ status'[e] = "failed")
  BY <1>7, <1>a DEF Dismiss
<1>8. CASE Tick \/ UNCHANGED vars
  BY <1>8 DEF Tick, vars, rows
<1> QED
  BY <1>1, <1>2, <1>3, <1>4, <1>5, <1>6, <1>7, <1>8 DEF Next, Drain, OpenStates

(* A processed or dismissed row never changes again, and a stale one can   *)
(* only be dismissed: no redelivery and no late completion reopens it.     *)
THEOREM FinalityHolds == Spec => TerminalIsFinal
<1>1. TypeOK /\ [Next]_vars =>
        [\A e \in Events :
            /\ status[e] \in {"processed", "failed"} => status'[e] = status[e]
            /\ status[e] = "stale" => status'[e] \in {"stale", "failed"}]_vars
  BY FinalStep
<1> QED
  BY <1>1, TypeCorrect, PTL DEF Spec, TerminalIsFinal

-----------------------------------------------------------------------------
(***************************************************************************)
(* Refinement.                                                             *)
(***************************************************************************)
(* The phase of a row, read off its status, before and after a step. *)
LEMMA PhaseOf ==
    ASSUME NEW e \in Events
    PROVE  /\ status[e] = "absent" => Phase(e) = "unseen"
           /\ status[e] = "pending" => Phase(e) = "waiting"
           /\ status[e] = "processing" => Phase(e) = "taken"
           /\ status[e] = "processed" => Phase(e) = "done"
           /\ status[e] \in {"stale", "failed"} => Phase(e) = "dropped"
           /\ status'[e] = "absent" => Phase(e)' = "unseen"
           /\ status'[e] = "pending" => Phase(e)' = "waiting"
           /\ status'[e] = "processing" => Phase(e)' = "taken"
           /\ status'[e] = "processed" => Phase(e)' = "done"
           /\ status'[e] \in {"stale", "failed"} => Phase(e)' = "dropped"
           /\ status'[e] = status[e] => Phase(e)' = Phase(e)
BY DEF Phase

(* An empty queue is an initial state of the delivery. *)
LEMMA RefinesInit == Init => Delivery!Init
BY DEF Init, Delivery!Init, Phase

(* A step that moves some open rows to "stale" and touches neither order   *)
(* nor sequence drops those rows.                                          *)
LEMMA RefinesDrop ==
    ASSUME TypeOK, UNCHANGED <<order, nextOrder>>, NEW D \in SUBSET OpenRows,
           \A e \in Events : IF e \in D THEN status'[e] = "stale" ELSE status'[e] = status[e]
    PROVE  Delivery!Drop(D)
<1>1. D \subseteq Delivery!Unsettled
  BY PhaseOf DEF OpenRows, OpenStates, Delivery!Unsettled
<1>2. [e \in Events |-> Phase(e)]' = Delivery!Dropping(D)
  BY PhaseOf DEF OpenRows, Delivery!Dropping
<1> QED
  BY <1>1, <1>2 DEF Delivery!Drop

(* A step that leaves every phase and the order alone is a stutter. *)
LEMMA RefinesStutter ==
    ASSUME UNCHANGED <<order, nextOrder>>, \A e \in Events : Phase(e)' = Phase(e)
    PROVE  UNCHANGED Delivery!vars
BY DEF Delivery!vars

(* The events a receive RPC inserts arrive together. *)
LEMMA RefinesArrive ==
    ASSUME TypeOK, TypeOK', NEW i \in Invocations, Receive(i)
    PROVE  \E S \in SUBSET Events : Delivery!Arrive(S)
<1> DEFINE S == {e \in Events : status[e] = "absent" /\ status'[e] # "absent"}
<1>1. /\ inv[i].payload \in Payloads \cup {<<>>} /\ inv[i].pos \in Nat
      /\ nextOrder \in Nat \ {0}
  BY DEF TypeOK, InvocationType, InvocationRecord
<1>2. /\ nextOrder' \in Nat \ {0} /\ nextOrder <= nextOrder'
      /\ \A e \in Events : IF e \in S THEN order'[e] \in nextOrder..(nextOrder' - 1)
                                     ELSE order'[e] = order[e]
      /\ \A e \in Events : \/ status'[e] = status[e]
                           \/ status[e] = "absent" /\ status'[e] = "pending"
  BY <1>1, FreshOrder DEF Receive
<1>3. [e \in Events |-> Phase(e)]' =
        [e \in Events |-> IF e \in S THEN "waiting" ELSE [f \in Events |-> Phase(f)][e]]
  BY <1>2, PhaseOf
<1>4. \A e \in S : [f \in Events |-> Phase(f)][e] = "unseen"
  BY PhaseOf
<1>5. order' \in [Events -> Nat]
  BY DEF TypeOK
<1> HIDE DEF S
<1>6. S \in SUBSET Events
  BY DEF S
<1> QED
  BY <1>2, <1>3, <1>4, <1>5, <1>6 DEF Delivery!Arrive

(* A claim quarantines what expired and takes the earliest open event. *)
LEMMA RefinesTake ==
    ASSUME TypeOK, NEW i \in Invocations, NEW s \in Sources, NEW e \in Events, Claim(i, s, e)
    PROVE  \E D \in SUBSET Events : Delivery!Take(e, D)
<1> DEFINE Q == Quarantined({s})
           P == [f \in Events |-> Phase(f)]
<1>1. /\ status' = [f \in Events |-> IF f = e THEN "processing"
                                     ELSE IF f \in Q THEN "stale" ELSE status[f]]
      /\ UNCHANGED <<order, nextOrder>>
  BY DEF Claim, StatusAfterQuarantine
<1>2. /\ Q \subseteq OpenRows /\ e \in OpenRows /\ e \notin Q
      /\ \A f \in OpenRows \ Q : ~Before(f, e)
  <2>1. age[e] \in 0..StaleAge /\ StaleAge \in Nat
    BY ClockAssumption DEF TypeOK
  <2>2. e \notin Q
    BY <2>1 DEF Claim, Claimable, Quarantined
  <2> QED
    BY <2>2 DEF Claim, Claimable, Quarantined, Idle, OpenRows, OpenStates
<1>3. Delivery!Unsettled = OpenRows
  BY PhaseOf DEF Delivery!Unsettled, OpenRows, OpenStates, TypeOK, Statuses
<1>4. \A f \in Events : Delivery!Earlier(f, e) <=> Before(f, e)
  BY DEF Delivery!Earlier, Before
<1> HIDE DEF Q
<1>5. P' = [f \in Events |-> IF f = e THEN "taken"
                            ELSE IF f \in Q THEN "dropped" ELSE P[f]]
  BY <1>1, PhaseOf
<1>6. P' = [Delivery!Dropping(Q) EXCEPT ![e] = "taken"]
  BY <1>5 DEF Delivery!Dropping
<1>7. Delivery!Take(e, Q)
  BY <1>1, <1>2, <1>3, <1>4, <1>6 DEF Delivery!Take, OpenRows
<1> QED
  BY <1>2, <1>7 DEF OpenRows

(* Every step of the queue is a step of the delivery, or a stutter. *)
LEMMA RefinesStep == TypeOK /\ TypeOK' /\ [Next]_vars => [Delivery!Next]_(Delivery!vars)
<1> SUFFICES ASSUME TypeOK, TypeOK', [Next]_vars PROVE [Delivery!Next]_(Delivery!vars)
  OBVIOUS
<1>1. ASSUME NEW i \in Invocations, Receive(i)
      PROVE  Delivery!Next
  BY <1>1, RefinesArrive DEF Delivery!Next
<1>2. ASSUME NEW i \in Invocations, NEW s \in Sources, NEW e \in Events, Claim(i, s, e)
      PROVE  Delivery!Next
  BY <1>2, RefinesTake DEF Delivery!Next
<1>3. ASSUME NEW D \in SUBSET OpenRows, Delivery!Drop(D)
      PROVE  Delivery!Next
  BY <1>3 DEF Delivery!Next, OpenRows
<1>4. ASSUME NEW S \in SUBSET Sources
      PROVE  Quarantined(S) \in SUBSET OpenRows
  BY DEF Quarantined, Idle, OpenRows, OpenStates
<1>5. ASSUME NEW i \in Invocations, NEW s \in Sources, ClaimNothing(i, s)
      PROVE  Delivery!Next
  <2>1. Quarantined({s}) \in SUBSET OpenRows
    BY <1>4
  <2>2. Delivery!Drop(Quarantined({s}))
    BY <1>5, <2>1, RefinesDrop DEF ClaimNothing, StatusAfterQuarantine
  <2> QED
    BY <1>3, <2>1, <2>2
<1>6. CASE Reconcile
  <2>1. Quarantined(Sources) \in SUBSET OpenRows
    BY <1>4
  <2>2. Delivery!Drop(Quarantined(Sources))
    BY <1>6, <2>1, RefinesDrop DEF Reconcile, StatusAfterQuarantine
  <2> QED
    BY <1>3, <2>1, <2>2
<1>7. ASSUME NEW i \in Invocations, NEW e \in Events, NEW to \in {"processed", "pending"},
             Owns(i, e), Complete(i, e, to)
      PROVE  Delivery!Next
  <2>1. /\ status' = [status EXCEPT ![e] = to] /\ UNCHANGED <<order, nextOrder>>
        /\ status[e] = "processing"
    BY <1>7 DEF Complete, Owns
  <2>2. status \in [Events -> Statuses]
    BY DEF TypeOK
  <2>3. ASSUME NEW q, Phase(e)' = q
        PROVE  [f \in Events |-> Phase(f)]' = [[f \in Events |-> Phase(f)] EXCEPT ![e] = q]
    BY <2>1, <2>2, <2>3, PhaseOf
  <2>4. CASE to = "processed"
    BY <2>1, <2>2, <2>3, <2>4, PhaseOf DEF Delivery!Next, Delivery!Finish
  <2>5. CASE to = "pending"
    BY <2>1, <2>2, <2>3, <2>5, PhaseOf DEF Delivery!Next, Delivery!GiveBack
  <2> QED
    BY <2>4, <2>5
<1>8. ASSUME UNCHANGED rows
      PROVE  UNCHANGED Delivery!vars
  BY <1>8, PhaseOf, RefinesStutter DEF rows
<1>9. ASSUME NEW i \in Invocations, CompleteProcessed(i) \/ Release(i)
      PROVE  [Delivery!Next]_(Delivery!vars)
  <2>1. inv[i].event \in Events
    BY <1>9 DEF CompleteProcessed, Release, TypeOK, InvocationType
  <2> QED
    BY <1>7, <1>8, <1>9, <2>1 DEF CompleteProcessed, Release
<1>10. ASSUME NEW i \in Invocations,
             \/ \E p \in Payloads : Deliver(i, p)
             \/ \E s \in Sources : SkipSource(i, s)
             \/ EndDrain(i) \/ Process(i) \/ Recover(i) \/ Crash(i)
      PROVE  UNCHANGED Delivery!vars
  BY <1>8, <1>10 DEF Deliver, SkipSource, EndDrain, Process, Recover, Crash
<1>11. ASSUME NEW e \in Events, Dismiss(e)
       PROVE  UNCHANGED Delivery!vars
  <2>1. ASSUME NEW f \in Events
        PROVE  Phase(f)' = Phase(f)
    BY <1>11, PhaseOf DEF Dismiss, TypeOK
  <2> QED
    BY <1>11, <2>1, RefinesStutter DEF Dismiss
<1>12. CASE Tick \/ UNCHANGED vars
  <2>1. UNCHANGED <<status, order, nextOrder>>
    BY <1>12 DEF Tick, vars, rows
  <2> QED
    BY <2>1, PhaseOf, RefinesStutter
<1> QED
  BY <1>1, <1>2, <1>5, <1>6, <1>9, <1>10, <1>11, <1>12 DEF Next, Drain

(* The queue implements the ordered delivery it promises.                  *)
THEOREM QueueImplementsDelivery == Spec => Refines
<1>1. Init => Delivery!Init
  BY RefinesInit
<1>2. TypeOK /\ TypeOK' /\ [Next]_vars => [Delivery!Next]_(Delivery!vars)
  BY RefinesStep
<1> QED
  BY <1>1, <1>2, TypeCorrect, PTL DEF Spec, Refines, Delivery!Spec
=============================================================================
