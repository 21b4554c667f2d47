------------------------- MODULE PendingSessionProofs -------------------------
(***************************************************************************)
(* Theorems about PendingSession, for every number and kind of messages,   *)
(* every set of workers and every bound on the faults.                     *)
(***************************************************************************)
EXTENDS PendingSession, FiniteSetTheorems, TLAPS

-----------------------------------------------------------------------------
(***************************************************************************)
(* The inductive invariant, by parts.                                      *)
(***************************************************************************)
(* The boundaries of a session are a header and a closing message. *)
BoundaryKinds ==
    /\ session.opener # None => script[session.opener] = "opener"
    /\ session.close # None => script[session.close] = "close"

(* A worker is at a step of its message's kind; a review it is about to    *)
(* mark was shown.                                                         *)
JobForm ==
    \A w \in Workers :
        job[w].at # "idle" =>
            /\ job[w].event \in Messages
            /\ script[job[w].event] = IF job[w].at \in Kinds THEN job[w].at ELSE "close"
            /\ job[w].at = "mark" =>
                  [gen |-> job[w].snap.gen, doc |-> Document(job[w].snap.rows),
                   by |-> job[w].event] \in shown

(* What a deferred row says of its item. *)
DeferredTruly ==
    \A x \in Messages :
        /\ deferred[x].gen <= session.gen
        /\ deferred[x].status # "none" => x \in Items
        /\ deferred[x].status = "admitted" => x \in session.rows \cup left
        /\ deferred[x].status = "before" /\ deferred[x].gen = session.gen => x <= session.opener
        /\ deferred[x].status = "after" /\ deferred[x].gen = session.gen =>
              session.close # None /\ session.close <= x

(* The items of a run's snapshot up to its close. *)
SnapList == {e \in Document(run.snap.rows) : e <= run.snap.close}
Judged == run.at \in {"hold", "push", "mark", "save"}

(* What the finalizer knows of the generation it works on stays true of it *)
(* although it grows; what it loaded lies between its snapshot and what    *)
(* the session has by now.                                                 *)
RunForm ==
    /\ run.at # "idle" =>
         /\ run.snap.gen <= session.gen
         /\ Same(session, run.snap) =>
              /\ session.close = run.snap.close /\ session.close # None
              /\ run.snap.rows \subseteq session.rows
    /\ Judged /\ Same(session, run.snap) => SnapList \subseteq run.doc /\ run.doc \subseteq TheList
    /\ Judged /\ ~run.errors => ~NeedsReview(run.doc) \/ IsConfirmed(run.snap.gen, run.doc)
    /\ run.at = "mark" => [gen |-> run.snap.gen, doc |-> run.doc, by |-> Token] \in shown

(* There is one review of a document; it is delivered after it was shown,  *)
(* and confirmed by another message than one that showed it.               *)
ReviewForm ==
    /\ \A r, q \in reviews : r.gen = q.gen /\ r.doc = q.doc => r = q
    /\ \A r \in reviews :
          /\ r.delivered => [gen |-> r.gen, doc |-> r.doc, by |-> r.by] \in shown
          /\ r.confirmed # None =>
                \E d \in shown : d.gen = r.gen /\ d.doc = r.doc /\ d.by # r.confirmed

IInv ==
    /\ TypeOK /\ BoundaryKinds /\ JobForm /\ DeferredTruly /\ RunForm /\ ReviewForm
    /\ SavedIsWhole /\ ReviewedBeforeSaved /\ NoItemForgotten

-----------------------------------------------------------------------------
(***************************************************************************)
(* The session's row.                                                      *)
(***************************************************************************)
LEMMA Bounds ==
    /\ N \in Nat /\ MaxFaults \in Nat /\ Announced \in [Messages -> Nat]
    /\ Messages \subseteq Nat /\ None \notin Messages
    /\ \A e \in Messages : e \in 0..N /\ e # None
    /\ None \in 0..N
BY ScriptAssumption, AnnouncedAssumption, BoundAssumption DEF Messages, None

(* The fields of a typed row. *)
LEMMA SessionFields ==
    ASSUME NEW s \in SessionType
    PROVE  /\ s.gen \in Nat /\ s.opener \in 0..N /\ s.rows \subseteq Messages /\ s.close \in 0..N
           /\ s.announced \in Nat /\ s.attempt \in {"none", "set", "due"} /\ s.late \in BOOLEAN
           /\ s.refused \in BOOLEAN /\ s.outcome \in {"none", "live", "finalized", "failed"}
           /\ s.saved \subseteq Messages
BY DEF SessionType

LEMMA NoSessionFields ==
    /\ NoSession \in SessionType
    /\ NoSession.gen = 0 /\ NoSession.rows = {} /\ NoSession.outcome = "none"
    /\ NoSession.opener = None /\ NoSession.close = None /\ NoSession.attempt = "none"
    /\ View(NoSession) \in ViewType
BY Bounds DEF NoSession, SessionType, View, ViewType

(* What a reader keeps of a row. *)
LEMMA ViewFields ==
    ASSUME NEW s \in SessionType
    PROVE  /\ View(s) \in ViewType
           /\ View(s).gen = s.gen /\ View(s).opener = s.opener /\ View(s).rows = s.rows
           /\ View(s).close = s.close /\ View(s).refused = s.refused
BY DEF View, ViewType, SessionType

LEMMA NoJobFields ==
    /\ NoJob \in [at : Steps, event : 0..N, leased : BOOLEAN, snap : ViewType, presents : BOOLEAN]
    /\ NoJob.at = "idle"
BY NoSessionFields, Bounds DEF NoJob, Steps

LEMMA NoRunFields ==
    /\ NoRun \in [at : {"idle", "fetched", "hold", "push", "mark", "save"}, snap : ViewType,
                  doc : SUBSET Messages, errors : BOOLEAN]
    /\ NoRun.at = "idle"
BY NoSessionFields DEF NoRun

(* Rows are taken in while the session is open. *)
LEMMA AppendedFields ==
    ASSUME NEW s \in SessionType, NEW new \in SUBSET Messages
    PROVE  LET t == Appended(s, new) IN
           /\ t \in SessionType
           /\ t.rows = s.rows \cup new
           /\ t.attempt = s.attempt \/ (t.attempt = "set" /\ s.close # None)
           /\ new = {} => t = s
           /\ t.gen = s.gen /\ t.opener = s.opener /\ t.close = s.close
           /\ t.announced = s.announced /\ t.outcome = s.outcome /\ t.saved = s.saved
BY DEF Appended, SessionType

LEMMA EndedFields ==
    ASSUME NEW s \in SessionType, NEW outcome \in {"finalized", "failed"}, NEW doc \in SUBSET Messages
    PROVE  LET t == Ended(s, outcome, doc) IN
           /\ t \in SessionType
           /\ t.outcome = outcome /\ t.saved = doc /\ t.attempt = "none"
           /\ t.gen = s.gen /\ t.opener = s.opener /\ t.close = s.close /\ t.rows = s.rows
           /\ t.announced = s.announced
BY DEF Ended, SessionType

(* A step goes on with the generation: it grows, is closed once and ends   *)
(* once, saved only by try_finalize_pending_generation; ...                *)
Saves ==
    /\ run.at = "save" /\ Current(run.snap) /\ GuardedBy(session) = {}
    /\ ~Missing /\ ~run.errors
    /\ session' = Ended(session, "finalized", run.doc)

Continues ==
    /\ session'.gen = session.gen /\ session'.opener = session.opener
    /\ session.rows \subseteq session'.rows
    /\ session.close # None => session'.close = session.close /\ session'.announced = session.announced
    /\ session.close = None /\ session'.close # None => script[session'.close] = "close"
    /\ ~Live(session) => session' = session
    /\ session' # session /\ session'.outcome = "finalized" => Saves
    /\ left' = left

(* ... or a header opens the next one. *)
Rotated ==
    \E e \in Messages :
        /\ script[e] = "opener"
        /\ session'.gen = session.gen + 1 /\ session'.opener = e /\ session'.close = None
        /\ session'.outcome = "live"
        /\ {e} \cup Carried(e, session) \subseteq session'.rows
        /\ left' = left \cup {x \in session.rows : x < e}

SessionOK ==
    /\ session' \in SessionType
    /\ session'.attempt # "none" => session'.outcome = "live" /\ session'.close # None
    /\ Continues \/ Rotated
    /\ left' \subseteq Messages

LEMMA UnchangedSession ==
    ASSUME TypeOK, UNCHANGED <<session, left>>
    PROVE  SessionOK
BY DEF TypeOK, SessionOK, Continues, Live

(* A header's generation. *)
LEMMA OpenEffect ==
    ASSUME IInv, NEW e \in Messages, script[e] = "opener", Open(e)
    PROVE  /\ SessionOK
           /\ \A x \in Messages :
                 \/ deferred'[x] = deferred[x]
                 \/ /\ deferred'[x] = [status |-> "admitted", gen |-> session'.gen]
                    /\ x \in session'.rows /\ deferred[x].status # "none"
           /\ deferred' = [x \in Messages |-> deferred'[x]]
<1> DEFINE again == session.opener = e
           old   == IF again THEN NoSession ELSE session
           new   == [NoSession EXCEPT !.gen = session.gen + 1, !.opener = e,
                        !.outcome = "live", !.rows = {e} \cup Carried(e, session)]
           base  == IF again THEN session ELSE new
           taken == {x \in Reconciled(e, old) : Accepts(base, x)}
<1>a. /\ session \in SessionType /\ left \subseteq Messages /\ TypeOK
      /\ session.attempt # "none" => Live(session) /\ session.close # None
      /\ session.gen \in Nat /\ session.rows \subseteq Messages
  BY DEF IInv, TypeOK, SessionType
<1>1. /\ session' = Appended(base, taken)
      /\ deferred' = [x \in Messages |-> IF x \in taken
                          THEN [status |-> "admitted", gen |-> base.gen] ELSE deferred[x]]
      /\ left' = IF again THEN left ELSE left \cup {x \in session.rows : x < e}
  BY DEF Open
<1>2. Carried(e, session) \subseteq Messages
  BY <1>a DEF Carried
<1>3. /\ new \in SessionType /\ new.gen = session.gen + 1 /\ new.opener = e /\ new.close = None
      /\ new.outcome = "live" /\ new.rows = {e} \cup Carried(e, session) /\ new.attempt = "none"
  <2>1. session.gen + 1 \in Nat /\ e \in 0..N /\ {e} \cup Carried(e, session) \in SUBSET Messages
    BY <1>a, <1>2, Bounds
  <2> QED
    BY <2>1, NoSessionFields DEF SessionType
<1>4. base \in SessionType
  BY <1>a, <1>3
<1>5. taken \subseteq Messages /\ \A x \in taken : deferred[x].status # "none" /\ Live(base)
  BY DEF Reconciled, Accepts
<1> HIDE DEF new, base, taken, old
<1>6. /\ session' \in SessionType /\ session'.rows = base.rows \cup taken
      /\ session'.attempt = base.attempt \/ (session'.attempt = "set" /\ base.close # None /\ taken # {})
      /\ taken = {} => session' = base
      /\ session'.gen = base.gen /\ session'.opener = base.opener /\ session'.close = base.close
      /\ session'.announced = base.announced /\ session'.outcome = base.outcome
  BY <1>1, <1>4, <1>5, AppendedFields
<1>7. ASSUME again PROVE SessionOK
  <2>1. base = session /\ left' = left
    BY <1>1, <1>7 DEF base
  <2>2. ~Live(session) => session' = session
    BY <1>5, <1>6, <2>1
  <2>3. Continues
    BY <1>6, <2>1, <2>2 DEF Continues, Live
  <2>4. session'.attempt # "none" => session'.outcome = "live" /\ session'.close # None
    BY <1>a, <1>5, <1>6, <2>1 DEF Live
  <2> QED
    BY <1>a, <1>6, <2>1, <2>3, <2>4 DEF SessionOK
<1>8. ASSUME ~again PROVE SessionOK
  <2>1. base = new /\ left' = left \cup {x \in session.rows : x < e}
    BY <1>1, <1>8 DEF base
  <2>2. Rotated
    BY <1>3, <1>6, <2>1 DEF Rotated
  <2>3. session'.attempt # "none" => session'.outcome = "live" /\ session'.close # None
    BY <1>3, <1>6, <2>1
  <2> QED
    BY <1>a, <1>6, <2>1, <2>2, <2>3 DEF SessionOK
<1>9. SessionOK
  BY <1>7, <1>8
<1>10. \A x \in Messages :
         \/ deferred'[x] = deferred[x]
         \/ /\ deferred'[x] = [status |-> "admitted", gen |-> session'.gen]
            /\ x \in session'.rows /\ deferred[x].status # "none"
  BY <1>1, <1>5, <1>6
<1>11. deferred' = [x \in Messages |-> deferred'[x]]
  BY <1>1
<1> QED
  BY <1>9, <1>10, <1>11

(* What a step makes of an item's deferred row. *)
DeferredType == [status : {"none", "waiting", "expired", "admitted", "before", "after", "orphan"},
                 gen : Nat]

DeferredStep(x) ==
    \/ deferred'[x] = deferred[x]
    \/ /\ x \in Items /\ deferred'[x].gen <= session.gen
       /\ \/ deferred'[x].status \in {"waiting", "expired", "orphan"}
          \/ deferred'[x].status = "before" /\ x <= session.opener /\ session' = session
          \/ /\ deferred'[x].status = "after" /\ session.close # None /\ session.close <= x
             /\ session' = session
    \/ /\ x \in Items /\ deferred'[x].gen <= session'.gen
       /\ deferred'[x].status = "admitted" /\ x \in session'.rows

DeferredOK ==
    /\ deferred' \in [Messages -> DeferredType]
    /\ \A x \in Messages : DeferredStep(x)

LEMMA UnchangedDeferred ==
    ASSUME TypeOK, UNCHANGED deferred
    PROVE  DeferredOK
BY DEF TypeOK, DeferredOK, DeferredStep, DeferredType

(* An item is taken in by the session it lies in. *)
LEMMA AppendEffect ==
    ASSUME IInv, NEW e \in Items, Accepts(session, e), session' = Appended(session, {e}),
           UNCHANGED left
    PROVE  SessionOK /\ e \in session'.rows /\ session'.gen = session.gen
<1>a. session \in SessionType /\ left \subseteq Messages /\ Live(session) /\ e \in Messages
  BY DEF IInv, TypeOK, Accepts, Items
<1>1. /\ session' \in SessionType /\ session'.rows = session.rows \cup {e}
      /\ session'.attempt = session.attempt \/ (session'.attempt = "set" /\ session.close # None)
      /\ session'.gen = session.gen /\ session'.opener = session.opener
      /\ session'.close = session.close /\ session'.announced = session.announced
      /\ session'.outcome = session.outcome
  BY <1>a, AppendedFields
<1>2. Continues
  BY <1>a, <1>1 DEF Continues, Live
<1>3. session'.attempt # "none" => session'.outcome = "live" /\ session'.close # None
  BY <1>a, <1>1 DEF IInv, TypeOK, Live
<1> QED
  BY <1>a, <1>1, <1>2, <1>3 DEF SessionOK

(* The session ends. *)
LEMMA EndEffect ==
    ASSUME IInv, Live(session), UNCHANGED left,
           session' = Ended(session, "failed", {}) \/ Saves
    PROVE  SessionOK
<1>a. session \in SessionType /\ left \subseteq Messages /\ run.doc \subseteq Messages
  BY DEF IInv, TypeOK
<1>1. PICK outcome \in {"finalized", "failed"}, doc \in SUBSET Messages :
          /\ session' = Ended(session, outcome, doc)
          /\ outcome = "finalized" => Saves
  BY <1>a DEF Saves
<1>2. /\ session' \in SessionType /\ session'.outcome = outcome /\ session'.attempt = "none"
      /\ session'.gen = session.gen /\ session'.opener = session.opener
      /\ session'.close = session.close /\ session'.rows = session.rows
      /\ session'.announced = session.announced
  BY <1>a, <1>1, EndedFields
<1>3. Continues
  BY <1>1, <1>2 DEF Continues
<1> QED
  BY <1>a, <1>2, <1>3 DEF SessionOK

(* A field that is no boundary changes. *)
LEMMA FieldEffect ==
    ASSUME IInv, Live(session), UNCHANGED left,
           \/ session' = [session EXCEPT !.late = TRUE]
           \/ session' = [session EXCEPT !.attempt = "none"]
           \/ session.close # None /\ session' = [session EXCEPT !.attempt = "set"]
           \/ session.close # None /\ session' = [session EXCEPT !.attempt = "due"]
           \/ session' = [session EXCEPT !.refused = @ \/ session.close = None]
    PROVE  SessionOK
<1>a. session \in SessionType /\ left \subseteq Messages
        /\ (session.attempt # "none" => session.close # None)
  BY DEF IInv, TypeOK
<1>1. /\ session' \in SessionType /\ session'.outcome = session.outcome
      /\ session'.gen = session.gen /\ session'.opener = session.opener
      /\ session'.close = session.close /\ session'.rows = session.rows
      /\ session'.announced = session.announced
      /\ session'.attempt # "none" => session.close # None
  BY <1>a DEF SessionType
<1>2. Continues
  BY <1>1 DEF Continues, Live
<1> QED
  BY <1>a, <1>1, <1>2 DEF SessionOK, Live

(* Every step does one of these to the session and the deferred rows.      *)
LEMMA WorkSession ==
    ASSUME IInv, NEW w \in Workers, Work(w)
    PROVE  SessionOK /\ DeferredOK
<1> DEFINE Goal == SessionOK /\ DeferredOK
<1>a. TypeOK /\ session \in SessionType /\ JobForm /\ left \subseteq Messages
        /\ deferred \in [Messages -> DeferredType]
  BY DEF IInv, TypeOK, DeferredType
<1>0. ASSUME UNCHANGED <<session, deferred, left>> PROVE Goal
  BY <1>0, <1>a, UnchangedSession, UnchangedDeferred
<1>1. ASSUME NEW e \in Messages, script[e] = "opener", Open(e) PROVE Goal
  <2>1. SessionOK
    BY <1>1, OpenEffect
  <2>2. session'.gen \in Nat /\ session'.gen <= session'.gen
    BY <2>1 DEF SessionOK, SessionType
  <2>3. \A x \in Messages :
          \/ deferred'[x] = deferred[x]
          \/ /\ deferred'[x] = [status |-> "admitted", gen |-> session'.gen]
             /\ x \in session'.rows /\ deferred[x].status # "none"
    BY <1>1, OpenEffect
  <2>4. deferred' = [x \in Messages |-> deferred'[x]]
    BY <1>1, OpenEffect
  <2>5. \A x \in Messages : deferred'[x] \in DeferredType
    BY <1>a, <2>2, <2>3 DEF DeferredType
  <2>6. deferred' \in [Messages -> DeferredType]
    BY <2>4, <2>5
  <2>7. \A x \in Messages : DeferredStep(x)
    BY <2>2, <2>3 DEF DeferredStep, IInv, DeferredTruly
  <2> QED
    BY <2>1, <2>6, <2>7 DEF DeferredOK
<1>2. ASSUME OpenFirst(w) \/ OpenNext(w) PROVE Goal
  <2>1. job[w].event \in Messages /\ script[job[w].event] = "opener"
    BY <1>2, <1>a DEF OpenFirst, OpenNext, At, JobForm, Kinds
  <2>2. Open(job[w].event) \/ UNCHANGED <<session, deferred, left>>
    BY <1>2 DEF OpenFirst, OpenNext
  <2> QED
    BY <1>0, <1>1, <2>1, <2>2
<1>3. ASSUME AppendOrDefer(w) PROVE Goal
  <2> DEFINE e == job[w].event
  <2>1. e \in Items /\ e \in Messages /\ left' = left
    BY <1>3, <1>a DEF AppendOrDefer, JobForm, Kinds, Items
  <2>2. CASE Inside(session, e) /\ Accepts(session, e)
    <3>1. session' = Appended(session, {e}) /\ deferred' = deferred
      BY <1>3, <2>2 DEF AppendOrDefer
    <3> HIDE DEF e
    <3> QED
      BY <1>a, <2>1, <2>2, <3>1, AppendEffect, UnchangedDeferred
  <2>3. CASE ~(Inside(session, e) /\ Accepts(session, e))
    <3>1. /\ session' = session
          /\ \/ deferred' = deferred
             \/ deferred' = [deferred EXCEPT ![e] = Deferral(session, e)]
      BY <1>3, <2>3 DEF AppendOrDefer
    <3> HIDE DEF e
    <3>2. SessionOK
      BY <1>a, <2>1, <3>1, UnchangedSession
    <3>3. /\ Deferral(session, e) \in DeferredType
          /\ \/ Deferral(session, e) = deferred[e]
             \/ /\ Deferral(session, e).gen <= session.gen
                /\ \/ Deferral(session, e).status = "waiting"
                   \/ Deferral(session, e).status = "before" /\ e <= session.opener
                   \/ Deferral(session, e).status = "after" /\ session.close # None /\ session.close <= e
      <4>1. session.gen \in Nat /\ session.close \in 0..N /\ e \in Nat /\ deferred[e] \in DeferredType
        BY <1>a, <2>1, Bounds, SessionFields
      <4> QED
        BY <4>1 DEF Deferral, DeferredType
    <3>4. DeferredOK
      <4>1. CASE deferred' = deferred
        BY <1>a, <4>1, UnchangedDeferred
      <4>2. CASE deferred' = [deferred EXCEPT ![e] = Deferral(session, e)]
        <5>1. deferred' \in [Messages -> DeferredType]
          BY <1>a, <3>3, <4>2
        <5>2. \A x \in Messages : DeferredStep(x)
          BY <1>a, <2>1, <3>1, <3>3, <4>2 DEF DeferredStep
        <5> QED
          BY <5>1, <5>2 DEF DeferredOK
      <4> QED
        BY <3>1, <4>1, <4>2
    <3> QED
      BY <3>2, <3>4
  <2> QED
    BY <2>2, <2>3
<1>4. ASSUME CloseNothing(w) \/ Gate(w) \/ Confirm(w) \/ Stage(w) \/ Reply(w) \/ MarkPresented(w) PROVE Goal
  BY <1>0, <1>4 DEF CloseNothing, Gate, Confirm, Stage, Reply, MarkPresented
<1>5. ASSUME Refuse(w) PROVE Goal
  BY <1>a, <1>0, <1>5, FieldEffect, UnchangedDeferred DEF Refuse
<1>6. ASSUME Resume(w) PROVE Goal
  BY <1>a, <1>0, <1>6, FieldEffect, UnchangedDeferred DEF Resume
<1>7. ASSUME AppendClose(w) PROVE Goal
  <2> DEFINE e == job[w].event
  <2>1. e \in Messages /\ script[e] = "close"
    BY <1>7, <1>a DEF AppendClose, Appending, At, JobForm, Kinds
  <2>2. CASE ~Pinned(job[w].snap)
    BY <1>0, <1>7, <2>2 DEF AppendClose
  <2>3. CASE Pinned(job[w].snap)
    <3>1. /\ session' = [session EXCEPT !.rows = @ \cup {e}, !.close = e, !.attempt = "set",
                            !.announced = Announced[e]]
          /\ UNCHANGED <<deferred, left>>
      BY <1>7, <2>3 DEF AppendClose
    <3>2. Announced[e] \in Nat /\ e \in 0..N /\ e # None
      BY <2>1, Bounds
    <3>3. Live(session) /\ session.close = None
      BY <2>3 DEF Pinned
    <3> HIDE DEF e
    <3>4. /\ session' \in SessionType /\ session'.outcome = session.outcome
          /\ session'.gen = session.gen /\ session'.opener = session.opener
          /\ session'.close = e /\ session.rows \subseteq session'.rows
      BY <1>a, <2>1, <3>1, <3>2 DEF SessionType
    <3>5. Continues
      BY <2>1, <3>1, <3>3, <3>4 DEF Continues, Live
    <3>6. SessionOK
      BY <1>a, <3>1, <3>2, <3>3, <3>4, <3>5 DEF SessionOK, Live
    <3> QED
      BY <1>a, <3>1, <3>6, UnchangedDeferred
  <2> QED
    BY <2>2, <2>3
<1> QED
  BY <1>2, <1>3, <1>4, <1>5, <1>6, <1>7 DEF Work

LEMMA SessionCases ==
    ASSUME IInv, Next
    PROVE  SessionOK /\ DeferredOK
<1> DEFINE Goal == SessionOK /\ DeferredOK
<1>a. TypeOK /\ session \in SessionType /\ left \subseteq Messages
        /\ deferred \in [Messages -> DeferredType]
  BY DEF IInv, TypeOK, DeferredType
<1>0. ASSUME UNCHANGED <<session, deferred, left>> PROVE Goal
  BY <1>0, <1>a, UnchangedSession, UnchangedDeferred
<1>1. ASSUME NEW w \in Workers,
             GateFails(w) \/ ReplyFails(w) \/ CallFails(w) \/ LoseLease(w) \/ Die(w)
               \/ \E e \in Messages : Take(w, e)
      PROVE  Goal
  BY <1>0, <1>1 DEF GateFails, ReplyFails, CallFails, LoseLease, Die, Take
<1>2. CASE Queueing
  BY <1>1, <1>2, WorkSession DEF Queueing
<1>3. ASSUME NEW e \in Messages, Deliver(e) PROVE Goal
  BY <1>0, <1>3 DEF Deliver
<1>4. ASSUME NEW e \in Messages, Expire(e) PROVE Goal
  <2>1. /\ deferred' = [deferred EXCEPT ![e].status = "expired"] /\ UNCHANGED <<session, left>>
        /\ deferred[e].status # "none"
    BY <1>4 DEF Expire
  <2>2. SessionOK
    BY <1>a, <2>1, UnchangedSession
  <2>3. deferred' \in [Messages -> DeferredType]
    BY <1>a, <2>1 DEF DeferredType
  <2>4. e \in Items /\ deferred[e].gen <= session.gen
    BY <2>1 DEF IInv, DeferredTruly
  <2>5. \A x \in Messages \ {e} : deferred'[x] = deferred[x]
    BY <1>a, <2>1
  <2>6. deferred'[e].status = "expired" /\ deferred'[e].gen = deferred[e].gen
    BY <1>a, <2>1 DEF DeferredType
  <2>7. \A x \in Messages : DeferredStep(x)
    BY <2>4, <2>5, <2>6 DEF DeferredStep
  <2> QED
    BY <2>2, <2>3, <2>7 DEF DeferredOK
<1>5. ASSUME NEW e \in Messages, Resolve(e) PROVE Goal
  <2>1. e \in Items /\ left' = left
    BY <1>5 DEF Resolve, IInv, DeferredTruly
  <2>2. session.gen \in Nat /\ session.gen <= session.gen
    BY <1>a, SessionFields
  <2>3. CASE Inside(session, e) /\ Accepts(session, e)
    <3>1. /\ session' = Appended(session, {e})
          /\ deferred' = [deferred EXCEPT ![e] = [status |-> "admitted", gen |-> session.gen]]
      BY <1>5, <2>3 DEF Resolve
    <3>2. SessionOK /\ e \in session'.rows /\ session'.gen = session.gen
      BY <2>1, <2>3, <3>1, AppendEffect
    <3>3. deferred' \in [Messages -> DeferredType]
      BY <1>a, <2>2, <3>1 DEF DeferredType
    <3>4. \A x \in Messages : DeferredStep(x)
      BY <1>a, <2>1, <2>2, <3>1, <3>2 DEF DeferredStep
    <3> QED
      BY <3>2, <3>3, <3>4 DEF DeferredOK
  <2>4. CASE ~(Inside(session, e) /\ Accepts(session, e))
    <3> DEFINE d == [status |-> IF session # NoSession /\ e <= session.opener THEN "before"
                                ELSE IF session.close # None /\ e >= session.close THEN "after"
                                ELSE "orphan",
                     gen |-> session.gen]
    <3>1. session' = session /\ deferred' = [deferred EXCEPT ![e] = d]
      BY <1>5, <2>4 DEF Resolve
    <3>2. session.close \in Nat /\ e \in Nat
      BY <1>a, SessionFields, Bounds
    <3>3. /\ d \in DeferredType /\ d.gen = session.gen
          /\ \/ d.status = "orphan"
             \/ d.status = "before" /\ e <= session.opener
             \/ d.status = "after" /\ session.close # None /\ session.close <= e
      BY <2>2, <3>2 DEF DeferredType
    <3> HIDE DEF d
    <3>4. SessionOK
      BY <1>a, <2>1, <3>1, UnchangedSession
    <3>5. deferred' \in [Messages -> DeferredType]
      BY <1>a, <3>1, <3>3
    <3>6. \A x \in Messages : DeferredStep(x)
      BY <1>a, <2>1, <2>2, <3>1, <3>3 DEF DeferredStep
    <3> QED
      BY <3>4, <3>5, <3>6 DEF DeferredOK
  <2> QED
    BY <2>3, <2>4
<1>6. CASE Fetch \/ Validate \/ Overtaken \/ PushReview \/ MarkPushed \/ Cut
  BY <1>0, <1>6 DEF Fetch, Validate, Overtaken, PushReview, MarkPushed, Cut, Rest
<1>7. ASSUME AttemptDue \/ DeadlinePasses PROVE Goal
  <2>1. session.attempt # "none" => session.close # None
    BY DEF IInv, TypeOK
  <2> QED
    BY <1>7, <1>a, <2>1, FieldEffect, UnchangedDeferred DEF AttemptDue, DeadlinePasses
<1>8. ASSUME Defer PROVE Goal
  <2>1. deferred' = deferred /\ left' = left
    BY <1>8 DEF Defer, Rest
  <2>2. CASE ~Fresh(run.snap)
    BY <1>0, <1>8, <2>1, <2>2 DEF Defer
  <2>3. CASE Fresh(run.snap)
    <3>1. Live(session) /\ session.close # None /\ session' = [session EXCEPT !.attempt = "set"]
      BY <1>8, <2>3 DEF Defer, Fresh, IInv, RunForm
    <3> QED
      BY <1>a, <2>1, <3>1, FieldEffect, UnchangedDeferred
  <2> QED
    BY <2>2, <2>3
<1>9. ASSUME Hold PROVE Goal
  BY <1>9, <1>a, <1>0, FieldEffect, UnchangedDeferred DEF Hold, Rest, Fresh
<1>10. ASSUME Save PROVE Goal
  <2>1. deferred' = deferred /\ left' = left /\ run.at = "save"
    BY <1>10 DEF Save, Rest
  <2>2. CASE session' = session
    BY <1>0, <2>1, <2>2
  <2>3. CASE session' # session
    <3>1. /\ Current(run.snap) /\ GuardedBy(session) = {}
          /\ \/ session' = [session EXCEPT !.attempt = "set"]
             \/ session' = Ended(session, "failed", {})
             \/ ~Missing /\ ~run.errors /\ session' = Ended(session, "finalized", run.doc)
      BY <1>10, <2>3 DEF Save
    <3>2. Live(session) /\ session.close # None
      BY <2>1, <3>1 DEF Current, IInv, RunForm
    <3> QED
      BY <1>a, <2>1, <3>1, <3>2, FieldEffect, EndEffect, UnchangedDeferred DEF Saves
  <2> QED
    BY <2>2, <2>3
<1>11. ASSUME Duplicate \/ Sweep PROVE Goal
  BY <1>11, <1>a, EndEffect, UnchangedDeferred DEF Duplicate, Sweep, Current, Rest
<1> HIDE DEF Goal
<1>12. Goal
  BY <1>2, <1>3, <1>4, <1>5, <1>6, <1>7, <1>8, <1>9, <1>10, <1>11
  DEF Next, Arriving, Waiting, Finalize, Goal
<1> QED
  BY <1>12 DEF Goal

-----------------------------------------------------------------------------
(***************************************************************************)
(* Workers and the queue.                                                  *)
(***************************************************************************)
JobType == [at : Steps, event : 0..N, leased : BOOLEAN, snap : ViewType, presents : BOOLEAN]
QueueType == {"unsent", "queued", "taken", "done"}

(* The steps of a closing message. *)
Closing == {"close", "confirm", "stage", "refused", "reply", "mark", "passed", "append"}

(* What a step makes of a worker's job. *)
JobStep(w) ==
    \/ job'[w] = job[w]
    \/ job'[w] = NoJob
    \/ /\ job'[w].event \in Messages /\ job'[w].at = script[job'[w].event]
    \/ /\ job'[w].event = job[w].event /\ job'[w].snap = job[w].snap
       /\ job'[w].at = job[w].at \/ (job[w].at \in Closing /\ job'[w].at \in Closing)
       /\ job'[w].at = "mark" =>
            \/ job[w].at = "mark"
            \/ [gen |-> job[w].snap.gen, doc |-> Document(job[w].snap.rows),
                by |-> job[w].event] \in shown'

(* A message that is settled by a step is a closing or a header message,   *)
(* or its item is accounted for.                                           *)
SettledWell(e) ==
    queue'[e] = "done" =>
        queue[e] = "done" \/ e \notin Items \/ e \in session'.rows \/ deferred'[e].status # "none"

JobsOK ==
    /\ job' \in [Workers -> JobType] /\ queue' \in [Messages -> QueueType]
    /\ \A w \in Workers : JobStep(w)
    /\ \A e \in Messages : SettledWell(e)

LEMMA UnchangedJobs ==
    ASSUME TypeOK, UNCHANGED <<queue, job>>
    PROVE  JobsOK
BY DEF TypeOK, JobsOK, JobStep, SettledWell, JobType, QueueType

(* A worker goes on. *)
LEMMA GoEffect ==
    ASSUME TypeOK, NEW w \in Workers, NEW a \in Closing, NEW p \in BOOLEAN, job[w].at \in Closing,
           \/ job' = [job EXCEPT ![w].at = a]
           \/ job' = [job EXCEPT ![w].at = a, ![w].presents = p],
           UNCHANGED queue,
           a = "mark" => [gen |-> job[w].snap.gen, doc |-> Document(job[w].snap.rows),
                          by |-> job[w].event] \in shown'
    PROVE  JobsOK
<1>1. job \in [Workers -> JobType] /\ queue \in [Messages -> QueueType] /\ a \in Steps
  BY DEF TypeOK, JobType, QueueType, Closing, Steps
<1>2. /\ job' \in [Workers -> JobType]
      /\ job'[w].event = job[w].event /\ job'[w].snap = job[w].snap /\ job'[w].at = a
      /\ \A v \in Workers \ {w} : job'[v] = job[v]
  BY <1>1 DEF JobType
<1>3. \A v \in Workers : JobStep(v)
  BY <1>2 DEF JobStep
<1> QED
  BY <1>1, <1>2, <1>3 DEF JobsOK, SettledWell

(* A worker reports its message. *)
LEMMA ReportEffect ==
    ASSUME TypeOK, NEW w \in Workers, NEW st \in {"queued", "done"}, Report(w, st),
           job[w].event \in Messages,
           st = "done" /\ job[w].event \in Items =>
              job[w].event \in session'.rows \/ deferred'[job[w].event].status # "none"
    PROVE  JobsOK
<1>1. job \in [Workers -> JobType] /\ queue \in [Messages -> QueueType]
  BY DEF TypeOK, JobType, QueueType
<1>2. job' = [job EXCEPT ![w] = NoJob]
      /\ (queue' = queue \/ queue' = [queue EXCEPT ![job[w].event] = st])
  BY DEF Report
<1>3. job' \in [Workers -> JobType] /\ \A v \in Workers : JobStep(v)
  BY <1>1, <1>2, NoJobFields DEF JobStep, JobType
<1>4. queue' \in [Messages -> QueueType]
  BY <1>1, <1>2 DEF QueueType
<1>5. \A e \in Messages : SettledWell(e)
  BY <1>1, <1>2 DEF SettledWell
<1> QED
  BY <1>3, <1>4, <1>5 DEF JobsOK

LEMMA JobCases ==
    ASSUME IInv, NEW w \in Workers,
           Work(w) \/ GateFails(w) \/ ReplyFails(w) \/ CallFails(w) \/ LoseLease(w) \/ Die(w)
             \/ \E e \in Messages : Take(w, e)
    PROVE  JobsOK
<1>a. TypeOK /\ job \in [Workers -> JobType] /\ queue \in [Messages -> QueueType] /\ JobForm
  BY DEF IInv, TypeOK, JobType, QueueType
<1>b. job[w].at # "idle" =>
         /\ job[w].event \in Messages
         /\ script[job[w].event] = IF job[w].at \in Kinds THEN job[w].at ELSE "close"
  BY <1>a DEF JobForm
<1>c. job[w].at \in Closing \cup {"opener"} => job[w].event \in Messages /\ job[w].event \notin Items
  BY <1>b DEF Closing, Kinds, Items
<1>1. ASSUME job[w].at \in Closing \cup {"opener"},
             Report(w, "done") \/ Report(w, "queued")
      PROVE  JobsOK
  BY <1>1, <1>a, <1>c, ReportEffect
<1>2. ASSUME OpenFirst(w) \/ OpenNext(w) \/ CloseNothing(w) \/ MarkPresented(w) \/ AppendClose(w) \/ ReplyFails(w)
      PROVE  JobsOK
  BY <1>1, <1>2 DEF OpenFirst, OpenNext, CloseNothing, MarkPresented, AppendClose, ReplyFails,
                    Settle, Appending, At, Closing
<1>3. ASSUME AppendOrDefer(w) PROVE JobsOK
  <2>1. job[w].event \in Messages /\ Report(w, "done")
    BY <1>3, <1>b DEF AppendOrDefer, Settle
  <2>2. job[w].event \in session'.rows \/ deferred'[job[w].event].status # "none"
    <3> DEFINE e == job[w].event
    <3>1. CASE Inside(session, e) /\ Accepts(session, e)
      <4>1. session' = Appended(session, {e})
        BY <1>3, <3>1 DEF AppendOrDefer
      <4>2. session \in SessionType
        BY <1>a DEF TypeOK
      <4> HIDE DEF e
      <4>3. e \in session'.rows
        BY <2>1, <4>1, <4>2, AppendedFields DEF e
      <4> QED
        BY <4>3 DEF e
    <3>2. CASE ~(Inside(session, e) /\ Accepts(session, e))
      <4>1. deferred' = IF deferred[e].status \in {"none", "waiting", "expired"}
                        THEN [deferred EXCEPT ![e] = Deferral(session, e)] ELSE deferred
        BY <1>3, <3>2 DEF AppendOrDefer
      <4>2. Deferral(session, e).status # "none"
        BY DEF Deferral
      <4>3. deferred \in [Messages -> DeferredType]
        BY <1>a DEF TypeOK, DeferredType
      <4> QED
        BY <2>1, <4>1, <4>2, <4>3
    <3> QED
      BY <3>1, <3>2
  <2> QED
    BY <1>a, <2>1, <2>2, ReportEffect
<1>4. ASSUME Gate(w) PROVE JobsOK
  BY <1>4, <1>a, GoEffect DEF Gate, At, Closing, IsConfirmed
<1>5. ASSUME Confirm(w) PROVE JobsOK
  BY <1>5, <1>a, GoEffect DEF Confirm, Go, At, Closing
<1>6. ASSUME Stage(w) PROVE JobsOK
  BY <1>6, <1>a, GoEffect DEF Stage, At, Closing
<1>7. ASSUME Refuse(w) PROVE JobsOK
  BY <1>7, <1>a, <1>1, GoEffect DEF Refuse, Go, Settle, At, Closing
<1>8. ASSUME Reply(w) PROVE JobsOK
  BY <1>8, <1>a, <1>1, GoEffect DEF Reply, Go, Settle, Show, At, Closing
<1>9. ASSUME Resume(w) PROVE JobsOK
  BY <1>9, <1>a, GoEffect DEF Resume, Go, At, Closing
<1>10. ASSUME GateFails(w) PROVE JobsOK
  BY <1>10, <1>a, GoEffect DEF GateFails, At, Closing
<1>11. ASSUME CallFails(w) PROVE JobsOK
  <2>1. job[w].at # "idle"
    BY <1>11 DEF CallFails, Appending, At
  <2>2. job[w].event \in Messages
    BY <1>b, <2>1
  <2>3. CASE Report(w, "queued")
    BY <1>a, <2>2, <2>3, ReportEffect
  <2>4. CASE Report(w, "done") /\ job[w].at = "opener"
    BY <1>1, <2>4
  <2> QED
    BY <1>11, <2>3, <2>4 DEF CallFails, At
<1>12. ASSUME LoseLease(w) PROVE JobsOK
  <2>1. /\ queue' = [queue EXCEPT ![job[w].event] = "queued"]
        /\ job' = [job EXCEPT ![w].leased = FALSE]
    BY <1>12 DEF LoseLease
  <2>2. queue' \in [Messages -> QueueType] /\ \A e \in Messages : SettledWell(e)
    BY <1>a, <2>1 DEF QueueType, SettledWell
  <2>3. job' \in [Workers -> JobType] /\ \A v \in Workers : JobStep(v)
    <3>1. job' \in [Workers -> JobType]
      BY <1>a, <2>1 DEF JobType
    <3>2. \A v \in Workers : /\ job'[v].event = job[v].event /\ job'[v].snap = job[v].snap
                             /\ job'[v].at = job[v].at
      BY <1>a, <2>1 DEF JobType
    <3> QED
      BY <3>1, <3>2 DEF JobStep
  <2> QED
    BY <2>2, <2>3 DEF JobsOK
<1>13. ASSUME Die(w) PROVE JobsOK
  <2>1. job' = [job EXCEPT ![w] = NoJob] /\ queue' = queue
    BY <1>13 DEF Die
  <2>2. job' \in [Workers -> JobType] /\ \A v \in Workers : JobStep(v)
    BY <1>a, <2>1, NoJobFields DEF JobStep, JobType
  <2> QED
    BY <1>a, <2>1, <2>2 DEF JobsOK, SettledWell
<1>14. ASSUME NEW e \in Messages, Take(w, e) PROVE JobsOK
  <2> DEFINE j == [NoJob EXCEPT !.at = script[e], !.event = e, !.leased = TRUE,
                                !.snap = View(IF Live(session) THEN session ELSE NoSession)]
  <2>1. queue' = [queue EXCEPT ![e] = "taken"] /\ job' = [job EXCEPT ![w] = j]
    BY <1>14 DEF Take
  <2>2. View(IF Live(session) THEN session ELSE NoSession) \in ViewType
    BY <1>a, ViewFields, NoSessionFields DEF TypeOK
  <2>3. script[e] \in Steps /\ e \in 0..N
    <3>1. script \in [Messages -> Kinds]
      BY <1>a, ScriptAssumption DEF TypeOK
    <3> QED
      BY <3>1, Bounds DEF Kinds, Steps
  <2>4. j \in JobType /\ j.at = script[e] /\ j.event = e
    <3> HIDE DEF View
    <3> QED
      BY <2>2, <2>3, NoJobFields DEF JobType
  <2> HIDE DEF j
  <2>5. job' \in [Workers -> JobType] /\ \A v \in Workers : JobStep(v)
    BY <1>a, <2>1, <2>4 DEF JobStep
  <2>6. queue' \in [Messages -> QueueType] /\ \A x \in Messages : SettledWell(x)
    BY <1>a, <2>1 DEF QueueType, SettledWell
  <2> QED
    BY <2>5, <2>6 DEF JobsOK
<1> QED
  BY <1>2, <1>3, <1>4, <1>5, <1>6, <1>7, <1>8, <1>9, <1>10, <1>11, <1>12, <1>13, <1>14 DEF Work

-----------------------------------------------------------------------------
(***************************************************************************)
(* Reviews.                                                                *)
(***************************************************************************)
(* No review is lost, nor is its confirmation. *)
ReviewsKept ==
    \A r \in reviews : \E q \in reviews' :
        /\ q.gen = r.gen /\ q.doc = r.doc
        /\ r.confirmed # None => q.confirmed = r.confirmed

ReviewsOK == reviews' \subseteq ReviewType /\ ReviewForm' /\ ReviewsKept

LEMMA UnchangedReviews ==
    ASSUME TypeOK, ReviewForm, UNCHANGED reviews, shown \subseteq shown'
    PROVE  ReviewsOK
<1>1. ReviewForm'
  BY DEF ReviewForm
<1> QED
  BY <1>1 DEF TypeOK, ReviewsOK, ReviewsKept

LEMMA RecordedKeeps ==
    ASSUME TypeOK, ReviewForm, shown \subseteq shown',
           NEW g \in Nat, NEW doc \in SUBSET Messages, NEW by \in 0..N,
           reviews' = Recorded(g, doc, by)
    PROVE  ReviewsOK
<1> DEFINE n == [gen |-> g, doc |-> doc, by |-> by, delivered |-> FALSE, confirmed |-> None]
<1>1. CASE Shut(g) \/ Review(g, doc) # {}
  BY <1>1, UnchangedReviews DEF Recorded
<1>2. CASE ~(Shut(g) \/ Review(g, doc) # {})
  <2>1. reviews' = reviews \cup {n}
    BY <1>2 DEF Recorded
  <2>2. n \in ReviewType /\ n.gen = g /\ n.doc = doc /\ ~n.delivered /\ n.confirmed = None
    BY Bounds DEF ReviewType
  <2>3. \A r \in reviews : ~(r.gen = g /\ r.doc = doc)
    BY <1>2 DEF Review
  <2> HIDE DEF n
  <2>4. reviews \subseteq ReviewType
    BY DEF TypeOK
  <2>5. ReviewForm'
    BY <2>1, <2>2, <2>3 DEF ReviewForm
  <2>6. ReviewsKept
    BY <2>1 DEF ReviewsKept
  <2> QED
    BY <2>1, <2>2, <2>4, <2>5, <2>6 DEF ReviewsOK
<1> QED
  BY <1>1, <1>2

(* A change of some reviews that leaves what they are about. *)
LEMMA ChangedKeeps ==
    ASSUME TypeOK, ReviewForm, NEW f, reviews' = {f[r] : r \in reviews},
           \A r \in reviews :
              /\ f[r] \in ReviewType /\ f[r].gen = r.gen /\ f[r].doc = r.doc
              /\ r.confirmed # None => f[r].confirmed = r.confirmed
              /\ f[r].delivered => [gen |-> r.gen, doc |-> r.doc, by |-> f[r].by] \in shown'
              /\ f[r].confirmed # None =>
                    \E d \in shown' : d.gen = r.gen /\ d.doc = r.doc /\ d.by # f[r].confirmed
    PROVE  ReviewsOK
<1>1. reviews' \subseteq ReviewType
  OBVIOUS
<1>2. ASSUME NEW q \in reviews', NEW p \in reviews', q.gen = p.gen, q.doc = p.doc PROVE q = p
  <2>1. PICK r \in reviews : q = f[r]
    OBVIOUS
  <2>2. PICK t \in reviews : p = f[t]
    OBVIOUS
  <2>3. r.gen = q.gen /\ r.doc = q.doc
    BY <2>1
  <2>4. t.gen = p.gen /\ t.doc = p.doc
    BY <2>2
  <2>5. r = t
    BY <1>2, <2>3, <2>4 DEF ReviewForm
  <2> QED
    BY <2>1, <2>2, <2>5
<1>3. ASSUME NEW q \in reviews'
      PROVE  /\ q.delivered => [gen |-> q.gen, doc |-> q.doc, by |-> q.by] \in shown'
             /\ q.confirmed # None =>
                   \E d \in shown' : d.gen = q.gen /\ d.doc = q.doc /\ d.by # q.confirmed
  <2>1. PICK r \in reviews : q = f[r]
    OBVIOUS
  <2>2. q.gen = r.gen /\ q.doc = r.doc
    BY <2>1
  <2>3. q.delivered => [gen |-> q.gen, doc |-> q.doc, by |-> q.by] \in shown'
    BY <2>1, <2>2
  <2>4. ASSUME q.confirmed # None
        PROVE  \E d \in shown' : d.gen = q.gen /\ d.doc = q.doc /\ d.by # q.confirmed
    <3>1. PICK d \in shown' : d.gen = r.gen /\ d.doc = r.doc /\ d.by # f[r].confirmed
      BY <2>1, <2>4
    <3> QED
      BY <2>1, <2>2, <3>1
  <2> QED
    BY <2>3, <2>4
<1>4. ReviewForm'
  BY <1>2, <1>3 DEF ReviewForm
<1>5. ReviewsKept
  <2> SUFFICES ASSUME NEW r \in reviews
               PROVE  \E q \in reviews' : /\ q.gen = r.gen /\ q.doc = r.doc
                                          /\ r.confirmed # None => q.confirmed = r.confirmed
    BY DEF ReviewsKept
  <2>1. f[r] \in reviews'
    OBVIOUS
  <2> QED
    BY <2>1
<1> QED
  BY <1>1, <1>4, <1>5 DEF ReviewsOK

(* The fields of a review that was confirmed. *)
LEMMA ConfirmedFields ==
    ASSUME NEW r \in ReviewType, NEW e \in 0..N, NEW q, q = [r EXCEPT !.confirmed = e]
    PROVE  /\ q \in ReviewType /\ q.gen = r.gen /\ q.doc = r.doc
           /\ q.delivered = r.delivered /\ q.by = r.by /\ q.confirmed = e
BY DEF ReviewType

LEMMA MarkedKeeps ==
    ASSUME TypeOK, ReviewForm, shown \subseteq shown',
           NEW g, NEW doc, NEW by \in 0..N, [gen |-> g, doc |-> doc, by |-> by] \in shown',
           reviews' = Marked(g, doc, by)
    PROVE  ReviewsOK
<1>1. CASE Shut(g)
  BY <1>1, UnchangedReviews DEF Marked
<1>2. CASE ~Shut(g)
  <2> DEFINE f == [r \in reviews |-> IF r.gen = g /\ r.doc = doc /\ ~r.delivered
                                     THEN [r EXCEPT !.delivered = TRUE, !.by = by] ELSE r]
  <2>1. reviews' = {f[r] : r \in reviews}
    BY <1>2 DEF Marked
  <2>2. ASSUME NEW r \in reviews
        PROVE  /\ f[r] \in ReviewType /\ f[r].gen = r.gen /\ f[r].doc = r.doc
               /\ r.confirmed # None => f[r].confirmed = r.confirmed
               /\ f[r].delivered => [gen |-> r.gen, doc |-> r.doc, by |-> f[r].by] \in shown'
               /\ f[r].confirmed # None =>
                    \E d \in shown' : d.gen = r.gen /\ d.doc = r.doc /\ d.by # f[r].confirmed
    <3>1. r \in ReviewType
      BY DEF TypeOK
    <3>2. CASE r.gen = g /\ r.doc = doc /\ ~r.delivered
      <4>1. f[r] = [r EXCEPT !.delivered = TRUE, !.by = by]
        BY <3>2
      <4> HIDE DEF f
      <4>2. /\ f[r] \in ReviewType /\ f[r].gen = r.gen /\ f[r].doc = r.doc
            /\ f[r].by = by /\ f[r].confirmed = r.confirmed
        BY <3>1, <4>1 DEF ReviewType
      <4> QED
        BY <3>2, <4>2 DEF ReviewForm
    <3>3. CASE ~(r.gen = g /\ r.doc = doc /\ ~r.delivered)
      <4>1. f[r] = r
        BY <3>3
      <4> HIDE DEF f
      <4> QED
        BY <3>1, <4>1 DEF ReviewForm
    <3> QED
      BY <3>2, <3>3
  <2> HIDE DEF f
  <2> QED
    BY <2>1, <2>2, ChangedKeeps
<1> QED
  BY <1>1, <1>2

LEMMA ConfirmedKeeps ==
    ASSUME TypeOK, ReviewForm, shown \subseteq shown',
           NEW g, NEW doc, NEW e \in 0..N, Confirmable(g, doc, e), reviews' = Confirmed(g, doc, e)
    PROVE  ReviewsOK
<1> DEFINE f == [r \in reviews |-> IF r.gen = g /\ r.doc = doc /\ r.confirmed = None
                                   THEN [r EXCEPT !.confirmed = e] ELSE r]
<1>1. reviews' = {f[r] : r \in reviews}
  BY DEF Confirmed
<1>2. ASSUME NEW r \in reviews
      PROVE  /\ f[r] \in ReviewType /\ f[r].gen = r.gen /\ f[r].doc = r.doc
             /\ r.confirmed # None => f[r].confirmed = r.confirmed
             /\ f[r].delivered => [gen |-> r.gen, doc |-> r.doc, by |-> f[r].by] \in shown'
             /\ f[r].confirmed # None =>
                  \E d \in shown' : d.gen = r.gen /\ d.doc = r.doc /\ d.by # f[r].confirmed
  <2>1. r \in ReviewType
    BY DEF TypeOK
  <2>2. CASE r.gen = g /\ r.doc = doc /\ r.confirmed = None
    <3>1. f[r] = [r EXCEPT !.confirmed = e]
      BY <2>2
    <3> HIDE DEF f
    <3>2. /\ f[r] \in ReviewType /\ f[r].gen = r.gen /\ f[r].doc = r.doc
          /\ f[r].by = r.by /\ f[r].delivered = r.delivered /\ f[r].confirmed = e
      BY <2>1, <3>1, ConfirmedFields
    <3>3. PICK q \in reviews : q.gen = g /\ q.doc = doc /\ (q.confirmed # None \/ (q.delivered /\ q.by # e))
      BY DEF Confirmable, Review
    <3>4. q = r
      BY <2>2, <3>3 DEF ReviewForm
    <3>5. [gen |-> r.gen, doc |-> r.doc, by |-> r.by] \in shown' /\ r.by # e
      BY <2>2, <3>3, <3>4 DEF ReviewForm
    <3> QED
      BY <2>2, <3>2, <3>5
  <2>3. CASE ~(r.gen = g /\ r.doc = doc /\ r.confirmed = None)
    <3>1. f[r] = r
      BY <2>3
    <3> HIDE DEF f
    <3> QED
      BY <2>1, <3>1 DEF ReviewForm
  <2> QED
    BY <2>2, <2>3
<1> HIDE DEF f
<1> QED
  BY <1>1, <1>2, ChangedKeeps

(* A saved document is of messages, as are those of the snapshots. *)
LEMMA DocumentInside == \A rows : Document(rows) \in SUBSET Messages
BY DEF Document, Items

LEMMA SnapFields ==
    ASSUME NEW s \in ViewType
    PROVE  s.gen \in Nat /\ s.opener \in 0..N /\ s.rows \subseteq Messages /\ s.close \in 0..N
BY DEF ViewType

(* What every step does with the reviews and what was shown. *)
LEMMA ReviewCases ==
    ASSUME IInv, Next
    PROVE  /\ script' = script /\ faults' \in 0..MaxFaults
           /\ shown \subseteq shown' /\ shown' \subseteq [gen : Nat, doc : SUBSET Messages, by : 0..N]
           /\ ReviewsOK
<1> DEFINE ShownType == [gen : Nat, doc : SUBSET Messages, by : 0..N]
           Goal == /\ script' = script /\ faults' \in 0..MaxFaults
                   /\ shown \subseteq shown' /\ shown' \subseteq ShownType
                   /\ ReviewsOK
<1>a. /\ TypeOK /\ ReviewForm /\ shown \subseteq ShownType /\ faults \in 0..MaxFaults
      /\ \A w \in Workers : job[w].snap \in ViewType /\ job[w].event \in 0..N
      /\ run.snap \in ViewType /\ run.doc \in SUBSET Messages
  BY DEF IInv, TypeOK
<1>b. Token \in 0..N
  BY Bounds DEF Token
<1>c. Fault => faults' \in 0..MaxFaults
  BY <1>a, Bounds DEF Fault
<1>0. ASSUME UNCHANGED <<script, reviews>>, UNCHANGED faults \/ Fault, shown' = shown PROVE Goal
  BY <1>0, <1>a, <1>c, UnchangedReviews
<1>1. ASSUME NEW w \in Workers PROVE Work(w) => Goal
  <2> DEFINE sn == job[w].snap
             doc == Document(job[w].snap.rows)
             e == job[w].event
  <2>a. sn.gen \in Nat /\ doc \in SUBSET Messages /\ e \in 0..N
    BY <1>a, SnapFields, DocumentInside
  <2>1. CASE OpenFirst(w) \/ OpenNext(w) \/ AppendOrDefer(w) \/ CloseNothing(w) \/ Stage(w)
               \/ Refuse(w) \/ Resume(w) \/ AppendClose(w)
    BY <1>0, <2>1 DEF OpenFirst, OpenNext, AppendOrDefer, CloseNothing, Stage, Refuse, Resume,
                      AppendClose, NoFault
  <2>2. CASE Gate(w)
    <3>1. /\ reviews' = reviews \/ reviews' = Recorded(sn.gen, doc, e)
          /\ UNCHANGED <<script, shown, faults>>
      BY <2>2 DEF Gate
    <3> HIDE DEF sn, doc, e
    <3> QED
      BY <1>a, <1>0, <2>a, <3>1, RecordedKeeps
  <2>3. CASE Confirm(w)
    <3>1. /\ \/ reviews' = reviews
             \/ Confirmable(sn.gen, doc, e) /\ reviews' = Confirmed(sn.gen, doc, e)
          /\ UNCHANGED <<script, shown, faults>>
      BY <2>3 DEF Confirm
    <3> HIDE DEF sn, doc, e
    <3> QED
      BY <1>a, <1>0, <2>a, <3>1, ConfirmedKeeps
  <2>4. CASE Reply(w)
    <3>1. /\ shown' = shown \/ shown' = shown \cup {[gen |-> sn.gen, doc |-> doc, by |-> e]}
          /\ UNCHANGED <<script, reviews, faults>>
      BY <2>4 DEF Reply, Show
    <3> HIDE DEF sn, doc, e
    <3> QED
      BY <1>a, <2>a, <3>1, UnchangedReviews
  <2>5. CASE MarkPresented(w)
    <3>1. /\ reviews' = reviews \/ reviews' = Marked(sn.gen, doc, e)
          /\ UNCHANGED <<script, shown>> /\ (UNCHANGED faults \/ Fault)
      BY <2>5 DEF MarkPresented, NoFault
    <3>2. [gen |-> sn.gen, doc |-> doc, by |-> e] \in shown
      BY <2>5 DEF MarkPresented, At, IInv, JobForm
    <3> HIDE DEF sn, doc, e
    <3> QED
      BY <1>a, <1>0, <1>c, <2>a, <3>1, <3>2, MarkedKeeps
  <2> QED
    BY <2>1, <2>2, <2>3, <2>4, <2>5 DEF Work
<1>2. ASSUME NEW w \in Workers,
             GateFails(w) \/ ReplyFails(w) \/ CallFails(w) \/ LoseLease(w) \/ Die(w)
               \/ \E e \in Messages : Take(w, e)
      PROVE  Goal
  BY <1>0, <1>2 DEF GateFails, ReplyFails, CallFails, LoseLease, Die, Take
<1>3. ASSUME NEW e \in Messages, Deliver(e) \/ Expire(e) \/ Resolve(e) PROVE Goal
  BY <1>0, <1>3 DEF Deliver, Expire, Resolve
<1>4. ASSUME Fetch \/ Overtaken \/ Hold \/ Save \/ Duplicate \/ Defer \/ Cut \/ AttemptDue
               \/ DeadlinePasses \/ Sweep
      PROVE  Goal
  BY <1>0, <1>4 DEF Fetch, Overtaken, Hold, Save, Duplicate, Defer, Cut, AttemptDue,
                    DeadlinePasses, Sweep, Rest
<1>5. ASSUME Validate PROVE Goal
  <2>1. /\ reviews' = reviews \/ reviews' = Recorded(run.snap.gen, Loaded(run.snap), Token)
        /\ UNCHANGED <<script, shown>> /\ (UNCHANGED faults \/ Fault)
    BY <1>5 DEF Validate, Rest, NoFault
  <2>2. run.snap.gen \in Nat /\ Loaded(run.snap) \in SUBSET Messages
    BY <1>a, SnapFields, DocumentInside DEF Loaded
  <2> QED
    BY <1>a, <1>b, <1>0, <1>c, <2>1, <2>2, RecordedKeeps
<1>6. ASSUME PushReview PROVE Goal
  <2>1. shown' = shown \cup {[gen |-> run.snap.gen, doc |-> run.doc, by |-> Token]}
        /\ UNCHANGED <<script, reviews, faults>>
    BY <1>6 DEF PushReview, Show, Rest
  <2>2. run.snap.gen \in Nat
    BY <1>a, SnapFields
  <2> QED
    BY <1>a, <1>b, <2>1, <2>2, UnchangedReviews
<1>7. ASSUME MarkPushed PROVE Goal
  <2>1. reviews' = Marked(run.snap.gen, run.doc, Token) /\ UNCHANGED <<script, shown, faults>>
          /\ run.at = "mark"
    BY <1>7 DEF MarkPushed, Rest
  <2>2. [gen |-> run.snap.gen, doc |-> run.doc, by |-> Token] \in shown
    BY <2>1 DEF IInv, RunForm
  <2> QED
    BY <1>a, <1>b, <2>1, <2>2, MarkedKeeps
<1> HIDE DEF Goal
<1>8. ASSUME Queueing PROVE Goal
  BY <1>1, <1>2, <1>8 DEF Queueing
<1>9. Goal
  BY <1>3, <1>4, <1>5, <1>6, <1>7, <1>8 DEF Next, Arriving, Waiting, Finalize
<1> QED
  BY <1>9 DEF Goal

-----------------------------------------------------------------------------
(***************************************************************************)
(* The finalizer.                                                          *)
(***************************************************************************)
RunType == [at : {"idle", "fetched", "hold", "push", "mark", "save"}, snap : ViewType,
            doc : SUBSET Messages, errors : BOOLEAN]

RunKept ==
    /\ run'.snap = run.snap /\ run'.doc = run.doc /\ run'.errors = run.errors
    /\ run'.at = run.at \/ (Judged /\ run'.at \in {"push", "mark", "save"})
    /\ run'.at = "mark" =>
         run.at = "mark" \/ [gen |-> run.snap.gen, doc |-> run.doc, by |-> Token] \in shown'

LEMMA RunCases ==
    ASSUME IInv, Next
    PROVE  /\ run' \in RunType
           /\ run' = NoRun \/ RunKept \/ Fetch \/ Validate
<1> DEFINE Goal == run' \in RunType /\ (run' = NoRun \/ RunKept \/ Fetch \/ Validate)
<1>a. run \in RunType /\ session \in SessionType
  BY DEF IInv, TypeOK, RunType
<1>0. ASSUME run' = run PROVE Goal
  BY <1>0, <1>a DEF RunKept
<1>1. ASSUME run' = NoRun PROVE Goal
  BY <1>1, NoRunFields DEF RunType
<1>2. ASSUME NEW w \in Workers,
             Work(w) \/ GateFails(w) \/ ReplyFails(w) \/ CallFails(w) \/ LoseLease(w) \/ Die(w)
               \/ \E e \in Messages : Take(w, e)
      PROVE  Goal
  <2>1. Work(w) => run' = run
    BY DEF Work, OpenFirst, OpenNext, AppendOrDefer, CloseNothing, Stage, Refuse, Resume,
           AppendClose, Gate, Confirm, Reply, MarkPresented
  <2> QED
    BY <1>0, <1>2, <2>1 DEF GateFails, ReplyFails, CallFails, LoseLease, Die, Take
<1>3. ASSUME NEW e \in Messages, Deliver(e) \/ Expire(e) \/ Resolve(e) PROVE Goal
  BY <1>0, <1>3 DEF Deliver, Expire, Resolve
<1>4. ASSUME AttemptDue \/ DeadlinePasses \/ Sweep PROVE Goal
  BY <1>0, <1>4 DEF AttemptDue, DeadlinePasses, Sweep
<1>5. ASSUME Overtaken \/ Defer \/ Cut \/ Save \/ Duplicate \/ MarkPushed PROVE Goal
  BY <1>1, <1>5 DEF Overtaken, Defer, Cut, Save, Duplicate, MarkPushed, Stop
<1>6. ASSUME Fetch PROVE Goal
  <2>1. run' = [NoRun EXCEPT !.at = "fetched", !.snap = View(session)] /\ View(session) \in ViewType
    BY <1>6, <1>a, ViewFields DEF Fetch
  <2>2. run' \in RunType
    <3> HIDE DEF View
    <3> QED
      BY <2>1, NoRunFields DEF RunType
  <2> QED
    BY <1>6, <2>2
<1>7. ASSUME Validate PROVE Goal
  <2>1. PICK a \in {"hold", "save"}, errs \in BOOLEAN :
            run' = [run EXCEPT !.at = a, !.doc = Loaded(run.snap), !.errors = errs]
    BY <1>7 DEF Validate, Blocked
  <2>2. Loaded(run.snap) \in SUBSET Messages
    BY DocumentInside DEF Loaded
  <2>3. run' \in RunType
    BY <1>a, <2>1, <2>2 DEF RunType
  <2> QED
    BY <1>7, <2>3
<1>8. ASSUME Hold PROVE Goal
  <2>1. run.at = "hold" /\ \E a \in {"push", "save"} : run' = [run EXCEPT !.at = a]
    BY <1>8 DEF Hold
  <2> QED
    BY <1>a, <2>1 DEF RunKept, RunType, Judged
<1>9. ASSUME PushReview PROVE Goal
  <2>1. /\ run.at = "push" /\ run' = [run EXCEPT !.at = "mark"]
        /\ [gen |-> run.snap.gen, doc |-> run.doc, by |-> Token] \in shown'
    BY <1>9 DEF PushReview, Show
  <2> QED
    BY <1>a, <2>1 DEF RunKept, RunType, Judged
<1> HIDE DEF Goal
<1>10. ASSUME Queueing PROVE Goal
  BY <1>2, <1>10 DEF Queueing
<1>11. Goal
  BY <1>3, <1>4, <1>5, <1>6, <1>7, <1>8, <1>9, <1>10 DEF Next, Arriving, Waiting, Finalize
<1> QED
  BY <1>11 DEF Goal

LEMMA DocumentKept ==
    ASSUME script' = script
    PROVE  /\ Items' = Items /\ \A rows : Document(rows)' = Document(rows)
           /\ \A doc : NeedsReview(doc)' = NeedsReview(doc)
BY DEF Items, Document, NeedsReview

(* A confirmation stands. *)
LEMMA ConfirmationKept ==
    ASSUME ReviewsKept, NEW g, NEW doc, IsConfirmed(g, doc)
    PROVE  \E r \in reviews' : r.gen = g /\ r.doc = doc /\ r.confirmed # None
BY DEF ReviewsKept, IsConfirmed, Review

(* The list of a generation only grows. *)
LEMMA ListKept ==
    ASSUME Continues, session.close # None, script' = script
    PROVE  TheList \subseteq TheList'
BY DEF Continues, TheList, Document, Items

LEMMA RunStaysFormed ==
    ASSUME IInv, Next
    PROVE  RunForm'
<1>a. TypeOK /\ RunForm /\ session \in SessionType /\ run \in RunType /\ session.gen \in Nat
  BY DEF IInv, TypeOK, RunType, SessionType
<1>b. SessionOK /\ script' = script /\ ReviewsKept /\ shown \subseteq shown'
  BY SessionCases, ReviewCases DEF ReviewsOK
<1>c. Continues \/ (session'.gen = session.gen + 1)
  BY <1>b DEF SessionOK, Rotated
<1>1. CASE run' = NoRun
  BY <1>1, NoRunFields DEF RunForm, Judged
<1>2. CASE RunKept
  <2>1. /\ run'.snap = run.snap /\ run'.doc = run.doc /\ run'.errors = run.errors
        /\ run'.at # "idle" => run.at # "idle"
        /\ Judged' => Judged
    BY <1>2 DEF RunKept, Judged
  <2>2. ASSUME run'.at # "idle" PROVE run.snap.gen <= session'.gen
    <3>1. run.snap.gen <= session.gen /\ run.snap.gen \in Nat
      BY <1>a, <2>1, <2>2 DEF RunForm, RunType, ViewType
    <3>2. session'.gen = session.gen \/ session'.gen = session.gen + 1
      BY <1>c DEF Continues
    <3> QED
      BY <1>a, <3>1, <3>2
  <2>3. ASSUME run'.at # "idle", session'.gen = run.snap.gen
        PROVE  /\ Continues /\ Same(session, run.snap)
               /\ session'.close = run.snap.close /\ session'.close # None
               /\ run.snap.rows \subseteq session'.rows
    <3>1. run.snap.gen <= session.gen /\ run.snap.gen \in Nat
      BY <1>a, <2>1, <2>3 DEF RunForm, RunType, ViewType
    <3>2. Continues /\ Same(session, run.snap)
      BY <1>a, <1>c, <2>3, <3>1 DEF Continues, Same
    <3> QED
      BY <1>a, <2>1, <2>3, <3>2 DEF RunForm, Continues
  <2>4. ASSUME Judged', session'.gen = run.snap.gen
        PROVE  SnapList' \subseteq run.doc /\ run.doc \subseteq TheList'
    <3>1. run'.at # "idle" /\ Judged
      BY <2>1, <2>4 DEF Judged
    <3>2. Continues /\ Same(session, run.snap) /\ session.close # None
      BY <1>a, <2>1, <2>3, <2>4, <3>1 DEF RunForm
    <3>3. SnapList \subseteq run.doc /\ run.doc \subseteq TheList
      BY <1>a, <3>1, <3>2 DEF RunForm
    <3>4. SnapList' = SnapList
      BY <1>b, <2>1 DEF SnapList, Document, Items
    <3> QED
      BY <1>b, <3>2, <3>3, <3>4, ListKept
  <2>5. ASSUME Judged', ~run.errors
        PROVE  \/ ~NeedsReview(run.doc)
               \/ \E r \in reviews' : r.gen = run.snap.gen /\ r.doc = run.doc /\ r.confirmed # None
    BY <1>a, <1>b, <2>1, <2>5, ConfirmationKept DEF RunForm
  <2>6. ASSUME run'.at = "mark" PROVE [gen |-> run.snap.gen, doc |-> run.doc, by |-> Token] \in shown'
    BY <1>2, <1>a, <1>b, <2>6 DEF RunKept, RunForm
  <2> QED
    BY <1>b, <2>1, <2>2, <2>3, <2>4, <2>5, <2>6, DocumentKept
    DEF RunForm, Same, IsConfirmed, Review, NeedsReview
<1>3. CASE Fetch
  <2>1. /\ run' = [NoRun EXCEPT !.at = "fetched", !.snap = View(session)]
        /\ session' = session /\ session.attempt = "due"
    BY <1>3 DEF Fetch
  <2>2. session.close # None
    BY <1>a, <2>1 DEF TypeOK
  <2>3. run'.at = "fetched" /\ run'.snap = View(session)
    <3> HIDE DEF View
    <3> QED
      BY <2>1, NoRunFields
  <2>4. View(session).gen = session.gen /\ View(session).rows = session.rows
          /\ View(session).close = session.close
    BY <1>a, ViewFields
  <2> QED
    BY <1>a, <2>1, <2>2, <2>3, <2>4 DEF RunForm, Same, Judged
<1>4. CASE Validate
  <2> DEFINE doc == Loaded(run.snap)
             held == run.snap.close > run.snap.opener /\ ~Blocked(doc) /\ NeedsReview(doc)
                       /\ ~IsConfirmed(run.snap.gen, doc)
  <2>1. /\ session' = session /\ run.at = "fetched" /\ Same(session, run.snap)
        /\ \E failed \in BOOLEAN :
              run' = [run EXCEPT !.at = IF held /\ ~failed THEN "hold" ELSE "save", !.doc = doc,
                        !.errors = failed \/ held \/ Blocked(doc) \/ run.snap.close <= run.snap.opener]
    BY <1>4 DEF Validate, Rest
  <2>2. /\ run'.at \in {"hold", "save"} /\ run'.doc = doc /\ run'.snap = run.snap
        /\ \E failed \in BOOLEAN :
              run'.errors = (failed \/ held \/ Blocked(doc) \/ run.snap.close <= run.snap.opener)
    <3> HIDE DEF doc, held
    <3> QED
      BY <1>a, <2>1 DEF RunType
  <2>3. /\ run.snap.gen <= session.gen
        /\ session.close = run.snap.close /\ session.close # None
        /\ run.snap.rows \subseteq session.rows
    BY <1>a, <2>1 DEF RunForm
  <2>4. doc = TheList /\ SnapList \subseteq doc
    BY <2>3 DEF Loaded, TheList, SnapList, Document
  <2>5. TheList' = TheList /\ SnapList' = SnapList
    BY <1>b, <2>1, <2>2 DEF TheList, SnapList, Document, Items
  <2>6. run.snap.close \in Nat /\ run.snap.opener \in Nat
    BY <1>a, SnapFields DEF RunType
  <2>7. ASSUME ~run'.errors PROVE ~NeedsReview(doc) \/ IsConfirmed(run.snap.gen, doc)
    <3> DEFINE closes == run.snap.close > run.snap.opener
    <3>1. ~held /\ ~Blocked(doc)
      <4> HIDE DEF held, doc
      <4> QED
        BY <2>2, <2>7
    <3>2. closes
      <4>1. ~(run.snap.close <= run.snap.opener)
        <5> HIDE DEF held, doc
        <5> QED
          BY <2>2, <2>7
      <4> QED
        BY <2>6, <4>1
    <3>3. held <=> closes /\ ~Blocked(doc) /\ NeedsReview(doc) /\ ~IsConfirmed(run.snap.gen, doc)
      OBVIOUS
    <3> HIDE DEF held, doc, closes
    <3> QED
      BY <3>1, <3>2, <3>3
  <2> HIDE DEF doc, held
  <2>8. ~run'.errors => ~NeedsReview(doc)
             \/ \E r \in reviews' : r.gen = run.snap.gen /\ r.doc = doc /\ r.confirmed # None
    BY <1>b, <2>7, ConfirmationKept
  <2> QED
    BY <1>b, <2>1, <2>2, <2>3, <2>4, <2>5, <2>8
    DEF RunForm, Same, IsConfirmed, Review, NeedsReview, Judged
<1> QED
  BY <1>1, <1>2, <1>3, <1>4, RunCases
-----------------------------------------------------------------------------
(***************************************************************************)
(* Every step keeps the invariant.                                         *)
(***************************************************************************)
LEMMA QueueCases ==
    ASSUME IInv, Next
    PROVE  JobsOK
<1>a. TypeOK /\ queue \in [Messages -> QueueType] /\ job \in [Workers -> JobType]
  BY DEF IInv, TypeOK, QueueType, JobType
<1>1. CASE UNCHANGED <<queue, job>>
  BY <1>1, <1>a, UnchangedJobs
<1>2. CASE Queueing
  BY <1>2, JobCases DEF Queueing
<1>3. ASSUME NEW e \in Messages, Deliver(e) PROVE JobsOK
  <2>1. queue' = [queue EXCEPT ![e] = "queued"] /\ job' = job
    BY <1>3 DEF Deliver
  <2>2. queue' \in [Messages -> QueueType] /\ \A x \in Messages : SettledWell(x)
    BY <1>a, <2>1 DEF QueueType, SettledWell
  <2> QED
    BY <1>a, <2>1, <2>2 DEF JobsOK, JobStep
<1>4. ASSUME NEW e \in Messages, Expire(e) \/ Resolve(e) PROVE UNCHANGED <<queue, job>>
  BY <1>4 DEF Expire, Resolve
<1>5. Finalize \/ Fetch \/ Defer \/ Cut \/ AttemptDue \/ DeadlinePasses \/ Sweep
         => UNCHANGED <<queue, job>>
  BY DEF Finalize, Validate, Overtaken, Hold, PushReview, MarkPushed, Save, Duplicate, Fetch, Defer,
         Cut, AttemptDue, DeadlinePasses, Sweep, Rest
<1> QED
  BY <1>1, <1>2, <1>3, <1>4, <1>5 DEF Next, Arriving, Waiting

LEMMA JobsStayFormed ==
    ASSUME IInv, Next
    PROVE  JobForm'
<1>1. /\ script' = script /\ shown \subseteq shown' /\ JobsOK /\ JobForm
      /\ script \in [Messages -> Kinds]
  BY ReviewCases, QueueCases, ScriptAssumption DEF IInv, TypeOK
<1>2. \A rows : Document(rows)' = Document(rows)
  BY <1>1, DocumentKept
<1>3. ASSUME NEW w \in Workers, job'[w].at # "idle"
      PROVE  /\ job'[w].event \in Messages
             /\ script[job'[w].event] = IF job'[w].at \in Kinds THEN job'[w].at ELSE "close"
             /\ job'[w].at = "mark" =>
                   [gen |-> job'[w].snap.gen, doc |-> Document(job'[w].snap.rows),
                    by |-> job'[w].event] \in shown'
  <2>1. CASE job'[w] = job[w]
    BY <1>1, <1>3, <2>1 DEF JobForm
  <2>2. CASE job'[w] = NoJob
    BY <1>3, <2>2, NoJobFields
  <2>3. CASE job'[w].event \in Messages /\ job'[w].at = script[job'[w].event]
    <3>1. job'[w].at \in Kinds /\ "mark" \notin Kinds
      BY <1>1, <2>3 DEF Kinds
    <3> QED
      BY <2>3, <3>1
  <2>4. CASE /\ job'[w].event = job[w].event /\ job'[w].snap = job[w].snap
             /\ job'[w].at = job[w].at \/ (job[w].at \in Closing /\ job'[w].at \in Closing)
             /\ job'[w].at = "mark" =>
                  \/ job[w].at = "mark"
                  \/ [gen |-> job[w].snap.gen, doc |-> Document(job[w].snap.rows),
                      by |-> job[w].event] \in shown'
    <3>1. job[w].at # "idle"
      BY <1>3, <2>4 DEF Closing
    <3>2. /\ job[w].event \in Messages
          /\ script[job[w].event] = IF job[w].at \in Kinds THEN job[w].at ELSE "close"
      BY <1>1, <3>1 DEF JobForm
    <3>3. script[job[w].event] = IF job'[w].at \in Kinds THEN job'[w].at ELSE "close"
      BY <2>4, <3>2 DEF Closing, Kinds
    <3>4. job'[w].at = "mark" =>
            [gen |-> job[w].snap.gen, doc |-> Document(job[w].snap.rows), by |-> job[w].event] \in shown'
      BY <1>1, <2>4, <3>1 DEF JobForm
    <3> QED
      BY <2>4, <3>2, <3>3, <3>4
  <2> QED
    BY <1>1, <2>1, <2>2, <2>3, <2>4 DEF JobsOK, JobStep
<1> QED
  BY <1>1, <1>2, <1>3 DEF JobForm

LEMMA BoundariesStay ==
    ASSUME IInv, Next
    PROVE  BoundaryKinds'
<1>1. SessionOK /\ script' = script /\ BoundaryKinds
  BY SessionCases, ReviewCases DEF IInv
<1>2. CASE Continues
  BY <1>1, <1>2 DEF Continues, BoundaryKinds
<1>3. CASE Rotated
  BY <1>1, <1>3 DEF Rotated, BoundaryKinds
<1> QED
  BY <1>1, <1>2, <1>3 DEF SessionOK

(* An item that was taken in stays with the session, or in a list that was *)
(* left for a later header.                                                *)
LEMMA RowKept ==
    ASSUME IInv, Next, NEW x \in Items, x \in session.rows \cup left
    PROVE  x \in session'.rows \cup left'
<1>1. SessionOK /\ BoundaryKinds
  BY SessionCases DEF IInv
<1>2. CASE Continues
  BY <1>2 DEF Continues
<1>3. CASE Rotated
  <2>1. PICK e \in Messages :
            /\ script[e] = "opener"
            /\ {e} \cup Carried(e, session) \subseteq session'.rows
            /\ left' = left \cup {y \in session.rows : y < e}
    BY <1>3 DEF Rotated
  <2>2. x \in Messages /\ script[x] \in {"item", "risky", "bad"} /\ x # None
    BY Bounds DEF Items
  <2>3. x # e /\ x \notin {session.opener, session.close}
    BY <1>1, <2>1, <2>2 DEF BoundaryKinds
  <2>4. x < e \/ x > e
    BY <2>2, <2>3, Bounds
  <2> QED
    BY <2>1, <2>3, <2>4 DEF Carried
<1> QED
  BY <1>1, <1>2, <1>3 DEF SessionOK

LEMMA DeferredStaysTrue ==
    ASSUME IInv, Next
    PROVE  DeferredTruly'
<1>1. /\ SessionOK /\ DeferredOK /\ script' = script /\ DeferredTruly /\ Items' = Items
      /\ session.gen \in Nat /\ deferred \in [Messages -> DeferredType]
  BY SessionCases, ReviewCases, DocumentKept, SessionFields DEF IInv, TypeOK, DeferredType
<1>2. \/ Continues
      \/ session'.gen = session.gen + 1
  BY <1>1 DEF SessionOK, Rotated
<1>3. session.gen <= session'.gen /\ session'.gen \in Nat
  BY <1>1, <1>2 DEF Continues, SessionOK, SessionType
<1>4. ASSUME NEW x \in Messages
      PROVE  /\ deferred'[x].gen <= session'.gen
             /\ deferred'[x].status # "none" => x \in Items
             /\ deferred'[x].status = "admitted" => x \in session'.rows \cup left'
             /\ deferred'[x].status = "before" /\ deferred'[x].gen = session'.gen => x <= session'.opener
             /\ deferred'[x].status = "after" /\ deferred'[x].gen = session'.gen =>
                   session'.close # None /\ session'.close <= x
  <2>1. CASE deferred'[x] = deferred[x]
    <3>1. deferred[x].gen \in Nat /\ deferred[x].gen <= session.gen
            /\ (deferred[x].status # "none" => x \in Items)
            /\ (deferred[x].status = "admitted" => x \in session.rows \cup left)
      BY <1>1 DEF DeferredTruly, DeferredType
    <3>2. deferred[x].gen <= session'.gen
      BY <1>1, <1>3, <3>1
    <3>3. deferred[x].status = "admitted" => x \in session'.rows \cup left'
      BY <3>1, RowKept
    <3>4. deferred[x].gen = session'.gen => Continues
      BY <1>1, <1>2, <3>1
    <3>5. deferred[x].status = "before" /\ deferred[x].gen = session'.gen => x <= session'.opener
      BY <1>1, <3>4 DEF Continues, DeferredTruly
    <3>6. deferred[x].status = "after" /\ deferred[x].gen = session'.gen =>
            session'.close # None /\ session'.close <= x
      BY <1>1, <3>4 DEF Continues, DeferredTruly
    <3> QED
      BY <2>1, <3>1, <3>2, <3>3, <3>5, <3>6
  <2>2. CASE x \in Items /\ deferred'[x].gen <= session.gen
               /\ deferred'[x].status \in {"waiting", "expired", "orphan"}
    BY <1>1, <1>3, <2>2 DEF DeferredOK, DeferredType
  <2>3. CASE /\ x \in Items /\ deferred'[x].gen <= session.gen /\ session' = session
             /\ \/ deferred'[x].status = "before" /\ x <= session.opener
                \/ deferred'[x].status = "after" /\ session.close # None /\ session.close <= x
    BY <2>3
  <2>4. CASE /\ x \in Items /\ deferred'[x].gen <= session'.gen
             /\ deferred'[x].status = "admitted" /\ x \in session'.rows
    BY <2>4
  <2> QED
    BY <1>1, <2>1, <2>2, <2>3, <2>4 DEF DeferredOK, DeferredStep
<1> QED
  BY <1>1, <1>4 DEF DeferredTruly

LEMMA NoneForgottenStays ==
    ASSUME IInv, Next
    PROVE  NoItemForgotten'
<1>1. SessionOK /\ DeferredOK /\ JobsOK /\ script' = script /\ Items' = Items /\ left \subseteq left'
  BY SessionCases, ReviewCases, QueueCases, DocumentKept DEF SessionOK, Continues, Rotated
<1>2. ASSUME NEW e \in Items, queue'[e] = "done"
      PROVE  e \in session'.rows \/ deferred'[e].status # "none" \/ e \in left'
  <2>1. e \in Messages
    BY DEF Items
  <2>2. CASE queue[e] = "done"
    <3>1. CASE e \in session.rows \cup left
      BY <3>1, RowKept
    <3>2. CASE deferred[e].status # "none"
      BY <1>1, <2>1, <3>2 DEF DeferredOK, DeferredStep
    <3> QED
      BY <2>2, <3>1, <3>2 DEF IInv, NoItemForgotten
  <2>3. CASE queue[e] # "done"
    BY <1>1, <1>2, <2>1, <2>3 DEF JobsOK, SettledWell
  <2> QED
    BY <2>2, <2>3
<1> QED
  BY <1>1, <1>2 DEF NoItemForgotten

(* A step that saves a list saves all of it. *)
LEMMA SavesAll ==
    ASSUME IInv, Saves
    PROVE  /\ run.doc = TheList /\ Cardinality(run.doc) >= session.announced
           /\ session'.saved = run.doc /\ session'.rows = session.rows
           /\ session'.close = session.close /\ session'.announced = session.announced
           /\ session'.gen = session.gen /\ run.snap.gen = session.gen
<1>1. session \in SessionType /\ run.doc \in SUBSET Messages /\ RunForm
  BY DEF IInv, TypeOK
<1>2. /\ session'.saved = run.doc /\ session'.rows = session.rows
      /\ session'.close = session.close /\ session'.announced = session.announced
      /\ session'.gen = session.gen
  BY <1>1, EndedFields DEF Saves
<1>3. Judged /\ run.at # "idle" /\ Same(session, run.snap) /\ session.rows = run.snap.rows
  BY DEF Saves, Judged, Current
<1>4. session.close = run.snap.close /\ SnapList \subseteq run.doc /\ run.doc \subseteq TheList
  BY <1>1, <1>3 DEF RunForm
<1>5. SnapList = TheList
  BY <1>3, <1>4 DEF SnapList, TheList
<1>6. IsFiniteSet(run.doc)
  BY <1>1, Bounds, FS_Interval, FS_Subset DEF Messages
<1>7. Cardinality(run.doc) \in Nat /\ session.announced \in Nat
  BY <1>1, <1>6, FS_CardinalityType, SessionFields
<1>8. Cardinality(run.doc) >= session.announced
  BY <1>7 DEF Saves, Missing
<1> QED
  BY <1>2, <1>3, <1>4, <1>5, <1>8 DEF Same

(* A session that is saved after a step was so before, or is saved by it.  *)
LEMMA SavedCases ==
    ASSUME IInv, Next, session'.outcome = "finalized"
    PROVE  session' = session \/ Saves
BY SessionCases DEF SessionOK, Continues, Rotated

LEMMA WholeStays ==
    ASSUME IInv, Next
    PROVE  SavedIsWhole'
<1> SUFFICES ASSUME session'.outcome = "finalized"
             PROVE  /\ session'.saved = TheList'
                    /\ Cardinality(session'.saved) >= session'.announced
  BY DEF SavedIsWhole
<1>1. script' = script
  BY ReviewCases
<1>2. CASE session' = session
  BY <1>1, <1>2 DEF IInv, SavedIsWhole, TheList, Document, Items
<1>3. CASE Saves
  <2>1. TheList' = TheList
    BY <1>1, <1>3, SavesAll DEF TheList, Document, Items
  <2> QED
    BY <1>3, <2>1, SavesAll
<1> QED
  BY <1>2, <1>3, SavedCases

LEMMA ReviewedStays ==
    ASSUME IInv, Next
    PROVE  ReviewedBeforeSaved'
<1> DEFINE g == session'.gen
           doc == session'.saved
<1> SUFFICES ASSUME session'.outcome = "finalized", NeedsReview(session.saved)'
             PROVE  \E r \in reviews' :
                        /\ r.gen = g /\ r.doc = doc /\ r.confirmed # None
                        /\ \E d \in shown' : d.gen = r.gen /\ d.doc = r.doc /\ d.by # r.confirmed
  BY DEF ReviewedBeforeSaved, Review
<1>1. script' = script /\ ReviewsKept /\ ReviewForm'
  BY ReviewCases DEF ReviewsOK
<1>2. NeedsReview(doc)
  BY <1>1 DEF NeedsReview
<1>3. \E r \in reviews : r.gen = g /\ r.doc = doc /\ r.confirmed # None
  <2>1. CASE session' = session
    BY <1>2, <2>1 DEF IInv, ReviewedBeforeSaved, Review
  <2>2. CASE Saves
    <3>1. doc = run.doc /\ g = run.snap.gen /\ ~run.errors /\ Judged
      BY <2>2, SavesAll DEF Saves, Judged
    <3>2. IsConfirmed(run.snap.gen, run.doc)
      BY <1>2, <3>1 DEF IInv, RunForm
    <3> QED
      BY <3>1, <3>2 DEF IsConfirmed, Review
  <2> QED
    BY <2>1, <2>2, SavedCases
<1>4. PICK q \in reviews' : q.gen = g /\ q.doc = doc /\ q.confirmed # None
  BY <1>1, <1>3 DEF ReviewsKept
<1> QED
  BY <1>1, <1>4 DEF ReviewForm

LEMMA TypesStay ==
    ASSUME IInv, Next
    PROVE  TypeOK'
<1>1. /\ script' \in Scripts /\ faults' \in 0..MaxFaults
      /\ shown' \subseteq [gen : Nat, doc : SUBSET Messages, by : 0..N] /\ reviews' \subseteq ReviewType
  BY ReviewCases DEF ReviewsOK, IInv, TypeOK
<1>2. SessionOK /\ DeferredOK /\ JobsOK /\ run' \in RunType
  BY SessionCases, QueueCases, RunCases
<1> QED
  BY <1>1, <1>2
  DEF TypeOK, SessionOK, DeferredOK, DeferredType, JobsOK, JobType, QueueType, RunType, Live

LEMMA NextKeepsIInv ==
    ASSUME IInv, Next
    PROVE  IInv'
BY TypesStay, BoundariesStay, JobsStayFormed, DeferredStaysTrue, RunStaysFormed, WholeStays,
   ReviewedStays, NoneForgottenStays, ReviewCases
DEF IInv, ReviewsOK

LEMMA StutterKeepsIInv ==
    ASSUME IInv, UNCHANGED vars
    PROVE  IInv'
BY DEF vars, IInv, TypeOK, BoundaryKinds, JobForm, DeferredTruly, RunForm, ReviewForm, SavedIsWhole,
       ReviewedBeforeSaved, NoItemForgotten, Judged, SnapList, TheList, Document, Items, Same, Live,
       NeedsReview, IsConfirmed, Review

LEMMA InitIInv == Init => IInv
<1> SUFFICES ASSUME Init PROVE IInv
  OBVIOUS
<1>1. TypeOK
  BY NoSessionFields, NoJobFields, NoRunFields, Bounds DEF Init, TypeOK, NotDeferred, Live
<1>2. BoundaryKinds /\ JobForm /\ SavedIsWhole /\ ReviewedBeforeSaved
  BY NoSessionFields, NoJobFields
  DEF Init, BoundaryKinds, JobForm, SavedIsWhole, ReviewedBeforeSaved
<1>3. DeferredTruly /\ NoItemForgotten
  BY NoSessionFields DEF Init, DeferredTruly, NotDeferred, NoItemForgotten, Items
<1>4. RunForm /\ ReviewForm
  BY NoRunFields DEF Init, RunForm, ReviewForm, Judged
<1> QED
  BY <1>1, <1>2, <1>3, <1>4 DEF IInv

LEMMA Invariance == Spec => []IInv
<1>1. IInv /\ [Next]_vars => IInv'
  BY NextKeepsIInv, StutterKeepsIInv
<1> QED
  BY <1>1, InitIInv, PTL DEF Spec

-----------------------------------------------------------------------------
(***************************************************************************)
(* What holds of every list.                                               *)
(***************************************************************************)
(* The session's row, its ledger, the deferred rows, the reviews and what  *)
(* workers and the finalizer keep of them have their types, and only a     *)
(* closed, live session has a time for its next attempt.                   *)
THEOREM TypeCorrect == Spec => []TypeOK
BY Invariance, PTL DEF IInv

(* try_finalize_pending_generation saves every item taken in up to the     *)
(* closing message and no other, at least as many as it announced.         *)
THEOREM SavedWhole == Spec => []SavedIsWhole
BY Invariance, PTL DEF IInv

(* No list that needs a review is saved unless the operator was shown      *)
(* exactly this list and confirmed it by another message.                  *)
THEOREM SavedReviewed == Spec => []ReviewedBeforeSaved
BY Invariance, PTL DEF IInv

(* append_or_defer_pending_produce_item and the rotation lose no item      *)
(* whose message was settled.                                              *)
THEOREM NothingForgotten == Spec => []NoItemForgotten
BY Invariance, PTL DEF IInv

(* The step that saves a list leaves no item behind that was settled, lies *)
(* between its boundaries and was not resolved before.                     *)
THEOREM NothingLeftBehind == Spec => NothingWaitingBehind
<1> DEFINE Behind ==
        Live(session) /\ session'.outcome = "finalized" =>
          \A e \in Items :
             queue[e] = "done" /\ session.opener < e /\ e < session.close =>
                 \/ e \in session'.saved \/ e \in left
                 \/ deferred[e].status = "orphan"
                 \/ deferred[e].status \in {"before", "after"} /\ deferred[e].gen # session.gen
<1>1. ASSUME IInv, [Next]_vars, Live(session), session'.outcome = "finalized",
             NEW e \in Items, queue[e] = "done", session.opener < e, e < session.close
      PROVE  \/ e \in session'.saved \/ e \in left
             \/ deferred[e].status = "orphan"
             \/ deferred[e].status \in {"before", "after"} /\ deferred[e].gen # session.gen
  <2>1. session' # session
    BY <1>1 DEF Live
  <2>2. Saves
    BY <1>1, <2>1, SavedCases DEF vars
  <2>3. session'.saved = TheList /\ GuardedBy(session) = {}
    BY <1>1, <2>2, SavesAll DEF Saves
  <2>4. e \in Messages /\ e \in Nat /\ session.close \in Nat /\ session.opener \in Nat
    BY <1>1, Bounds, SessionFields DEF Items, IInv, TypeOK
  <2>5. CASE e \in session.rows
    BY <1>1, <2>3, <2>4, <2>5 DEF TheList, Document
  <2>6. CASE deferred[e].status # "none" /\ e \notin session.rows
    <3>1. deferred[e].status \notin {"waiting", "expired"}
      BY <1>1, <2>3, <2>4 DEF GuardedBy
    <3>2. deferred[e].status = "admitted" => e \in left
      BY <1>1, <2>4, <2>6 DEF IInv, DeferredTruly
    <3>3. deferred[e].status \in {"before", "after"} => deferred[e].gen # session.gen
      BY <1>1, <2>4 DEF IInv, DeferredTruly
    <3>4. deferred[e].status \in {"none", "waiting", "expired", "admitted", "before", "after", "orphan"}
      BY <1>1, <2>4 DEF IInv, TypeOK
    <3> QED
      BY <2>6, <3>1, <3>2, <3>3, <3>4
  <2> QED
    BY <1>1, <2>5, <2>6 DEF IInv, NoItemForgotten
<1>2. IInv /\ [Next]_vars => [Behind]_vars
  BY <1>1
<1>3. Spec => [][Behind]_vars
  <2> HIDE DEF Behind
  <2> QED
    BY <1>2, Invariance, PTL DEF Spec
<1> QED
  BY <1>3 DEF NothingWaitingBehind

-----------------------------------------------------------------------------
(***************************************************************************)
(* What a closed list with no attempt to come waits for.                   *)
(***************************************************************************)
(* The review the finalizer is about to hold its generation for. *)
HoldRecorded ==
    run.at = "hold" /\ Same(session, run.snap) /\ Live(session) =>
        Review(run.snap.gen, run.doc) # {}

ParkedInv == IInv /\ ParkedForReview /\ HoldRecorded

(* The list and its next attempt stay as they are. *)
Asleep ==
    /\ session'.gen = session.gen /\ session'.rows = session.rows
    /\ session'.close = session.close /\ session'.outcome = session.outcome
    /\ session'.attempt = session.attempt

Holding ==
    /\ run.at = "hold" /\ Fresh(run.snap)
    /\ session' = [session EXCEPT !.attempt = "none"]

(* Closed with no attempt to come: that is new only if the finalizer holds *)
(* the list.                                                               *)
LEMMA AsleepCases ==
    ASSUME IInv, Next, session'.outcome = "live", session'.close # None, session'.attempt = "none"
    PROVE  Asleep \/ Holding
<1> DEFINE Goal == Asleep \/ Holding
<1>a. session \in SessionType /\ DeferredTruly
  BY DEF IInv, TypeOK
<1>0. ASSUME session' = session PROVE Goal
  BY <1>0 DEF Asleep
<1>1. ASSUME \/ session' = [session EXCEPT !.late = TRUE]
             \/ session' = [session EXCEPT !.refused = @ \/ session.close = None]
      PROVE  Goal
  BY <1>1, <1>a DEF SessionType, Asleep
<1>2. ASSUME NEW a \in {"set", "due"}, session' = [session EXCEPT !.attempt = a] PROVE Goal
  BY <1>2, <1>a DEF SessionType
<1>3. ASSUME NEW outcome \in {"finalized", "failed"}, NEW doc \in SUBSET Messages,
             session' = Ended(session, outcome, doc)
      PROVE  Goal
  BY <1>3, <1>a, EndedFields
<1>4. ASSUME NEW new \in SUBSET Messages, session' = Appended(session, new) PROVE Goal
  <2>1. /\ session'.rows = session.rows \cup new /\ session'.gen = session.gen
        /\ session'.close = session.close /\ session'.outcome = session.outcome
    BY <1>4, <1>a, AppendedFields
  <2>2. ~(new \subseteq session.rows) => session'.attempt = "set"
    BY <1>4, <1>a, <2>1 DEF Appended, SessionType
  <2>3. new \subseteq session.rows => session'.attempt = session.attempt
    BY <1>4, <1>a DEF Appended, SessionType
  <2> QED
    BY <2>1, <2>2, <2>3 DEF Asleep
<1>5. ASSUME NEW e \in Messages, script[e] = "opener", Open(e) PROVE Goal
  <2> DEFINE taken == {x \in Reconciled(e, NoSession) : Accepts(session, x)}
  <2>1. CASE session.opener = e
    <3>1. session' = Appended(session, taken) /\ taken \in SUBSET Messages
      BY <1>5, <2>1 DEF Open, Reconciled
    <3> HIDE DEF taken
    <3> QED
      BY <1>4, <3>1
  <2>2. CASE session.opener # e
    <3> DEFINE new == [NoSession EXCEPT !.gen = session.gen + 1, !.opener = e,
                          !.outcome = "live", !.rows = {e} \cup Carried(e, session)]
               joined == {x \in Reconciled(e, session) : Accepts(new, x)}
    <3>1. session' = Appended(new, joined) /\ joined \in SUBSET Messages
      BY <1>5, <2>2 DEF Open, Reconciled
    <3>2. new \in SessionType /\ new.close = None
      <4>1. /\ session.gen + 1 \in Nat /\ e \in 0..N
            /\ {e} \cup Carried(e, session) \in SUBSET Messages
        BY <1>a, Bounds, SessionFields DEF Carried
      <4> QED
        BY <4>1, NoSessionFields DEF SessionType
    <3> HIDE DEF new, joined
    <3> QED
      BY <3>1, <3>2, AppendedFields
  <2> QED
    BY <2>1, <2>2
<1>6. ASSUME NEW w \in Workers, Work(w) PROVE Goal
  <2> DEFINE e == job[w].event
  <2>a. job[w].at # "idle" =>
           e \in Messages /\ script[e] = IF job[w].at \in Kinds THEN job[w].at ELSE "close"
    BY DEF IInv, JobForm
  <2>1. CASE OpenFirst(w) \/ OpenNext(w)
    <3>1. e \in Messages /\ script[e] = "opener"
      BY <2>1, <2>a DEF OpenFirst, OpenNext, At, Kinds
    <3>2. Open(e) \/ session' = session
      BY <2>1 DEF OpenFirst, OpenNext
    <3> QED
      BY <1>0, <1>5, <3>1, <3>2
  <2>2. CASE AppendOrDefer(w)
    <3>1. {e} \in SUBSET Messages /\ (session' = session \/ session' = Appended(session, {e}))
      BY <2>2, <2>a DEF AppendOrDefer
    <3> QED
      BY <1>0, <1>4, <3>1
  <2>3. CASE CloseNothing(w) \/ Gate(w) \/ Confirm(w) \/ Stage(w) \/ Reply(w) \/ MarkPresented(w)
    BY <1>0, <2>3 DEF CloseNothing, Gate, Confirm, Stage, Reply, MarkPresented
  <2>4. CASE Refuse(w)
    BY <1>0, <1>1, <2>4 DEF Refuse
  <2>5. CASE Resume(w)
    BY <1>0, <1>2, <2>5 DEF Resume
  <2>6. CASE AppendClose(w)
    <3>1. \/ session' = session
          \/ session' = [session EXCEPT !.rows = @ \cup {e}, !.close = e, !.attempt = "set",
                           !.announced = Announced[e]]
      BY <2>6 DEF AppendClose
    <3> HIDE DEF e
    <3> QED
      BY <1>0, <1>a, <3>1 DEF SessionType
  <2> QED
    BY <1>6, <2>1, <2>2, <2>3, <2>4, <2>5, <2>6 DEF Work
<1>7. ASSUME NEW w \in Workers,
             GateFails(w) \/ ReplyFails(w) \/ CallFails(w) \/ LoseLease(w) \/ Die(w)
               \/ \E e \in Messages : Take(w, e)
      PROVE  Goal
  BY <1>0, <1>7 DEF GateFails, ReplyFails, CallFails, LoseLease, Die, Take
<1>8. ASSUME NEW e \in Messages, Deliver(e) \/ Expire(e) \/ Resolve(e) PROVE Goal
  <2>1. {e} \in SUBSET Messages /\ (session' = session \/ session' = Appended(session, {e}))
    BY <1>8 DEF Deliver, Expire, Resolve
  <2> QED
    BY <1>0, <1>4, <2>1
<1>9. ASSUME Fetch \/ Validate \/ Overtaken \/ PushReview \/ MarkPushed \/ Cut PROVE Goal
  BY <1>0, <1>9 DEF Fetch, Validate, Overtaken, PushReview, MarkPushed, Cut, Rest
<1>10. ASSUME AttemptDue \/ DeadlinePasses \/ Defer PROVE Goal
  BY <1>0, <1>1, <1>2, <1>10 DEF AttemptDue, DeadlinePasses, Defer
<1>11. ASSUME Hold PROVE Goal
  BY <1>0, <1>11 DEF Hold, Holding
<1>12. ASSUME Save \/ Duplicate \/ Sweep PROVE Goal
  <2>1. /\ run.doc \in SUBSET Messages
        /\ \/ session' = session
           \/ session' = [session EXCEPT !.attempt = "set"]
           \/ session' = Ended(session, "failed", {})
           \/ session' = Ended(session, "finalized", run.doc)
    BY <1>12 DEF Save, Duplicate, Sweep, IInv, TypeOK
  <2> QED
    BY <1>0, <1>2, <1>3, <2>1
<1> HIDE DEF Goal
<1>13. ASSUME Queueing PROVE Goal
  BY <1>6, <1>7, <1>13 DEF Queueing
<1>14. Goal
  BY <1>8, <1>9, <1>10, <1>11, <1>12, <1>13 DEF Next, Arriving, Waiting, Finalize
<1> QED
  BY <1>14 DEF Goal

(* Reviews are not lost. *)
LEMMA ReviewKept ==
    ASSUME IInv, Next, NEW g, NEW doc, Review(g, doc) # {}
    PROVE  \E r \in reviews' : r.gen = g /\ r.doc = doc
BY ReviewCases DEF ReviewsOK, ReviewsKept, Review

LEMMA ParkedStays ==
    ASSUME ParkedInv, Next
    PROVE  ParkedForReview'
<1> SUFFICES ASSUME session'.outcome = "live", session'.close # None, session'.attempt = "none"
             PROVE  \E r \in reviews' : r.gen = session'.gen /\ r.doc = TheList'
  BY DEF ParkedForReview, Held, Closed, Live, Review
<1>a. IInv /\ session \in SessionType /\ script' = script
  BY ReviewCases DEF ParkedInv, IInv, TypeOK
<1>1. CASE Asleep
  <2>1. session'.gen = session.gen /\ TheList' = TheList /\ Closed /\ session.attempt = "none"
    BY <1>a, <1>1 DEF Asleep, TheList, Document, Items, Closed, Live
  <2>2. Review(session.gen, TheList) # {}
    BY <2>1 DEF ParkedInv, ParkedForReview, Held
  <2> QED
    BY <1>a, <2>1, <2>2, ReviewKept
<1>2. CASE Holding
  <2>1. /\ session'.gen = session.gen /\ session'.rows = session.rows
        /\ session'.close = session.close
    BY <1>a, <1>2 DEF Holding, SessionType
  <2>2. /\ run.at = "hold" /\ Judged /\ Live(session) /\ Same(session, run.snap)
        /\ session.rows = run.snap.rows
    BY <1>2 DEF Holding, Fresh, Judged
  <2>3. /\ session.close = run.snap.close
        /\ SnapList \subseteq run.doc /\ run.doc \subseteq TheList
    BY <1>a, <2>2 DEF IInv, RunForm
  <2>4. run.doc = TheList /\ TheList' = TheList
    BY <1>a, <2>1, <2>2, <2>3 DEF SnapList, TheList, Document, Items
  <2>5. Review(session.gen, TheList) # {}
    BY <2>2, <2>4 DEF ParkedInv, HoldRecorded, Same
  <2> QED
    BY <1>a, <2>1, <2>4, <2>5, ReviewKept
<1> QED
  BY <1>a, <1>1, <1>2, AsleepCases

LEMMA HoldStaysRecorded ==
    ASSUME ParkedInv, Next
    PROVE  HoldRecorded'
<1> SUFFICES ASSUME run'.at = "hold", session'.gen = run'.snap.gen, session'.outcome = "live"
             PROVE  \E r \in reviews' : r.gen = run'.snap.gen /\ r.doc = run'.doc
  BY DEF HoldRecorded, Same, Live, Review
<1>a. /\ IInv /\ session \in SessionType /\ run \in RunType /\ SessionOK
      /\ session.gen \in Nat /\ run.snap.gen \in Nat
  BY SessionCases, SnapFields, SessionFields DEF ParkedInv, IInv, TypeOK, RunType
<1>1. CASE RunKept
  <2>1. run.at = "hold" /\ run'.snap = run.snap /\ run'.doc = run.doc
    BY <1>1 DEF RunKept
  <2>2. run.snap.gen <= session.gen
    BY <1>a, <2>1 DEF IInv, RunForm
  <2>3. Continues
    BY <1>a, <2>1, <2>2 DEF SessionOK, Rotated
  <2>4. Same(session, run.snap) /\ Live(session)
    BY <2>1, <2>3 DEF Continues, Same, Live
  <2>5. Review(run.snap.gen, run.doc) # {}
    BY <2>1, <2>4 DEF ParkedInv, HoldRecorded
  <2> QED
    BY <1>a, <2>1, <2>5, ReviewKept
<1>2. CASE Validate
  <2> DEFINE g == run.snap.gen
             doc == Loaded(run.snap)
             held == run.snap.close > run.snap.opener /\ ~Blocked(doc) /\ NeedsReview(doc)
                       /\ ~IsConfirmed(g, doc)
  <2>1. /\ session' = session
        /\ \E failed \in BOOLEAN :
              /\ run' = [run EXCEPT !.at = IF held /\ ~failed THEN "hold" ELSE "save", !.doc = doc,
                           !.errors = failed \/ held \/ Blocked(doc)
                                        \/ run.snap.close <= run.snap.opener]
              /\ reviews' = IF held /\ ~failed THEN Recorded(g, doc, Token) ELSE reviews
    BY <1>2 DEF Validate
  <2> HIDE DEF doc, held, g
  <2>2. run'.doc = doc /\ run'.snap = run.snap /\ reviews' = Recorded(g, doc, Token)
    BY <1>a, <2>1 DEF RunType
  <2>3. CASE Review(g, doc) # {}
    BY <1>a, <2>2, <2>3, ReviewKept DEF g
  <2>4. CASE Review(g, doc) = {}
    <3> DEFINE n == [gen |-> g, doc |-> doc, by |-> Token, delivered |-> FALSE, confirmed |-> None]
    <3>1. ~Shut(g)
      BY <2>1 DEF Shut, Live
    <3>2. n \in reviews' /\ n.gen = g /\ n.doc = doc
      BY <2>2, <2>4, <3>1 DEF Recorded
    <3> HIDE DEF n
    <3> QED
      BY <2>2, <3>2 DEF g
  <2> QED
    BY <2>3, <2>4
<1>3. CASE Fetch
  <2>1. run' = [NoRun EXCEPT !.at = "fetched", !.snap = View(session)]
    BY <1>3 DEF Fetch
  <2> QED
    BY <2>1 DEF NoRun
<1> QED
  BY <1>a, <1>1, <1>2, <1>3, RunCases, NoRunFields

(* hold_pending_validation_review and append_pending_session never leave a *)
(* closed list without an attempt, but for a review of exactly this list   *)
(* that the operator has still to confirm, or whose confirmation came too  *)
(* early.                                                                  *)
THEOREM ParkedWaits == Spec => []ParkedForReview
<1>1. Init => ParkedInv
  <2> SUFFICES ASSUME Init PROVE ParkedInv
    OBVIOUS
  <2>1. ParkedForReview /\ HoldRecorded
    BY NoSessionFields, NoRunFields DEF Init, ParkedForReview, HoldRecorded, Closed, Live
  <2> QED
    BY <2>1, InitIInv DEF ParkedInv
<1>2. ParkedInv /\ [Next]_vars => ParkedInv'
  <2> SUFFICES ASSUME ParkedInv, [Next]_vars PROVE ParkedInv'
    OBVIOUS
  <2>1. CASE Next
    BY <2>1, NextKeepsIInv, ParkedStays, HoldStaysRecorded DEF ParkedInv
  <2>2. CASE UNCHANGED vars
    <3>1. IInv'
      BY <2>2, StutterKeepsIInv DEF ParkedInv
    <3> QED
      BY <2>2, <3>1
      DEF vars, ParkedInv, ParkedForReview, HoldRecorded, Held, Closed, Live, Same, Review, TheList,
          Document, Items
  <2> QED
    BY <2>1, <2>2
<1> QED
  BY <1>1, <1>2, PTL DEF Spec, ParkedInv
=============================================================================
