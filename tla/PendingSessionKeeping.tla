-------------------------- MODULE PendingSessionKeeping --------------------------
(***************************************************************************)
(* The capture of produce lists implements ListKeeping, for every number   *)
(* and kind of messages, every set of workers and every bound on the       *)
(* faults.                                                                 *)
(***************************************************************************)
EXTENDS PendingSessionProofs

-----------------------------------------------------------------------------
(***************************************************************************)
(* What the refinement needs beyond the inductive invariant of the capture. *)
(***************************************************************************)
(* A session has a generation, and nothing saved before it ends. *)
SessionBegan ==
    /\ (session.outcome = "none") <=> (session.gen = 0)
    /\ session.outcome # "finalized" => session.saved = {}

(* What the gate found of its snapshot stands until the close is set. *)
GateRight(j) ==
    j.at \in Closing =>
        /\ j.snap.gen <= session.gen
        /\ j.at # "close" => j.snap.gen # 0
        /\ j.at \in {"confirm", "passed", "append"} => ~Blocked(Document(j.snap.rows))
        /\ j.at \in {"passed", "append"} /\ NeedsReview(Document(j.snap.rows)) =>
              IsConfirmed(j.snap.gen, Document(j.snap.rows))
GatesRight == \A w \in Workers : GateRight(job[w])

(* A judged document is of items; without errors it is clean, and closed   *)
(* after its header.                                                       *)
RunClean ==
    /\ run.at # "idle" =>
         /\ run.snap.gen # 0
         /\ Same(session, run.snap) => session.opener = run.snap.opener
    /\ Judged => run.doc \subseteq Items
    /\ Judged /\ ~run.errors => ~Blocked(run.doc) /\ run.snap.opener < run.snap.close

ListInv == IInv /\ SessionBegan /\ GatesRight /\ RunClean

-----------------------------------------------------------------------------
(***************************************************************************)
(* The gate.                                                               *)
(***************************************************************************)
ConfirmedNext(g, doc) == \E r \in reviews' : r.gen = g /\ r.doc = doc /\ r.confirmed # None

(* What a step makes of what the gate found. *)
GateStep(w) ==
    \/ job'[w] = job[w]
    \/ job'[w].at \notin Closing
    \/ job'[w].at = "close" /\ job'[w].snap.gen <= session.gen
    \/ /\ job'[w].snap = job[w].snap
       /\ job[w].snap.gen <= session.gen /\ job[w].snap.gen # 0
       /\ job'[w].at \in {"confirm", "passed", "append"} => ~Blocked(Document(job[w].snap.rows))
       /\ job'[w].at \in {"passed", "append"} /\ NeedsReview(Document(job[w].snap.rows)) =>
             ConfirmedNext(job[w].snap.gen, Document(job[w].snap.rows))

(* A worker that reports its message, or dies. *)
LEMMA GateLeaves ==
    ASSUME TypeOK, NEW w \in Workers, job' = [job EXCEPT ![w] = NoJob]
    PROVE  \A v \in Workers : GateStep(v)
<1>1. \A v \in Workers \ {w} : job'[v] = job[v]
  BY DEF TypeOK
<1>2. job'[w].at \notin Closing
  BY NoJobFields DEF TypeOK, Closing
<1> QED
  BY <1>1, <1>2 DEF GateStep

(* A worker that goes on with its closing message. *)
LEMMA GateGoes ==
    ASSUME ListInv, NEW w \in Workers, NEW a \in Steps, NEW p \in BOOLEAN,
           \/ job' = [job EXCEPT ![w].at = a]
           \/ job' = [job EXCEPT ![w].at = a, ![w].presents = p],
           job[w].at \in Closing, job[w].snap.gen # 0,
           a \in {"confirm", "passed", "append"} => ~Blocked(Document(job[w].snap.rows)),
           a \in {"passed", "append"} /\ NeedsReview(Document(job[w].snap.rows)) =>
              ConfirmedNext(job[w].snap.gen, Document(job[w].snap.rows))
    PROVE  \A v \in Workers : GateStep(v)
<1>1. job \in [Workers -> JobType] /\ GateRight(job[w])
  BY DEF ListInv, IInv, TypeOK, JobType, GatesRight
<1>2. /\ job'[w].at = a /\ job'[w].snap = job[w].snap
      /\ \A v \in Workers \ {w} : job'[v] = job[v]
  BY <1>1 DEF JobType
<1>3. job[w].snap.gen <= session.gen
  BY <1>1 DEF GateRight
<1> QED
  BY <1>2, <1>3 DEF GateStep

(* A confirmation by a closing message, for as long as it holds. *)
LEMMA ConfirmConfirms ==
    ASSUME NEW g, NEW doc, NEW e, e # None, reviews \subseteq ReviewType,
           Confirmable(g, doc, e), reviews' = Confirmed(g, doc, e)
    PROVE  ConfirmedNext(g, doc)
<1>1. PICK q \in reviews : q.gen = g /\ q.doc = doc
  BY DEF Confirmable, Review
<1>2. CASE q.confirmed = None
  <2>1. [q EXCEPT !.confirmed = e] \in reviews'
    BY <1>1, <1>2 DEF Confirmed
  <2>2. /\ [q EXCEPT !.confirmed = e].gen = g /\ [q EXCEPT !.confirmed = e].doc = doc
        /\ [q EXCEPT !.confirmed = e].confirmed = e
    BY <1>1 DEF ReviewType
  <2> QED
    BY <2>1, <2>2 DEF ConfirmedNext
<1>3. CASE q.confirmed # None
  <2>1. q \in reviews'
    BY <1>1, <1>3 DEF Confirmed
  <2> QED
    BY <1>1, <1>3, <2>1 DEF ConfirmedNext
<1> QED
  BY <1>2, <1>3

LEMMA GateWork ==
    ASSUME ListInv, NEW w \in Workers, Work(w)
    PROVE  \A v \in Workers : GateStep(v)
<1> DEFINE Goal == \A v \in Workers : GateStep(v)
           sn == job[w].snap
           doc == Document(job[w].snap.rows)
           e == job[w].event
<1>a. /\ TypeOK /\ JobForm /\ GateRight(job[w]) /\ job[w].presents \in BOOLEAN
      /\ reviews \subseteq ReviewType
  BY DEF ListInv, IInv, TypeOK, GatesRight
<1>b. job[w].at \in Closing => e \in Messages /\ e # None
  BY <1>a, Bounds DEF JobForm, Closing
<1>c. job[w].at \in Closing \ {"close"} => sn.gen # 0
  BY <1>a DEF GateRight
<1>d. job[w].at \in {"passed", "append"} =>
         ~Blocked(doc) /\ (NeedsReview(doc) => IsConfirmed(sn.gen, doc))
  BY <1>a DEF GateRight, Closing
<1>0. ASSUME NEW st, Report(w, st) PROVE Goal
  BY <1>0, <1>a, GateLeaves DEF Report
<1>1. CASE OpenFirst(w) \/ OpenNext(w) \/ AppendOrDefer(w) \/ CloseNothing(w) \/ MarkPresented(w)
             \/ AppendClose(w)
  BY <1>0, <1>1 DEF OpenFirst, OpenNext, AppendOrDefer, CloseNothing, MarkPresented, AppendClose, Settle
<1>2. CASE Gate(w)
  <2> DEFINE reviewed == ~Blocked(doc) /\ NeedsReview(doc) /\ ~IsConfirmed(sn.gen, doc)
  <2>1. /\ job[w].at \in Closing /\ sn.gen # 0
        /\ ~reviewed => reviews' = reviews
    BY <1>2 DEF Gate, At, Closing
  <2>2. PICK a \in {"stage", "passed", "confirm"} :
           /\ job' = [job EXCEPT ![w].at = a, ![w].presents = reviewed]
           /\ a \in {"passed", "confirm"} => ~Blocked(doc)
           /\ a = "passed" => ~reviewed
    <3>1. \/ Blocked(doc) /\ job' = [job EXCEPT ![w].at = "stage", ![w].presents = reviewed]
          \/ ~Blocked(doc) /\ ~reviewed /\ job' = [job EXCEPT ![w].at = "passed", ![w].presents = reviewed]
          \/ ~Blocked(doc) /\ job' = [job EXCEPT ![w].at = "stage", ![w].presents = reviewed]
          \/ ~Blocked(doc) /\ job' = [job EXCEPT ![w].at = "confirm", ![w].presents = reviewed]
      BY <1>2 DEF Gate
    <3> HIDE DEF doc, reviewed
    <3> QED
      BY <3>1
  <2>3. a = "passed" /\ NeedsReview(doc) => ConfirmedNext(sn.gen, doc)
    <3> HIDE DEF doc, sn
    <3> QED
      BY <2>1, <2>2 DEF ConfirmedNext, IsConfirmed, Review
  <2>4. reviewed \in BOOLEAN /\ a \in Steps
    BY DEF Steps, Blocked
  <2> HIDE DEF reviewed
  <2> QED
    BY <2>1, <2>2, <2>3, <2>4, GateGoes
<1>3. CASE Confirm(w)
  <2>1. job[w].at = "confirm" /\ job[w].at \in Closing
    BY <1>3 DEF Confirm, At, Closing
  <2>2. ~Blocked(doc) /\ sn.gen # 0
    BY <1>a, <1>c, <2>1 DEF GateRight
  <2>3. CASE Confirmable(sn.gen, doc, e)
    <3>1. reviews' = Confirmed(sn.gen, doc, e) /\ job' = [job EXCEPT ![w].at = "passed"]
      BY <1>3, <2>3 DEF Confirm, Go
    <3>2. ConfirmedNext(sn.gen, doc)
      BY <1>a, <1>b, <2>1, <2>3, <3>1, ConfirmConfirms
    <3> QED
      BY <2>1, <2>2, <3>1, <3>2, GateGoes DEF Steps
  <2>4. CASE ~Confirmable(sn.gen, doc, e)
    <3>1. job' = [job EXCEPT ![w].at = "stage"]
      BY <1>3, <2>4 DEF Confirm, Go
    <3> QED
      BY <2>1, <2>2, <3>1, GateGoes DEF Steps
  <2> QED
    BY <2>3, <2>4
<1>4. CASE Stage(w)
  <2>1. /\ job[w].at \in Closing /\ sn.gen # 0
        /\ \E p \in BOOLEAN : job' = [job EXCEPT ![w].at = "refused", ![w].presents = p]
    <3>1. job[w].at \in Closing \ {"close"}
      BY <1>4 DEF Stage, At, Closing
    <3> QED
      BY <1>4, <1>c, <3>1 DEF Stage
  <2> QED
    BY <2>1, GateGoes DEF Steps
<1>5. ASSUME Refuse(w) \/ Reply(w) PROVE Goal
  <2>1. job[w].at \in Closing \ {"close"}
    BY <1>5 DEF Refuse, Reply, At, Closing
  <2>2. CASE \E a \in {"reply", "mark"} : job' = [job EXCEPT ![w].at = a]
    BY <1>c, <2>1, <2>2, GateGoes DEF Steps
  <2>3. CASE Report(w, "done")
    BY <1>0, <2>3
  <2> QED
    BY <1>5, <2>2, <2>3 DEF Refuse, Reply, Go, Settle
<1>6. CASE Resume(w)
  <2>1. job[w].at = "passed" /\ job' = [job EXCEPT ![w].at = "append"] /\ reviews' = reviews
    BY <1>6 DEF Resume, At, Go
  <2>2. /\ job[w].at \in Closing /\ sn.gen # 0 /\ ~Blocked(doc)
        /\ NeedsReview(doc) => IsConfirmed(sn.gen, doc)
    BY <1>c, <1>d, <2>1 DEF Closing
  <2>3. NeedsReview(doc) => ConfirmedNext(sn.gen, doc)
    <3> HIDE DEF doc, sn
    <3> QED
      BY <2>1, <2>2 DEF ConfirmedNext, IsConfirmed, Review
  <2> QED
    BY <2>1, <2>2, <2>3, GateGoes DEF Steps
<1> QED
  BY <1>1, <1>2, <1>3, <1>4, <1>5, <1>6 DEF Work

LEMMA GateCases ==
    ASSUME ListInv, Next
    PROVE  \A v \in Workers : GateStep(v)
<1> DEFINE Goal == \A v \in Workers : GateStep(v)
<1>a. TypeOK /\ job \in [Workers -> JobType] /\ session \in SessionType /\ session.gen \in Nat
  BY SessionFields DEF ListInv, IInv, TypeOK, JobType
<1>0. ASSUME job' = job PROVE Goal
  BY <1>0 DEF GateStep
<1>1. ASSUME NEW w \in Workers, GateFails(w) PROVE Goal
  <2>1. /\ job[w].at \in Closing /\ job[w].snap.gen # 0
        /\ job' = [job EXCEPT ![w].at = "refused", ![w].presents = FALSE]
    BY <1>1 DEF GateFails, Closing
  <2> QED
    BY <2>1, GateGoes DEF Steps
<1>2. ASSUME NEW w \in Workers, ReplyFails(w) \/ CallFails(w) \/ Die(w) PROVE Goal
  <2>1. job' = [job EXCEPT ![w] = NoJob]
    BY <1>2 DEF ReplyFails, CallFails, Die, Settle, Report
  <2> QED
    BY <1>a, <2>1, GateLeaves
<1>3. ASSUME NEW w \in Workers, LoseLease(w) PROVE Goal
  <2>1. job' = [job EXCEPT ![w].leased = FALSE] /\ reviews' = reviews
    BY <1>3 DEF LoseLease
  <2>2. /\ job'[w].at = job[w].at /\ job'[w].snap = job[w].snap
        /\ \A v \in Workers \ {w} : job'[v] = job[v]
    BY <1>a, <2>1 DEF JobType
  <2>3. GateRight(job[w])
    BY DEF ListInv, GatesRight
  <2>4. GateStep(w)
    BY <2>1, <2>2, <2>3 DEF GateStep, GateRight, ConfirmedNext, IsConfirmed, Review
  <2> QED
    BY <2>2, <2>4 DEF GateStep
<1>4. ASSUME NEW w \in Workers, NEW e \in Messages, Take(w, e) PROVE Goal
  <2> DEFINE t == IF Live(session) THEN session ELSE NoSession
             j == [NoJob EXCEPT !.at = script[e], !.event = e, !.leased = TRUE, !.snap = View(t)]
  <2>1. job' = [job EXCEPT ![w] = j]
    BY <1>4 DEF Take
  <2>2. j.at = script[e] /\ j.snap = View(t)
    <3> HIDE DEF View, t
    <3> QED
      BY DEF NoJob
  <2>3. View(t).gen <= session.gen
    <3>1. t \in SessionType /\ t.gen <= session.gen
      BY <1>a, NoSessionFields
    <3> QED
      BY <3>1, ViewFields
  <2> HIDE DEF j, t
  <2>4. script[e] \in Closing => script[e] = "close"
    BY <1>a, ScriptAssumption DEF TypeOK, Kinds, Closing
  <2>5. job'[w].at = script[e] /\ job'[w].snap = View(t)
          /\ \A v \in Workers \ {w} : job'[v] = job[v]
    BY <1>a, <2>1, <2>2
  <2> QED
    BY <2>3, <2>4, <2>5 DEF GateStep
<1>5. CASE Queueing
  BY <1>1, <1>2, <1>3, <1>4, <1>5, GateWork DEF Queueing
<1>6. CASE ~Queueing
  <2>1. job' = job
    BY <1>6 DEF Next, Arriving, Waiting, Deliver, Expire, Resolve, Finalize, Validate, Overtaken, Hold,
                PushReview, MarkPushed, Save, Duplicate, Fetch, Defer, Cut, AttemptDue,
                DeadlinePasses, Sweep, Rest
  <2> QED
    BY <1>0, <2>1
<1> QED
  BY <1>5, <1>6

(* The generation of the session only grows. *)
LEMMA GenGrows ==
    ASSUME IInv, Next
    PROVE  /\ session.gen \in Nat /\ session'.gen \in Nat /\ session.gen <= session'.gen
           /\ session'.gen = session.gen => Continues
<1>1. SessionOK /\ session.gen \in Nat
  BY SessionCases, SessionFields DEF IInv, TypeOK
<1>2. Continues \/ session'.gen = session.gen + 1
  BY <1>1 DEF SessionOK, Rotated
<1> QED
  BY <1>1, <1>2 DEF SessionOK, SessionType, Continues

LEMMA GatesStay ==
    ASSUME ListInv, Next
    PROVE  GatesRight'
<1>a. IInv /\ script' = script /\ ReviewsKept
  BY ReviewCases DEF ListInv, ReviewsOK
<1>1. SUFFICES ASSUME NEW w \in Workers, job'[w].at \in Closing
               PROVE  LET j == job'[w]
                          doc == Document(j.snap.rows)
                      IN  /\ j.snap.gen <= session'.gen
                          /\ j.at # "close" => j.snap.gen # 0
                          /\ j.at \in {"confirm", "passed", "append"} => ~Blocked(doc)
                          /\ j.at \in {"passed", "append"} /\ NeedsReview(doc) =>
                                ConfirmedNext(j.snap.gen, doc)
  <2>1. \A rows : /\ Document(rows)' = Document(rows)
                  /\ \A doc : NeedsReview(doc)' = NeedsReview(doc) /\ Blocked(doc)' = Blocked(doc)
    BY <1>a DEF Document, Items, NeedsReview, Blocked
  <2> QED
    BY <1>a, <2>1
    DEF GatesRight, GateRight, ConfirmedNext, IsConfirmed, Review, Document, Items, NeedsReview, Blocked
<1> DEFINE j == job'[w]
           doc == Document(j.snap.rows)
<1>2. /\ session.gen \in Nat /\ session'.gen \in Nat /\ session.gen <= session'.gen
      /\ j.snap.gen \in Nat
  BY <1>a, GenGrows, QueueCases DEF JobsOK, JobType, ViewType
<1>3. CASE j = job[w]
  <2>1. GateRight(job[w])
    BY DEF ListInv, GatesRight
  <2>2. j.snap.gen <= session.gen
    BY <1>1, <1>3, <2>1 DEF GateRight
  <2>3. j.at \in {"passed", "append"} /\ NeedsReview(doc) => IsConfirmed(j.snap.gen, doc)
    BY <1>1, <1>3, <2>1 DEF GateRight
  <2>4. j.at \in {"passed", "append"} /\ NeedsReview(doc) => ConfirmedNext(j.snap.gen, doc)
    <3> HIDE DEF doc, j
    <3> QED
      BY <1>a, <2>3, ConfirmationKept DEF ConfirmedNext
  <2> QED
    BY <1>1, <1>2, <1>3, <2>1, <2>2, <2>4 DEF GateRight
<1>4. CASE j.at = "close" /\ j.snap.gen <= session.gen
  BY <1>2, <1>4
<1>5. CASE /\ j.snap = job[w].snap
           /\ job[w].snap.gen <= session.gen /\ job[w].snap.gen # 0
           /\ j.at \in {"confirm", "passed", "append"} => ~Blocked(Document(job[w].snap.rows))
           /\ j.at \in {"passed", "append"} /\ NeedsReview(Document(job[w].snap.rows)) =>
                 ConfirmedNext(job[w].snap.gen, Document(job[w].snap.rows))
  <2>1. j.snap.gen <= session'.gen
    BY <1>2, <1>5
  <2> QED
    BY <1>5, <2>1
<1> QED
  BY <1>1, <1>3, <1>4, <1>5, GateCases DEF GateStep

-----------------------------------------------------------------------------
(***************************************************************************)
(* The finalizer.                                                          *)
(***************************************************************************)
LEMMA RunStaysClean ==
    ASSUME ListInv, Next
    PROVE  RunClean'
<1>a. /\ IInv /\ RunClean /\ SessionBegan /\ script' = script
      /\ session \in SessionType /\ run \in RunType
  BY ReviewCases DEF ListInv, IInv, TypeOK, RunType
<1>b. Items' = Items /\ \A doc : Blocked(doc)' = Blocked(doc)
  BY <1>a DEF Blocked, Items
<1>1. CASE run' = NoRun
  BY <1>1, NoRunFields DEF RunClean, Judged
<1>2. CASE RunKept
  <2>1. /\ run'.snap = run.snap /\ run'.doc = run.doc /\ run'.errors = run.errors
        /\ run'.at # "idle" => run.at # "idle"
        /\ Judged' => Judged
    BY <1>2 DEF RunKept, Judged
  <2>2. ASSUME run'.at # "idle", session'.gen = run.snap.gen PROVE session'.opener = run.snap.opener
    <3>1. run.snap.gen <= session.gen /\ run.snap.gen \in Nat
      BY <1>a, <2>1, <2>2 DEF IInv, RunForm, RunType, ViewType
    <3>2. Continues /\ session.gen = run.snap.gen
      BY <1>a, <2>2, <3>1, GenGrows
    <3> QED
      BY <1>a, <2>1, <2>2, <3>2 DEF Continues, RunClean, Same
  <2> QED
    BY <1>a, <1>b, <2>1, <2>2 DEF RunClean, Same, Blocked
<1>3. CASE Fetch
  <2>1. /\ run' = [NoRun EXCEPT !.at = "fetched", !.snap = View(session)]
        /\ session' = session /\ Live(session)
    BY <1>3 DEF Fetch
  <2>2. run'.at = "fetched" /\ run'.snap = View(session)
    <3> HIDE DEF View
    <3> QED
      BY <2>1, NoRunFields
  <2>3. session.gen # 0
    BY <1>a, <2>1 DEF SessionBegan, Live
  <2> QED
    BY <1>a, <2>1, <2>2, <2>3, ViewFields DEF RunClean, Judged
<1>4. CASE Validate
  <2> DEFINE doc == Loaded(run.snap)
             held == run.snap.close > run.snap.opener /\ ~Blocked(doc) /\ NeedsReview(doc)
                       /\ ~IsConfirmed(run.snap.gen, doc)
  <2>1. /\ session' = session /\ run.at = "fetched" /\ Same(session, run.snap)
        /\ \E failed \in BOOLEAN :
              run' = [run EXCEPT !.at = IF held /\ ~failed THEN "hold" ELSE "save", !.doc = doc,
                        !.errors = failed \/ held \/ Blocked(doc) \/ run.snap.close <= run.snap.opener]
    BY <1>4 DEF Validate, Rest
  <2>2. /\ run'.doc = doc /\ run'.snap = run.snap
        /\ \E failed \in BOOLEAN :
              run'.errors = (failed \/ held \/ Blocked(doc) \/ run.snap.close <= run.snap.opener)
    <3> HIDE DEF doc, held
    <3> QED
      BY <1>a, <2>1 DEF RunType
  <2>3. run.snap.close \in Nat /\ run.snap.opener \in Nat
    BY <1>a, SnapFields DEF RunType
  <2>4. ~run'.errors => ~Blocked(doc) /\ ~(run.snap.close <= run.snap.opener)
    <3> HIDE DEF doc, held
    <3> QED
      BY <2>2
  <2>5. run.snap.gen # 0 /\ session.opener = run.snap.opener
    BY <1>a, <2>1 DEF RunClean
  <2>6. doc \subseteq Items
    BY DEF Loaded, Document
  <2> HIDE DEF doc, held
  <2> QED
    BY <1>b, <2>1, <2>2, <2>3, <2>4, <2>5, <2>6 DEF RunClean, Same, Blocked
<1> QED
  BY <1>a, <1>1, <1>2, <1>3, <1>4, RunCases

-----------------------------------------------------------------------------
(***************************************************************************)
(* What a step is to the list: nothing, ...                                *)
(***************************************************************************)
ListStep == Keeping!Next \/ UNCHANGED Keeping!vars

(* What the row says of the list. *)
SameList ==
    /\ session'.gen = session.gen /\ session'.opener = session.opener
    /\ session'.rows = session.rows /\ session'.close = session.close
    /\ session'.announced = session.announced /\ session'.outcome = session.outcome
    /\ session'.saved = session.saved

LEMMA Unseen ==
    ASSUME script' = script, shown' = shown, Agreed' = Agreed, SameList
    PROVE  ListStep
BY DEF ListStep, SameList, Keeping!vars, Keeping!list, StageOf, Document, Items

LEMMA Unlisted ==
    ASSUME UNCHANGED <<script, session, shown, reviews>>
    PROVE  ListStep
BY Unseen DEF SameList, Agreed

(* A field that the list does not show. *)
LEMMA FieldUnseen ==
    ASSUME IInv, UNCHANGED <<script, shown, reviews>>,
           \/ session' = session
           \/ session' = [session EXCEPT !.late = TRUE]
           \/ \E a \in {"none", "set", "due"} : session' = [session EXCEPT !.attempt = a]
           \/ session' = [session EXCEPT !.refused = @ \/ session.close = None]
    PROVE  ListStep
<1>1. session \in SessionType
  BY DEF IInv, TypeOK
<1>2. SameList
  BY <1>1 DEF SessionType, SameList
<1>3. Agreed' = Agreed
  BY DEF Agreed
<1> QED
  BY <1>2, <1>3, Unseen

LEMMA StageFields ==
    ASSUME NEW s \in SessionType
    PROVE  /\ StageOf(s) = "none" <=> s.outcome = "none"
           /\ StageOf(s) = "saved" <=> s.outcome = "finalized"
           /\ StageOf(s) = "ended" <=> s.outcome = "failed"
           /\ StageOf(s) = "open" <=> s.outcome = "live" /\ s.close = None
           /\ StageOf(s) = "closed" <=> s.outcome = "live" /\ s.close # None
<1>1. s.outcome \in {"none", "live", "finalized", "failed"}
  BY SessionFields
<1>2. CASE s.outcome = "none"
  BY <1>2 DEF StageOf
<1>3. CASE s.outcome = "live"
  BY <1>3 DEF StageOf
<1>4. CASE s.outcome = "finalized"
  BY <1>4 DEF StageOf
<1>5. CASE s.outcome = "failed"
  BY <1>5 DEF StageOf
<1> QED
  BY <1>1, <1>2, <1>3, <1>4, <1>5

(* An item is no header and no closing message. *)
LEMMA ItemKinds ==
    /\ Items = Keeping!Items
    /\ \A x \in Items : x \in Messages /\ x \in Nat /\ x # None /\ script[x] \notin {"opener", "close"}
BY Bounds DEF Items, Keeping!Items

(***************************************************************************)
(* ... items that come in, ...                                             *)
(***************************************************************************)
LEMMA GrowMoves ==
    ASSUME IInv, NEW new \in SUBSET Items, session' = Appended(session, new),
           \A x \in new : session.opener < x /\ Accepts(session, x),
           UNCHANGED <<script, shown, reviews>>
    PROVE  ListStep
<1>a. /\ session \in SessionType /\ BoundaryKinds /\ new \in SUBSET Messages
      /\ session.close \in Nat
  BY ItemKinds, SessionFields DEF IInv, TypeOK
<1>1. CASE new = {}
  BY <1>a, <1>1, AppendedFields, Unlisted
<1>2. CASE new # {}
  <2> DEFINE S == new \ session.rows
  <2>1. /\ session' \in SessionType /\ session'.rows = session.rows \cup new
        /\ session'.gen = session.gen /\ session'.opener = session.opener
        /\ session'.close = session.close /\ session'.announced = session.announced
        /\ session'.outcome = session.outcome /\ session'.saved = session.saved
    BY <1>a, AppendedFields
  <2>2. StageOf(session)' = StageOf(session) /\ Agreed' = Agreed
    BY <2>1 DEF StageOf, Agreed
  <2>3. StageOf(session) \in {"open", "closed"}
    BY <1>a, <1>2, StageFields DEF Accepts, Live
  <2>4. \A x \in S : session.opener < x /\ (StageOf(session) = "closed" => x < session.close)
    <3> SUFFICES ASSUME NEW x \in S, StageOf(session) = "closed" PROVE x < session.close
      OBVIOUS
    <3>1. session.close # None /\ x \in Items /\ x \notin session.rows
      BY <1>a, StageFields
    <3>2. x <= session.close /\ x # session.close
      BY <1>a, <3>1, ItemKinds DEF Accepts, BoundaryKinds
    <3> QED
      BY <1>a, <3>1, <3>2, ItemKinds
  <2>5. Document(session.rows)' = Document(session.rows) \cup S
    BY <2>1 DEF Document, Items
  <2>6. Keeping!TakeIn(S)
    BY <2>1, <2>2, <2>3, <2>4, <2>5 DEF Keeping!TakeIn
  <2>7. S \in SUBSET Keeping!Items
    BY ItemKinds
  <2> QED
    BY <2>6, <2>7 DEF ListStep, Keeping!Next
<1> QED
  BY <1>1, <1>2

(***************************************************************************)
(* ... a header, ...                                                       *)
(***************************************************************************)
LEMMA OpenMoves ==
    ASSUME IInv, NEW e \in Messages, script[e] = "opener", Open(e),
           UNCHANGED <<script, shown, reviews>>
    PROVE  ListStep
<1> DEFINE again == session.opener = e
           old   == IF again THEN NoSession ELSE session
           new   == [NoSession EXCEPT !.gen = session.gen + 1, !.opener = e,
                        !.outcome = "live", !.rows = {e} \cup Carried(e, session)]
           base  == IF again THEN session ELSE new
           taken == {x \in Reconciled(e, old) : Accepts(base, x)}
<1>a. /\ session \in SessionType /\ DeferredTruly /\ BoundaryKinds
      /\ session.gen \in Nat /\ session.rows \subseteq Messages
  BY SessionFields DEF IInv, TypeOK
<1>1. session' = Appended(base, taken)
  BY DEF Open
<1>2. taken \subseteq Items /\ \A x \in taken : e < x /\ Accepts(base, x)
  BY <1>a DEF Reconciled, DeferredTruly
<1>3. CASE again
  <2>1. base = session
    BY <1>3
  <2> HIDE DEF base, taken, old
  <2> QED
    BY <1>1, <1>2, <1>3, <2>1, GrowMoves
<1>4. CASE ~again
  <2>1. base = new
    BY <1>4
  <2>2. {e} \cup Carried(e, session) \in SUBSET Messages /\ taken \in SUBSET Messages
    BY <1>a, <1>2, ItemKinds DEF Carried
  <2>3. /\ new \in SessionType /\ new.gen = session.gen + 1 /\ new.opener = e /\ new.close = None
        /\ new.outcome = "live" /\ new.rows = {e} \cup Carried(e, session)
        /\ new.announced = 0 /\ new.saved = {}
    <3>1. session.gen + 1 \in Nat /\ e \in 0..N
      BY <1>a, Bounds
    <3> QED
      BY <2>2, <3>1, NoSessionFields DEF SessionType, NoSession
  <2> HIDE DEF base, taken, old, new
  <2>4. /\ session' \in SessionType /\ session'.rows = {e} \cup Carried(e, session) \cup taken
        /\ session'.gen = session.gen + 1 /\ session'.opener = e /\ session'.close = None
        /\ session'.announced = 0 /\ session'.outcome = "live" /\ session'.saved = {}
    BY <1>1, <2>1, <2>2, <2>3, AppendedFields
  <2>5. StageOf(session') = "open"
    BY <2>4, StageFields
  <2>6. e \notin Items
    BY ItemKinds
  <2>7. Document(session.rows)' = Document(session'.rows)
    BY DEF Document, Items
  <2>8. Document(session'.rows) \in SUBSET {x \in Items : e < x}
    BY <1>2, <2>4, <2>6 DEF Document, Carried
  <2>9. ASSUME NEW x \in Document(session.rows), e < x PROVE x \in Document(session'.rows)
    <3>1. x \in Items /\ x \in session.rows /\ x \in Messages
      BY <2>9, ItemKinds DEF Document
    <3>2. x \notin {session.opener, session.close}
      BY <1>a, <3>1, ItemKinds DEF BoundaryKinds
    <3> QED
      BY <2>4, <2>9, <3>1, <3>2 DEF Document, Carried
  <2>10. Keeping!Begin(e)
    <3>1. Agreed' = Agreed
      BY DEF Agreed
    <3> QED
      BY <1>4, <2>4, <2>5, <2>7, <2>8, <2>9, <3>1, ItemKinds
      DEF Keeping!Begin, Keeping!Nobody, None, StageOf, Document
  <2> QED
    BY <2>10 DEF ListStep, Keeping!Next
<1> QED
  BY <1>3, <1>4

(***************************************************************************)
(* ... the reviews of its documents, ...                                   *)
(***************************************************************************)
LEMMA AgreedIff ==
    ASSUME NEW g, NEW doc
    PROVE  (\E a \in Agreed : a.gen = g /\ a.doc = doc) <=> IsConfirmed(g, doc)
<1>1. ASSUME NEW a \in Agreed, a.gen = g, a.doc = doc PROVE IsConfirmed(g, doc)
  <2>1. PICK r \in reviews : r.confirmed # None /\ a = [gen |-> r.gen, doc |-> r.doc, by |-> r.confirmed]
    BY DEF Agreed
  <2> QED
    BY <1>1, <2>1 DEF IsConfirmed, Review
<1>2. ASSUME NEW r \in reviews, r.gen = g, r.doc = doc, r.confirmed # None
      PROVE  \E a \in Agreed : a.gen = g /\ a.doc = doc
  <2> DEFINE a == [gen |-> r.gen, doc |-> r.doc, by |-> r.confirmed]
  <2>1. a \in Agreed
    BY <1>2 DEF Agreed
  <2>2. a.gen = g /\ a.doc = doc
    BY <1>2
  <2> HIDE DEF a
  <2> QED
    BY <2>1, <2>2
<1> QED
  BY <1>1, <1>2 DEF IsConfirmed, Review

(* Confirmations neither come nor go. *)
LEMMA AgreedKept ==
    ASSUME \A r \in reviews : r.confirmed # None =>
              \E q \in reviews' : q.gen = r.gen /\ q.doc = r.doc /\ q.confirmed = r.confirmed,
           \A q \in reviews' : q.confirmed # None =>
              \E r \in reviews : r.gen = q.gen /\ r.doc = q.doc /\ r.confirmed = q.confirmed
    PROVE  Agreed' = Agreed
BY DEF Agreed

LEMMA RecordedUnseen ==
    ASSUME NEW g, NEW doc, NEW by, reviews' = Recorded(g, doc, by)
    PROVE  Agreed' = Agreed
<1> DEFINE n == [gen |-> g, doc |-> doc, by |-> by, delivered |-> FALSE, confirmed |-> None]
<1>1. reviews' = reviews \/ reviews' = reviews \cup {n}
  BY DEF Recorded
<1>2. n.confirmed = None
  OBVIOUS
<1> HIDE DEF n
<1> QED
  BY <1>1, <1>2, AgreedKept

LEMMA MarkedUnseen ==
    ASSUME TypeOK, NEW g, NEW doc, NEW by \in 0..N, reviews' = Marked(g, doc, by)
    PROVE  Agreed' = Agreed
<1> DEFINE f == [r \in reviews |-> IF r.gen = g /\ r.doc = doc /\ ~r.delivered
                                   THEN [r EXCEPT !.delivered = TRUE, !.by = by] ELSE r]
<1>1. reviews' = reviews \/ reviews' = {f[r] : r \in reviews}
  BY DEF Marked
<1>2. ASSUME NEW r \in reviews
      PROVE  f[r].gen = r.gen /\ f[r].doc = r.doc /\ f[r].confirmed = r.confirmed
  <2>1. r \in ReviewType
    BY DEF TypeOK
  <2>2. CASE r.gen = g /\ r.doc = doc /\ ~r.delivered
    <3>1. f[r] = [r EXCEPT !.delivered = TRUE, !.by = by]
      BY <2>2
    <3> HIDE DEF f
    <3> QED
      BY <2>1, <3>1 DEF ReviewType
  <2>3. CASE ~(r.gen = g /\ r.doc = doc /\ ~r.delivered)
    BY <2>3
  <2> QED
    BY <2>2, <2>3
<1> HIDE DEF f
<1>3. CASE reviews' = {f[r] : r \in reviews}
  <2>1. \A r \in reviews : f[r] \in reviews'
    BY <1>3
  <2>2. \A q \in reviews' : \E r \in reviews : q = f[r]
    BY <1>3
  <2> QED
    BY <1>2, <2>1, <2>2, AgreedKept
<1> QED
  BY <1>1, <1>3, AgreedKept

LEMMA ReviewUnseen ==
    ASSUME UNCHANGED <<script, session, shown>>, Agreed' = Agreed
    PROVE  ListStep
BY Unseen DEF SameList

LEMMA ShowMoves ==
    ASSUME NEW g \in 1..session.gen, NEW rows, NEW m \in Messages \cup {None},
           m = None \/ script[m] = "close",
           Show(g, Document(rows), m), UNCHANGED <<script, session, reviews>>
    PROVE  ListStep
<1>1. Document(rows) \in SUBSET Keeping!Items
  BY ItemKinds DEF Document
<1>2. Keeping!Show(g, Document(rows), m)
  BY <1>1 DEF Show, Keeping!Show, Keeping!Nobody, None, Keeping!list, StageOf, Agreed, Document, Items
<1>3. m \in Messages \cup {Keeping!Nobody}
  BY DEF Keeping!Nobody, None
<1> QED
  BY <1>1, <1>2, <1>3 DEF ListStep, Keeping!Next

LEMMA AgreeMoves ==
    ASSUME IInv, NEW g \in 1..session.gen, NEW rows, NEW m \in Messages, script[m] = "close",
           Confirmable(g, Document(rows), m), reviews' = Confirmed(g, Document(rows), m),
           UNCHANGED <<script, session, shown>>
    PROVE  ListStep
<1> DEFINE doc == Document(rows)
           f == [r \in reviews |-> IF r.gen = g /\ r.doc = doc /\ r.confirmed = None
                                   THEN [r EXCEPT !.confirmed = m] ELSE r]
           n == [gen |-> g, doc |-> doc, by |-> m]
<1>a. reviews \subseteq ReviewType /\ ReviewForm /\ session \in SessionType /\ m # None
  BY Bounds DEF IInv, TypeOK
<1>1. reviews' = {f[r] : r \in reviews}
  BY DEF Confirmed
<1>2. PICK q \in reviews : /\ q.gen = g /\ q.doc = doc
                           /\ q.confirmed # None \/ (q.delivered /\ q.by # m)
  BY DEF Confirmable, Review
<1>3. \A r \in reviews : r.gen = g /\ r.doc = doc => r = q
  BY <1>a, <1>2 DEF ReviewForm
<1>4. \A r \in reviews : r # q => f[r] = r
  BY <1>3
<1>5. CASE q.confirmed # None
  <2>1. \A r \in reviews : f[r] = r
    BY <1>4, <1>5
  <2> HIDE DEF f
  <2>2. reviews' = reviews
    BY <1>1, <2>1
  <2> QED
    BY <2>2, Unlisted
<1>6. CASE q.confirmed = None
  <2>1. f[q] = [q EXCEPT !.confirmed = m]
    BY <1>2, <1>6
  <2> HIDE DEF f
  <2>2. f[q].gen = g /\ f[q].doc = doc /\ f[q].confirmed = m
    <3> HIDE DEF doc
    <3> QED
      BY <1>a, <1>2, <2>1 DEF ReviewType
  <2>3. ASSUME NEW a PROVE a \in Agreed' <=> a \in Agreed \cup {n}
    <3>1. ASSUME a \in Agreed' PROVE a \in Agreed \cup {n}
      <4>1. PICK p \in reviews' : p.confirmed # None /\ a = [gen |-> p.gen, doc |-> p.doc, by |-> p.confirmed]
        BY <3>1 DEF Agreed
      <4>2. PICK r \in reviews : p = f[r]
        BY <1>1
      <4>3. CASE r = q
        BY <2>2, <4>1, <4>2, <4>3
      <4>4. CASE r # q
        BY <1>4, <4>1, <4>2, <4>4 DEF Agreed
      <4> QED
        BY <4>3, <4>4
    <3>2. ASSUME a \in Agreed PROVE a \in Agreed'
      <4>1. PICK r \in reviews : r.confirmed # None /\ a = [gen |-> r.gen, doc |-> r.doc, by |-> r.confirmed]
        BY <3>2 DEF Agreed
      <4>2. f[r] = r /\ r \in reviews'
        BY <1>1, <1>4, <1>6, <4>1
      <4> QED
        BY <4>1, <4>2 DEF Agreed
    <3>3. n \in Agreed'
      <4>1. f[q] \in reviews'
        BY <1>1
      <4> QED
        BY <1>a, <2>2, <4>1 DEF Agreed
    <3> QED
      BY <3>1, <3>2, <3>3
  <2>4. Agreed' = Agreed \cup {n}
    BY <2>3
  <2>5. ~\E a \in Agreed : a.gen = g /\ a.doc = doc
    <3>1. ~IsConfirmed(g, doc)
      <4> HIDE DEF doc
      <4> QED
        BY <1>3, <1>6 DEF IsConfirmed, Review
    <3> QED
      BY <3>1, AgreedIff
  <2>6. \E d \in shown : d.gen = g /\ d.doc = doc /\ d.by # m
    <3>1. [gen |-> q.gen, doc |-> q.doc, by |-> q.by] \in shown /\ q.by # m
      BY <1>a, <1>2, <1>6 DEF ReviewForm
    <3> HIDE DEF doc
    <3> QED
      BY <1>2, <3>1
  <2>7. g = session.gen => StageOf(session) \in {"open", "closed"}
    BY <1>a, StageFields DEF Confirmable, Shut, Live
  <2>8. UNCHANGED Keeping!list
    BY DEF Keeping!list, StageOf, Document, Items
  <2>9. Keeping!Agree(g, doc, m)
    <3> HIDE DEF doc
    <3> QED
      BY <2>4, <2>5, <2>6, <2>7, <2>8 DEF Keeping!Agree, n
  <2>10. doc \in SUBSET Keeping!Items
    BY ItemKinds DEF Document
  <2> QED
    BY <2>9, <2>10 DEF ListStep, Keeping!Next
<1> QED
  BY <1>5, <1>6

(***************************************************************************)
(* ... its closing message, and its end.                                   *)
(***************************************************************************)
LEMMA CloseMoves ==
    ASSUME IInv, NEW e \in Messages, script[e] = "close", NEW s \in ViewType, Pinned(s),
           ~Blocked(Document(s.rows)),
           NeedsReview(Document(s.rows)) => IsConfirmed(s.gen, Document(s.rows)),
           session' = [session EXCEPT !.rows = @ \cup {e}, !.close = e, !.attempt = "set",
                         !.announced = Announced[e]],
           UNCHANGED <<script, shown, reviews>>
    PROVE  ListStep
<1> DEFINE doc == Document(session.rows)
<1>a. session \in SessionType /\ Announced[e] \in Nat /\ e \in 0..N /\ e # None
  BY Bounds DEF IInv, TypeOK
<1>1. /\ session' \in SessionType /\ session'.gen = session.gen /\ session'.opener = session.opener
      /\ session'.rows = session.rows \cup {e} /\ session'.close = e
      /\ session'.announced = Announced[e]
      /\ session'.outcome = session.outcome /\ session'.saved = session.saved
  BY <1>a DEF SessionType
<1>2. session.outcome = "live" /\ session.close = None /\ s.gen = session.gen /\ s.rows = session.rows
  BY DEF Pinned, Live, Same
<1>3. StageOf(session) = "open" /\ StageOf(session') = "closed"
  BY <1>a, <1>1, <1>2, StageFields
<1>4. e \notin Items
  BY ItemKinds
<1>5. Document(session.rows)' = doc
  BY <1>1, <1>4 DEF Document, Items
<1>6. Keeping!Sound(doc)
  <2>1. Keeping!Clean(doc)
    BY <1>2 DEF Keeping!Clean, Blocked
  <2>2. Keeping!Doubtful(doc) => IsConfirmed(session.gen, doc)
    BY <1>2 DEF Keeping!Doubtful, NeedsReview
  <2> HIDE DEF doc
  <2> QED
    BY <2>1, <2>2, AgreedIff DEF Keeping!Sound
<1>7. Agreed' = Agreed /\ StageOf(session)' = "closed"
  BY <1>3 DEF Agreed, StageOf
<1>8. Keeping!Close(e)
  BY <1>a, <1>1, <1>3, <1>5, <1>6, <1>7 DEF Keeping!Close
<1> QED
  BY <1>8 DEF ListStep, Keeping!Next

LEMMA EndMoves ==
    ASSUME IInv, SessionBegan, Live(session), session' = Ended(session, "failed", {}),
           UNCHANGED <<script, shown, reviews>>
    PROVE  ListStep
<1>a. session \in SessionType
  BY DEF IInv, TypeOK
<1>1. /\ session' \in SessionType /\ session'.outcome = "failed" /\ session'.saved = {}
      /\ session'.gen = session.gen /\ session'.opener = session.opener
      /\ session'.close = session.close /\ session'.rows = session.rows
      /\ session'.announced = session.announced
  BY <1>a, EndedFields
<1>2. session.saved = {} /\ StageOf(session) \in {"open", "closed"}
  BY <1>a, StageFields DEF SessionBegan, Live
<1>3. StageOf(session') = "ended"
  BY <1>1, StageFields
<1>4. /\ Agreed' = Agreed /\ StageOf(session)' = "ended"
      /\ Document(session.rows)' = Document(session.rows)
  BY <1>1, <1>3 DEF Agreed, StageOf, Document, Items
<1>5. Keeping!End
  BY <1>1, <1>2, <1>4 DEF Keeping!End
<1> QED
  BY <1>5 DEF ListStep, Keeping!Next

LEMMA SaveMoves ==
    ASSUME IInv, RunClean, Saves, run.doc # {}, UNCHANGED <<script, shown, reviews>>
    PROVE  ListStep
<1>a. session \in SessionType /\ run.doc \in SUBSET Messages /\ RunForm /\ BoundaryKinds
        /\ session.close \in Nat
  BY SessionFields DEF IInv, TypeOK
<1>1. /\ session' \in SessionType /\ session'.outcome = "finalized" /\ session'.saved = run.doc
      /\ session'.gen = session.gen /\ session'.opener = session.opener
      /\ session'.close = session.close /\ session'.rows = session.rows
      /\ session'.announced = session.announced
  BY <1>a, EndedFields DEF Saves
<1>2. /\ Judged /\ run.at # "idle" /\ ~run.errors /\ Same(session, run.snap) /\ Live(session)
      /\ session.gen = run.snap.gen
  BY DEF Saves, Judged, Current, Same
<1>3. session.close = run.snap.close /\ session.close # None
  BY <1>a, <1>2 DEF RunForm
<1>4. session.opener < session.close
  BY <1>2, <1>3 DEF RunClean
<1>5. StageOf(session) = "closed" /\ StageOf(session') = "saved"
  BY <1>a, <1>1, <1>2, <1>3, StageFields DEF Live
<1>6. run.doc = {x \in Document(session.rows) : x < session.close}
  <2>1. run.doc = TheList
    BY SavesAll
  <2>2. \A x \in Document(session.rows) : x <= session.close <=> x < session.close
    <3>1. \A x \in Document(session.rows) : x \in Nat /\ x # session.close
      BY <1>a, <1>3, ItemKinds DEF Document, BoundaryKinds
    <3> QED
      BY <1>a, <3>1
  <2> QED
    BY <2>1, <2>2 DEF TheList
<1>7. Cardinality(run.doc) >= session.announced
  BY SavesAll
<1>8. Keeping!Sound(run.doc)
  <2>1. Keeping!Clean(run.doc)
    BY <1>2 DEF RunClean, Keeping!Clean, Blocked
  <2>2. Keeping!Doubtful(run.doc) => IsConfirmed(session.gen, run.doc)
    BY <1>a, <1>2 DEF Keeping!Doubtful, NeedsReview, RunForm
  <2> QED
    BY <2>1, <2>2, AgreedIff DEF Keeping!Sound
<1>9. /\ Agreed' = Agreed /\ StageOf(session)' = "saved"
      /\ Document(session.rows)' = Document(session.rows)
  BY <1>1, <1>5 DEF Agreed, StageOf, Document, Items
<1>10. Keeping!Save
  <2> DEFINE D == {x \in Document(session.rows) : x < session.close}
  <2>1. D # {} /\ Cardinality(D) >= session.announced /\ Keeping!Sound(D) /\ session'.saved = D
    BY <1>1, <1>6, <1>7, <1>8
  <2>2. Keeping!Cardinality(D) = Cardinality(D)
    BY DEF Keeping!Cardinality, Cardinality
  <2> QED
    BY <1>1, <1>4, <1>5, <1>9, <2>1, <2>2 DEF Keeping!Save
<1> QED
  BY <1>10 DEF ListStep, Keeping!Next

-----------------------------------------------------------------------------
(***************************************************************************)
(* Every step is a step of the list, or none.                              *)
(***************************************************************************)
LEMMA WorkMoves ==
    ASSUME ListInv, NEW w \in Workers, Work(w)
    PROVE  ListStep
<1> DEFINE sn == job[w].snap
           e == job[w].event
<1>a. /\ IInv /\ TypeOK /\ JobForm /\ GateRight(job[w]) /\ session \in SessionType
      /\ sn \in ViewType /\ sn.gen \in Nat /\ e \in 0..N /\ session.gen \in Nat
  BY SnapFields, SessionFields DEF ListInv, IInv, TypeOK, GatesRight
<1>b. job[w].at \in Closing => e \in Messages /\ script[e] = "close"
  BY <1>a DEF JobForm, Closing, Kinds
<1>c. job[w].at \in Closing \ {"close"} => sn.gen \in 1..session.gen
  BY <1>a DEF GateRight
<1>1. CASE OpenFirst(w) \/ OpenNext(w)
  <2>1. e \in Messages /\ script[e] = "opener"
    BY <1>1, <1>a DEF OpenFirst, OpenNext, At, JobForm, Kinds
  <2>2. UNCHANGED <<script, shown, reviews>> /\ (Open(e) \/ session' = session)
    BY <1>1 DEF OpenFirst, OpenNext
  <2> HIDE DEF e
  <2> QED
    BY <1>a, <2>1, <2>2, OpenMoves, FieldUnseen
<1>2. CASE AppendOrDefer(w)
  <2>1. e \in Items /\ UNCHANGED <<script, shown, reviews>>
    BY <1>2, <1>a DEF AppendOrDefer, JobForm, Kinds, Items
  <2>2. \/ session' = session
        \/ Inside(session, e) /\ Accepts(session, e) /\ session' = Appended(session, {e})
    BY <1>2 DEF AppendOrDefer
  <2> HIDE DEF e
  <2> QED
    BY <1>a, <2>1, <2>2, GrowMoves, FieldUnseen DEF Inside
<1>3. CASE CloseNothing(w) \/ Stage(w)
  BY <1>3, Unlisted DEF CloseNothing, Stage
<1>4. CASE Gate(w)
  <2>1. /\ UNCHANGED <<script, session, shown>>
        /\ reviews' = reviews \/ reviews' = Recorded(sn.gen, Document(sn.rows), e)
    BY <1>4 DEF Gate
  <2> HIDE DEF sn, e
  <2> QED
    BY <2>1, Unlisted, RecordedUnseen, ReviewUnseen
<1>5. CASE Confirm(w)
  <2>1. /\ job[w].at \in Closing \ {"close"} /\ UNCHANGED <<script, session, shown>>
        /\ \/ reviews' = reviews
           \/ /\ Confirmable(sn.gen, Document(sn.rows), e)
              /\ reviews' = Confirmed(sn.gen, Document(sn.rows), e)
    BY <1>5 DEF Confirm, At, Closing
  <2>2. sn.gen \in 1..session.gen /\ e \in Messages /\ script[e] = "close"
    BY <1>b, <1>c, <2>1
  <2> HIDE DEF sn, e
  <2> QED
    BY <1>a, <2>1, <2>2, Unlisted, AgreeMoves
<1>6. CASE Refuse(w) \/ Resume(w)
  <2>1. /\ UNCHANGED <<script, shown, reviews>>
        /\ \/ session' = session
           \/ session' = [session EXCEPT !.attempt = "due"]
           \/ session' = [session EXCEPT !.refused = @ \/ session.close = None]
    BY <1>6 DEF Refuse, Resume
  <2> QED
    BY <1>a, <2>1, FieldUnseen
<1>7. CASE Reply(w)
  <2>1. /\ job[w].at \in Closing \ {"close"} /\ UNCHANGED <<script, session, reviews>>
        /\ shown' = shown \/ Show(sn.gen, Document(sn.rows), e)
    BY <1>7 DEF Reply, At, Closing
  <2>2. sn.gen \in 1..session.gen /\ e \in Messages /\ script[e] = "close"
    BY <1>b, <1>c, <2>1
  <2> HIDE DEF sn, e
  <2> QED
    BY <2>1, <2>2, Unlisted, ShowMoves
<1>8. CASE MarkPresented(w)
  <2>1. /\ UNCHANGED <<script, session, shown>>
        /\ reviews' = reviews \/ reviews' = Marked(sn.gen, Document(sn.rows), e)
    BY <1>8 DEF MarkPresented
  <2> HIDE DEF sn, e
  <2> QED
    BY <1>a, <2>1, Unlisted, MarkedUnseen, ReviewUnseen
<1>9. CASE AppendClose(w)
  <2>1. /\ job[w].at \in {"passed", "append"} /\ UNCHANGED <<script, shown, reviews>>
        /\ \/ session' = session
           \/ /\ Pinned(sn)
              /\ session' = [session EXCEPT !.rows = @ \cup {e}, !.close = e, !.attempt = "set",
                               !.announced = Announced[e]]
    BY <1>9 DEF AppendClose, Appending, At
  <2>2. /\ e \in Messages /\ script[e] = "close" /\ ~Blocked(Document(sn.rows))
        /\ NeedsReview(Document(sn.rows)) => IsConfirmed(sn.gen, Document(sn.rows))
    BY <1>a, <1>b, <2>1 DEF GateRight, Closing
  <2> HIDE DEF sn, e
  <2> QED
    BY <1>a, <2>1, <2>2, CloseMoves, FieldUnseen
<1> QED
  BY <1>1, <1>2, <1>3, <1>4, <1>5, <1>6, <1>7, <1>8, <1>9 DEF Work

LEMMA StepMoves ==
    ASSUME ListInv, Next
    PROVE  ListStep
<1>a. /\ IInv /\ TypeOK /\ SessionBegan /\ RunClean /\ RunForm /\ DeferredTruly
      /\ session \in SessionType /\ run \in RunType /\ run.snap.gen \in Nat /\ session.gen \in Nat
  BY SnapFields, SessionFields DEF ListInv, IInv, TypeOK, RunType
<1>1. ASSUME NEW w \in Workers,
             GateFails(w) \/ ReplyFails(w) \/ CallFails(w) \/ LoseLease(w) \/ Die(w)
               \/ \E e \in Messages : Take(w, e)
      PROVE  ListStep
  BY <1>1, Unlisted DEF GateFails, ReplyFails, CallFails, LoseLease, Die, Take
<1>2. CASE Queueing
  BY <1>1, <1>2, WorkMoves DEF Queueing
<1>3. ASSUME NEW e \in Messages, Deliver(e) \/ Expire(e) PROVE ListStep
  BY <1>3, Unlisted DEF Deliver, Expire
<1>4. ASSUME NEW e \in Messages, Resolve(e) PROVE ListStep
  <2>1. /\ e \in Items /\ UNCHANGED <<script, shown, reviews>>
        /\ \/ session' = session
           \/ Inside(session, e) /\ Accepts(session, e) /\ session' = Appended(session, {e})
    BY <1>4, <1>a DEF Resolve, DeferredTruly
  <2> QED
    BY <1>a, <2>1, GrowMoves, FieldUnseen DEF Inside
<1>5. CASE Fetch \/ Overtaken \/ Cut
  BY <1>5, Unlisted DEF Fetch, Overtaken, Cut, Rest
<1>6. CASE AttemptDue \/ DeadlinePasses \/ Defer \/ Hold
  <2>1. /\ UNCHANGED <<script, shown, reviews>>
        /\ \/ session' = session
           \/ session' = [session EXCEPT !.late = TRUE]
           \/ \E a \in {"none", "set", "due"} : session' = [session EXCEPT !.attempt = a]
    BY <1>6 DEF AttemptDue, DeadlinePasses, Defer, Hold, Rest
  <2> QED
    BY <1>a, <2>1, FieldUnseen
<1>7. CASE Validate
  <2>1. /\ UNCHANGED <<script, session, shown>>
        /\ reviews' = reviews \/ reviews' = Recorded(run.snap.gen, Loaded(run.snap), Token)
    BY <1>7 DEF Validate, Rest
  <2> QED
    BY <2>1, Unlisted, RecordedUnseen, ReviewUnseen
<1>8. CASE PushReview
  <2>1. Show(run.snap.gen, run.doc, Token) /\ UNCHANGED <<script, session, reviews>> /\ run.at = "push"
    BY <1>8 DEF PushReview, Rest
  <2>2. run.snap.gen \in 1..session.gen
    BY <1>a, <2>1 DEF RunClean, RunForm
  <2>3. Document(run.doc) = run.doc
    BY <1>a, <2>1 DEF RunClean, Judged, Document
  <2>4. Token \in Messages \cup {None} /\ Token = None
    BY DEF Token, None
  <2> QED
    BY <2>1, <2>2, <2>3, <2>4, ShowMoves
<1>9. CASE MarkPushed
  <2>1. UNCHANGED <<script, session, shown>> /\ reviews' = Marked(run.snap.gen, run.doc, Token)
    BY <1>9 DEF MarkPushed, Rest
  <2>2. Token \in 0..N
    BY Bounds DEF Token
  <2> QED
    BY <1>a, <2>1, <2>2, MarkedUnseen, ReviewUnseen
<1>10. CASE Save
  <2>1. /\ UNCHANGED <<script, shown, reviews>>
        /\ \/ session' = session
           \/ session' = [session EXCEPT !.attempt = "set"]
           \/ Live(session) /\ session' = Ended(session, "failed", {})
           \/ Saves /\ run.doc # {}
    BY <1>10 DEF Save, Rest, Saves, Current
  <2> QED
    BY <1>a, <2>1, FieldUnseen, EndMoves, SaveMoves
<1>11. CASE Duplicate \/ Sweep
  <2>1. /\ UNCHANGED <<script, shown, reviews>>
        /\ Live(session) /\ session' = Ended(session, "failed", {})
    BY <1>11 DEF Duplicate, Sweep, Rest, Current
  <2> QED
    BY <1>a, <2>1, EndMoves
<1> QED
  BY <1>2, <1>3, <1>4, <1>5, <1>6, <1>7, <1>8, <1>9, <1>10, <1>11 DEF Next, Arriving, Waiting, Finalize

(* A list has a number, and nothing saved before it is saved. *)
LEMMA BeganStays ==
    ASSUME ListInv, Next
    PROVE  SessionBegan'
<1> DEFINE stage == StageOf(session)
<1>a. /\ session \in SessionType /\ session' \in SessionType /\ session.gen \in Nat /\ SessionBegan
      /\ script' = script
  BY SessionCases, SessionFields, ReviewCases DEF ListInv, IInv, TypeOK, SessionOK
<1>1. /\ stage = "none" <=> session.gen = 0
      /\ stage # "saved" => session.saved = {}
  BY <1>a, StageFields DEF SessionBegan
<1>2. /\ stage' = "none" <=> session'.gen = 0
      /\ stage' # "saved" => session'.saved = {}
  <2>1. CASE UNCHANGED Keeping!vars
    BY <1>1, <2>1 DEF Keeping!vars, Keeping!list
  <2>2. CASE Keeping!Next
    <3> HIDE DEF stage
    <3> QED
      BY <1>a, <1>1, <2>2
      DEF stage, Keeping!Next, Keeping!Begin, Keeping!Close, Keeping!TakeIn, Keeping!Show,
          Keeping!Agree, Keeping!Save, Keeping!End, Keeping!list
  <2> QED
    BY <2>1, <2>2, StepMoves DEF ListStep
<1>3. stage' = StageOf(session')
  BY DEF StageOf
<1> QED
  BY <1>a, <1>2, <1>3, StageFields DEF SessionBegan

LEMMA InitListInv == Init => ListInv
<1> SUFFICES ASSUME Init PROVE ListInv
  OBVIOUS
<1>1. IInv
  BY InitIInv
<1>2. SessionBegan
  BY DEF Init, SessionBegan, NoSession
<1>3. GatesRight /\ RunClean
  BY NoJobFields, NoRunFields DEF Init, GatesRight, GateRight, RunClean, Judged, Closing
<1> QED
  BY <1>1, <1>2, <1>3 DEF ListInv

LEMMA NextKeepsListInv ==
    ASSUME ListInv, [Next]_vars
    PROVE  ListInv'
<1>1. CASE Next
  BY <1>1, NextKeepsIInv, BeganStays, GatesStay, RunStaysClean DEF ListInv
<1>2. CASE UNCHANGED vars
  <2>1. IInv'
    BY <1>2, StutterKeepsIInv DEF ListInv
  <2> QED
    BY <1>2, <2>1
    DEF vars, ListInv, SessionBegan, GatesRight, GateRight, RunClean, Judged, Same, Document, Items,
        Blocked, NeedsReview, IsConfirmed, Review
<1> QED
  BY <1>1, <1>2

(* The empty row keeps no list yet. *)
LEMMA ListBegins == Init => Keeping!Init
BY NoSessionFields
DEF Init, Keeping!Init, Keeping!Nobody, None, NoSession, StageOf, Agreed, Document

(* Workers, the gate, the sweeps and the finalizer keep the sender's lists *)
(* as ListKeeping promises: a list is closed on what could be saved, takes *)
(* no later item after that, and is saved whole as it was agreed to, in    *)
(* whatever order messages, reviews and runs of the finalizer meet.        *)
THEOREM CaptureKeepsLists == Spec => Refines
<1>1. ListInv /\ [Next]_vars => ListInv'
  BY NextKeepsListInv
<1>2. ListInv /\ [Next]_vars => [Keeping!Next]_Keeping!vars
  <2> SUFFICES ASSUME ListInv, [Next]_vars PROVE ListStep
    BY DEF ListStep
  <2>1. CASE UNCHANGED vars
    BY <2>1, Unlisted DEF vars
  <2> QED
    BY <2>1, StepMoves
<1>3. Keeping!Init /\ [][Keeping!Next]_Keeping!vars => Keeping!Spec
  BY DEF Keeping!Spec
<1>4. Spec => [][Keeping!Next]_Keeping!vars
  <2> HIDE DEF Keeping!Next, Keeping!vars
  <2> QED
    BY <1>1, <1>2, InitListInv, PTL DEF Spec
<1> QED
  BY <1>3, <1>4, ListBegins, PTL DEF Spec, Refines
=============================================================================
