-------------------------- MODULE SlipSummaryProofs --------------------------
(***************************************************************************)
(* Theorems about SlipSummary, for every set of images and finalizers and  *)
(* every choice of the bounds.                                             *)
(***************************************************************************)
EXTENDS SlipSummary, TLAPS

(* The states of a batch that a finalizer has claimed. *)
Final == {"processing", "completed", "review_needed", "failed"}

(* The history is there to be compared. *)
USE DEF history

(* The images a summary may count. *)
Good == Verified \cap attached

(* What LINE has shown or may still be handed counts no image outside S. *)
Tells(S) ==
    /\ \A n \in 1..Len(chat) : chat[n].counted \subseteq S
    /\ \A f \in Finalizers : wire[f] # NoMessage => wire[f].counted \subseteq S

(* It is nothing, or nothing but the summary m. *)
Silent == chat = <<>> /\ \A f \in Finalizers : wire[f] = NoMessage
Says(m) ==
    /\ \A n \in 1..Len(chat) : chat[n] = m
    /\ \A f \in Finalizers : wire[f] # NoMessage => wire[f] = m

(* A finalizer reads the batch. *)
Loads(f) == \E flagged \in SUBSET Verified : Load(f, flagged)

-----------------------------------------------------------------------------
(***************************************************************************)
(* The inductive invariant, by parts.                                      *)
(***************************************************************************)
(* A correction holds a check that has been read. *)
HeldIsRead == \A i \in held : check[i].state \in Results

(* Only an open session is being cancelled. *)
CancelIsEarly == cancelling => status = "collecting"

(* A summary, or the work on one, is only there once the batch is claimed. *)
WorkIsLate ==
    sent \/ chat # <<>> \/ (\E f \in Finalizers : InFlight(f) \/ wire[f] # NoMessage)
        => status \in Final

(* A finalizer counts, and hands to LINE, verified images of the batch. *)
CountsGood ==
    /\ \A f \in Finalizers : fin[f].seen # NoMessage => fin[f].seen.counted \subseteq Good
    /\ Tells(Good)

(* A finalizer without a run has nothing in hand. *)
RunForm ==
    \A f \in Finalizers :
        /\ fin[f].at = "idle" => fin[f] = NoRun
        /\ fin[f].kind = "none" => fin[f].at = "idle"

(* A key is forgotten only when nobody is left to send again. *)
ForgottenForGood ==
    ~known /\ chat # <<>> =>
        ~window /\ \A f \in Finalizers : fin[f] = NoRun /\ wire[f] = NoMessage

(* The row was stamped when a run of the cron claimed it, or later. *)
ClaimIsFresh ==
    \A f \in Finalizers : InFlight(f) /\ fin[f].kind # "admin" => rest <= fin[f].age

(* Finalizers run beside each other only with an administrator's. *)
Alone ==
    ~beside => \A f, g \in Finalizers : InFlight(f) /\ InFlight(g) => f = g

(* ... and an outcome is stored by the last of them. *)
LastWord == ~beside /\ sent => \A f \in Finalizers : ~InFlight(f)

(* As long as nobody counts again, nothing is told before a finalizer's    *)
(* push and nothing else after it, and what is stored is what was told.    *)
OneCount ==
    ~beside /\ ~recounted =>
        /\ \A f \in Finalizers :
              /\ fin[f].at \in {"claimed", "loaded"} => Silent
              /\ fin[f].at \in {"pushing", "delivered", "refused"} => Says(fin[f].seen)
        /\ sent => \E m \in Messages : Says(m) /\ stored = m.counted /\ status = Outcome(m)

ReadInv == HeldIsRead /\ CancelIsEarly /\ ResultOfNewestClaim /\ CancelledCountsNothing
SendInv == RunForm /\ WorkIsLate /\ CountsGood
IInv == TypeOK /\ ReadInv /\ SendInv /\ OneSummary /\ ForgottenForGood
            /\ ClaimIsFresh /\ Alone /\ LastWord /\ OneCount

-----------------------------------------------------------------------------
(***************************************************************************)
(* Steps.                                                                  *)
(***************************************************************************)
LEMMA Bounds ==
    /\ MaxClaims \in Nat /\ MaxFaults \in Nat /\ MaxDuration \in Nat /\ StaleAge \in Nat
    /\ MaxDuration < StaleAge
BY BoundAssumption, DurationAssumption

(* The initial states satisfy the invariant. *)
LEMMA InitIInv == Init => IInv
<1> SUFFICES ASSUME Init PROVE IInv
  OBVIOUS
<1> USE DEF Init
<1>1. TypeOK
  <2>1. NoRun \in RunType /\ NoCheck \in CheckType
    BY Bounds DEF NoRun, RunType, NoCheck, CheckType, Tokens
  <2>2. fin \in [Finalizers -> RunType] /\ check \in [Images -> CheckType]
    BY <2>1
  <2>3. \A f \in Finalizers : fin[f].seen = NoMessage /\ fin[f].at = "idle"
    BY DEF NoRun
  <2>4. chat \in Seq(Messages)
    OBVIOUS
  <2>5. 0 \in 0..StaleAge /\ 0 \in 0..MaxFaults
    BY Bounds
  <2> QED
    BY <2>2, <2>3, <2>4, <2>5 DEF TypeOK, OpenStates
<1>2. ReadInv
  BY DEF ReadInv, HeldIsRead, CancelIsEarly, ResultOfNewestClaim, CancelledCountsNothing, NoCheck
<1>3. SendInv
  <2>1. RunForm
    BY DEF RunForm, NoRun
  <2>2. WorkIsLate
    BY DEF WorkIsLate, InFlight, NoRun
  <2>3. CountsGood
    BY DEF CountsGood, Tells, NoRun
  <2> QED
    BY <2>1, <2>2, <2>3 DEF SendInv
<1>4. OneSummary /\ ForgottenForGood /\ Alone
  BY DEF OneSummary, ForgottenForGood, Alone, InFlight, NoRun
<1>5. ClaimIsFresh /\ LastWord /\ OneCount
  BY DEF ClaimIsFresh, LastWord, OneCount, InFlight, NoRun
<1> QED
  BY <1>1, <1>2, <1>3, <1>4, <1>5 DEF IInv

(* A step of the session or of a check leaves the finalizers alone.  Once  *)
(* the batch is claimed it changes neither its state nor its images, and   *)
(* takes no image from the verified ones.                                  *)
LEMMA SlipStep ==
    ASSUME TypeOK, ReadInv, Collecting \/ Reading
    PROVE  /\ UNCHANGED <<sent, stored, rest, window, fin, line, history, faults>>
           /\ status \in Final => status' = status /\ attached' = attached /\ Verified \subseteq Verified'
           /\ status \notin Final => status' \notin Final
           /\ attached \subseteq attached'
<1> DEFINE Goal ==
      /\ UNCHANGED <<sent, stored, rest, window, fin, line, history, faults>>
      /\ status \in Final => status' = status /\ attached' = attached /\ Verified \subseteq Verified'
      /\ status \notin Final => status' \notin Final
      /\ attached \subseteq attached'
<1> USE DEF TypeOK, ReadInv, HeldIsRead, CancelIsEarly, OpenStates, Final
<1>1. ASSUME Close PROVE Goal
  BY <1>1 DEF Close, slips, Verified
<1>2. ASSUME BeginCancel PROVE Goal
  BY <1>2 DEF BeginCancel, Cancellable, Verified, batch
<1>3. ASSUME Cancel PROVE Goal
  BY <1>3 DEF Cancel, Verified
<1>4. ASSUME NEW i \in Images, Attach(i) PROVE Goal
  BY <1>4 DEF Attach, Verified, batch
<1>5. ASSUME NEW i \in Images, Claim(i) PROVE Goal
  BY <1>5 DEF Claim, Claimable, Verified, batch, CheckType
<1>6. ASSUME NEW i \in Images, LeaseEnds(i) PROVE Goal
  BY <1>6 DEF LeaseEnds, Verified, batch, CheckType
<1>7. ASSUME NEW i \in Images, BeginCorrect(i) PROVE Goal
  BY <1>7 DEF BeginCorrect, Verified, batch, CheckType
<1>8. ASSUME NEW i \in Images, NEW token \in Tokens, NEW result \in Results \cup {"FAILED"},
             Answer(i, token, result)
      PROVE  Goal
  BY <1>8 DEF Answer, Takes, Current, Verified, batch, CheckType
<1>9. ASSUME NEW i \in Images, NEW state \in Results, Correct(i, state) PROVE Goal
  BY <1>9 DEF Correct, Write, Guarded, Unlocked, Verified, batch, CheckType, Results
<1> QED
  BY <1>1, <1>2, <1>3, <1>4, <1>5, <1>6, <1>7, <1>8, <1>9 DEF Collecting, Reading

(* A check whose lease ended is the same check. *)
LEMMA UnleasedFields ==
    ASSUME NEW r \in CheckType
    PROVE  /\ [r EXCEPT !.leased = FALSE] \in CheckType
           /\ [r EXCEPT !.leased = FALSE].state = r.state
           /\ [r EXCEPT !.leased = FALSE].by = r.by
           /\ [r EXCEPT !.leased = FALSE].token = r.token
BY DEF CheckType

LEMMA DeverifiedFields ==
    ASSUME NEW r \in CheckType
    PROVE  /\ [r EXCEPT !.state = "NEED_REVIEW"].state = "NEED_REVIEW"
           /\ [r EXCEPT !.state = "NEED_REVIEW"].by = r.by
           /\ [r EXCEPT !.state = "NEED_REVIEW"].token = r.token
BY DEF CheckType

(* ... and keeps the invariant of the checks. *)
LEMMA SlipKeepsReadInv ==
    ASSUME TypeOK, ReadInv, Collecting \/ Reading
    PROVE  ReadInv' /\ attached' \subseteq Images /\ held' \subseteq Images
             /\ check' \in [Images -> CheckType] /\ jobs' \subseteq Images \X Tokens
             /\ cancelling' \in BOOLEAN /\ status' \in OpenStates \cup Final \cup {"cancelled"}
<1> DEFINE Goal ==
      ReadInv' /\ attached' \subseteq Images /\ held' \subseteq Images
             /\ check' \in [Images -> CheckType] /\ jobs' \subseteq Images \X Tokens
             /\ cancelling' \in BOOLEAN /\ status' \in OpenStates \cup Final \cup {"cancelled"}
<1> USE DEF TypeOK, ReadInv, HeldIsRead, CancelIsEarly, ResultOfNewestClaim,
            CancelledCountsNothing, OpenStates, Final, Verified
<1>0. MaxClaims \in Nat
  BY Bounds
<1>1. ASSUME Close PROVE Goal
  BY <1>1 DEF Close, slips, Unlocked
<1>2. ASSUME BeginCancel PROVE Goal
  BY <1>2 DEF BeginCancel, Cancellable, batch
<1>3. ASSUME Cancel PROVE Goal
  <2>1. /\ status' = "cancelled" /\ cancelling' = FALSE
        /\ UNCHANGED <<attached, jobs, held>>
        /\ held \cap Verified = {}
    BY <1>3 DEF Cancel
  <2>2. \A i \in Images :
            \/ check'[i] = check[i] /\ ~(check[i].state = "VERIFIED" /\ i \in attached)
            \/ /\ check[i].state = "VERIFIED" /\ i \in attached
               /\ check'[i] = [check[i] EXCEPT !.state = "NEED_REVIEW"]
    BY <1>3 DEF Cancel, Deverified
  <2>3. check' \in [Images -> CheckType]
    BY <1>3 DEF Cancel, Deverified, CheckType
  <2>4. \A i \in Images : check'[i].by = check[i].by /\ check'[i].token = check[i].token
    BY <2>2, DeverifiedFields
  <2>5. \A i \in Images :
            /\ check'[i].state = "VERIFIED" => i \notin attached
            /\ check'[i].state = check[i].state
                \/ (check[i].state = "VERIFIED" /\ check'[i].state = "NEED_REVIEW")
    <3> TAKE i \in Images
    <3>1. check[i] \in CheckType
      OBVIOUS
    <3>2. CASE check'[i] = [check[i] EXCEPT !.state = "NEED_REVIEW"] /\ check[i].state = "VERIFIED" /\ i \in attached
      BY <3>1, <3>2, DeverifiedFields
    <3>3. CASE check'[i] = check[i] /\ ~(check[i].state = "VERIFIED" /\ i \in attached)
      BY <3>3
    <3> QED
      BY <2>2, <3>2, <3>3
  <2>6. ResultOfNewestClaim'
    BY <2>4, <2>5
  <2>7. HeldIsRead'
    BY <2>1, <2>5 DEF Results
  <2>8. CancelledCountsNothing' /\ CancelIsEarly'
    BY <2>1, <2>5
  <2> QED
    BY <2>1, <2>3, <2>6, <2>7, <2>8
<1>4. ASSUME NEW i \in Images, Attach(i) PROVE Goal
  BY <1>4 DEF Attach, batch
<1>5. ASSUME NEW i \in Images, Claim(i) PROVE Goal
  BY <1>0, <1>5 DEF Claim, Claimable, batch, CheckType, Results, Tokens
<1>6. ASSUME NEW i \in Images, LeaseEnds(i) PROVE Goal
  <2>1. check' = [check EXCEPT ![i].leased = FALSE] /\ UNCHANGED <<batch, attached, jobs, cancelling, held>>
    BY <1>6 DEF LeaseEnds
  <2>2. \A x \in Images : check'[x] = check[x] \/ check'[x] = [check[x] EXCEPT !.leased = FALSE]
    BY <2>1
  <2>3. \A x \in Images : /\ check'[x] \in CheckType
                          /\ check'[x].state = check[x].state /\ check'[x].by = check[x].by
                          /\ check'[x].token = check[x].token
    <3> TAKE x \in Images
    <3>1. check[x] \in CheckType
      OBVIOUS
    <3>2. CASE check'[x] = [check[x] EXCEPT !.leased = FALSE]
      BY <3>1, <3>2, UnleasedFields
    <3>3. CASE check'[x] = check[x]
      BY <3>1, <3>3
    <3> QED
      BY <2>2, <3>2, <3>3
  <2>4. check' \in [Images -> CheckType]
    BY <2>1, <2>3
  <2> QED
    BY <2>1, <2>3, <2>4 DEF batch
<1>7. ASSUME NEW i \in Images, BeginCorrect(i) PROVE Goal
  BY <1>7 DEF BeginCorrect, batch, CheckType, Results
<1>8. ASSUME NEW i \in Images, NEW token \in Tokens, NEW result \in Results \cup {"FAILED"},
             Answer(i, token, result)
      PROVE  Goal
  BY <1>8 DEF Answer, Takes, Current, batch, CheckType, Results
<1>9. ASSUME NEW i \in Images, NEW state \in Results, Correct(i, state) PROVE Goal
  BY <1>9 DEF Correct, Write, Guarded, Unlocked, batch, CheckType, Results
<1> QED
  BY <1>1, <1>2, <1>3, <1>4, <1>5, <1>6, <1>7, <1>8, <1>9 DEF Collecting, Reading

-----------------------------------------------------------------------------
(***************************************************************************)
(* The finalizers.                                                         *)
(***************************************************************************)
(* A finalizer's step is its own. *)
LEMMA RunFields ==
    ASSUME TypeOK, NEW f \in Finalizers, NEW r, Run(f, r)
    PROVE  /\ fin'[f] = r
           /\ \A g \in Finalizers \ {f} : fin'[g] = fin[g]
           /\ r \in RunType => fin' \in [Finalizers -> RunType]
BY DEF TypeOK, Run

LEMMA NoRunFields ==
    /\ NoRun \in RunType
    /\ NoRun.at = "idle" /\ NoRun.kind = "none" /\ NoRun.age = 0 /\ NoRun.seen = NoMessage
BY Bounds DEF NoRun, RunType

(* What a run may become without losing what it holds. *)
LEMMA RunTypeFields ==
    ASSUME NEW r \in RunType
    PROVE  /\ r.kind \in {"none", "cron", "sweep", "admin"} /\ r.age \in 0..MaxDuration
           /\ r.seen \in Messages \cup {NoMessage}
           /\ \A a \in {"claimed", "loaded", "pushing", "delivered", "refused"} :
                /\ [r EXCEPT !.at = a] \in RunType
                /\ [r EXCEPT !.at = a].at = a
                /\ [r EXCEPT !.at = a].kind = r.kind
                /\ [r EXCEPT !.at = a].age = r.age
                /\ [r EXCEPT !.at = a].seen = r.seen
BY DEF RunType

LEMMA RunWithSeen ==
    ASSUME NEW r \in RunType, NEW m \in Messages, NEW a \in {"loaded", "pushing"}
    PROVE  LET u == [r EXCEPT !.at = a, !.seen = m]
           IN  u \in RunType /\ u.at = a /\ u.kind = r.kind /\ u.age = r.age /\ u.seen = m
BY DEF RunType

(* What each step of a finalizer makes of its run. *)
Entered(f, kind) ==
    /\ status' \in Final /\ ~sent /\ UNCHANGED <<sent, stored, line>>
    /\ ~InFlight(f)
    /\ fin'[f].at = "claimed" /\ fin'[f].kind = kind /\ fin'[f].seen = NoMessage
    /\ fin'[f].age = fin[f].age
    /\ beside' = (beside \/ \E g \in Finalizers \ {f} :
                                InFlight(g) /\ "admin" \in {kind, fin[g].kind})
    /\ recounted' = (recounted \/ chat # <<>> \/ \E g \in Finalizers : wire[g] # NoMessage)

LEMMA EnterEffect ==
    ASSUME TypeOK, SendInv, NEW f \in Finalizers, ClaimOpen(f) \/ Lease(f) \/ Recover(f)
    PROVE  /\ fin' \in [Finalizers -> RunType]
           /\ \A g \in Finalizers \ {f} : fin'[g] = fin[g]
           /\ \/ ClaimOpen(f) /\ Entered(f, "cron") /\ rest' = 0 /\ status \in OpenStates
              \/ Lease(f) /\ Entered(f, "sweep") /\ rest' = 0 /\ rest >= StaleAge
              \/ Recover(f) /\ Entered(f, "admin") /\ rest' = rest /\ window
           /\ UNCHANGED <<window, slips, faults>>
<1>1. \A kind \in {"cron", "sweep", "admin"} :
          /\ [fin[f] EXCEPT !.at = "claimed", !.kind = kind] \in RunType
          /\ [fin[f] EXCEPT !.at = "claimed", !.kind = kind].at = "claimed"
          /\ [fin[f] EXCEPT !.at = "claimed", !.kind = kind].kind = kind
          /\ [fin[f] EXCEPT !.at = "claimed", !.kind = kind].age = fin[f].age
          /\ [fin[f] EXCEPT !.at = "claimed", !.kind = kind].seen = fin[f].seen
  <2>1. fin[f] \in RunType
    BY DEF TypeOK
  <2> QED
    BY <2>1 DEF RunType
<1>2. fin[f].at \in {"idle", "due"} => fin[f].seen = NoMessage /\ ~InFlight(f)
  BY DEF TypeOK, InFlight
<1>3. CASE ClaimOpen(f)
  <2>1. Enter(f, "cron") /\ fin[f] = NoRun /\ status' = "processing" /\ rest' = 0 /\ status \in OpenStates
    BY <1>3 DEF ClaimOpen, Touch
  <2>2. ~sent
    BY <2>1 DEF SendInv, WorkIsLate, OpenStates, Final
  <2>3. UNCHANGED <<sent, stored, window, slips, line, faults>>
    BY <1>3 DEF ClaimOpen
  <2>4. /\ fin'[f] = [fin[f] EXCEPT !.at = "claimed", !.kind = "cron"]
        /\ \A g \in Finalizers \ {f} : fin'[g] = fin[g]
        /\ fin' \in [Finalizers -> RunType]
    BY <1>1, <2>1, RunFields DEF Enter
  <2>5. ~InFlight(f)
    BY <1>2, <2>1, NoRunFields
  <2>6. fin[f].seen = NoMessage
    BY <2>1, NoRunFields
  <2>7. Entered(f, "cron")
    BY <1>1, <2>1, <2>2, <2>3, <2>4, <2>5, <2>6 DEF Entered, Enter, Final
  <2> QED
    BY <1>3, <2>1, <2>3, <2>4, <2>7
<1>4. CASE Lease(f)
  <2>1. Enter(f, "sweep") /\ fin[f].at = "due" /\ status' = "processing" /\ rest' = 0 /\ ~sent /\ rest >= StaleAge
    BY <1>4 DEF Lease, Touch, Leasable
  <2>2. UNCHANGED <<sent, stored, window, slips, line, faults>>
    BY <1>4 DEF Lease
  <2>3. /\ fin'[f] = [fin[f] EXCEPT !.at = "claimed", !.kind = "sweep"]
        /\ \A g \in Finalizers \ {f} : fin'[g] = fin[g]
        /\ fin' \in [Finalizers -> RunType]
    BY <1>1, <2>1, RunFields DEF Enter
  <2>4. Entered(f, "sweep")
    BY <1>1, <1>2, <2>1, <2>2, <2>3 DEF Entered, Enter, Final
  <2> QED
    BY <1>4, <2>1, <2>2, <2>3, <2>4
<1>5. CASE Recover(f)
  <2>1. Enter(f, "admin") /\ fin[f] = NoRun /\ status' \in Final /\ rest' = rest /\ ~sent /\ window
    BY <1>5 DEF Recover, Recoverable, batch, Final
  <2> QED
    BY <1>1, <1>2, <1>5, <2>1, RunFields, NoRunFields DEF Recover, Enter, Entered, batch
<1> QED
  BY <1>3, <1>4, <1>5

(* A run ends with nothing handed over or stored. *)
LEMMA StopEffect ==
    ASSUME TypeOK, NEW f \in Finalizers, Stop(f)
    PROVE  fin' \in [Finalizers -> RunType] /\ fin'[f] = NoRun
             /\ \A g \in Finalizers \ {f} : fin'[g] = fin[g]
BY RunFields, NoRunFields DEF Stop

LEMMA FetchEffect ==
    ASSUME TypeOK, NEW f \in Finalizers, FetchStale(f)
    PROVE  /\ fin' \in [Finalizers -> RunType] /\ \A g \in Finalizers \ {f} : fin'[g] = fin[g]
           /\ fin[f] = NoRun /\ fin'[f].at = "due" /\ fin'[f].kind = "sweep"
           /\ fin'[f].age = 0 /\ fin'[f].seen = NoMessage
           /\ window /\ UNCHANGED <<batch, slips, line, history, faults>>
<1> DEFINE r == [NoRun EXCEPT !.at = "due", !.kind = "sweep"]
<1>1. r \in RunType /\ r.at = "due" /\ r.kind = "sweep" /\ r.age = 0 /\ r.seen = NoMessage
  <2>1. \A x \in RunType :
           LET y == [x EXCEPT !.at = "due", !.kind = "sweep"]
           IN  y \in RunType /\ y.at = "due" /\ y.kind = "sweep" /\ y.age = x.age /\ y.seen = x.seen
    BY DEF RunType
  <2> QED
    BY <2>1, NoRunFields
<1>2. Run(f, r) /\ fin[f] = NoRun /\ window /\ UNCHANGED <<batch, slips, line, history, faults>>
  BY DEF FetchStale, Stale
<1> HIDE DEF r
<1> QED
  BY <1>1, <1>2, RunFields

LEMMA LoadEffect ==
    ASSUME TypeOK, NEW f \in Finalizers, Loads(f)
    PROVE  /\ fin' \in [Finalizers -> RunType] /\ \A g \in Finalizers \ {f} : fin'[g] = fin[g]
           /\ fin[f].at = "claimed"
           /\ \/ sent /\ fin'[f] = NoRun
              \/ /\ ~sent /\ fin'[f].at = "loaded" /\ fin'[f].kind = fin[f].kind
                 /\ fin'[f].age = fin[f].age
                 /\ fin'[f].seen \in Messages /\ fin'[f].seen.counted \subseteq Good
           /\ UNCHANGED <<batch, slips, line, history, faults>>
<1>0. PICK flagged \in SUBSET Verified : Load(f, flagged)
  BY DEF Loads
<1> DEFINE m == [counted |-> Counted(flagged), missing |-> FALSE]
           r == [fin[f] EXCEPT !.at = "loaded", !.seen = m]
<1>1. m \in Messages /\ m.counted \subseteq Good
  BY DEF TypeOK, Messages, Good, Counted
<1>2. r \in RunType /\ r.at = "loaded" /\ r.kind = fin[f].kind /\ r.age = fin[f].age /\ r.seen = m
  <2> HIDE DEF m
  <2>1. fin[f] \in RunType
    BY DEF TypeOK
  <2> QED
    BY <1>1, <2>1, RunWithSeen
<1>3. fin[f].at = "claimed" /\ UNCHANGED <<batch, slips, line, history, faults>>
  BY <1>0 DEF Load
<1>4. \/ sent /\ Stop(f)
      \/ ~sent /\ Run(f, r)
  BY <1>0 DEF Load
<1> HIDE DEF r, m
<1> QED
  BY <1>1, <1>2, <1>3, <1>4, RunFields, StopEffect

LEMMA PushEffect ==
    ASSUME TypeOK, NEW f \in Finalizers, NEW missing \in BOOLEAN, Push(f, missing)
    PROVE  /\ fin' \in [Finalizers -> RunType] /\ \A g \in Finalizers \ {f} : fin'[g] = fin[g]
           /\ fin[f].at = "loaded" /\ fin'[f].at = "pushing" /\ fin'[f].kind = fin[f].kind
           /\ fin'[f].age = fin[f].age
           /\ fin'[f].seen \in Messages /\ fin'[f].seen.counted = fin[f].seen.counted
           /\ fin[f].seen \in Messages
           /\ wire' \in [Finalizers -> Messages \cup {NoMessage}] /\ wire'[f] = fin'[f].seen
           /\ \A g \in Finalizers \ {f} : wire'[g] = wire[g]
           /\ UNCHANGED <<batch, slips, known, chat, history, faults>>
<1> DEFINE m == [fin[f].seen EXCEPT !.missing = missing]
           r == [fin[f] EXCEPT !.at = "pushing", !.seen = m]
<1>1. fin[f].seen \in Messages
  BY DEF TypeOK, RunType, Push
<1>2. m \in Messages /\ m.counted = fin[f].seen.counted
  BY <1>1 DEF Messages
<1>3. r \in RunType /\ r.at = "pushing" /\ r.kind = fin[f].kind /\ r.age = fin[f].age /\ r.seen = m
  <2> HIDE DEF m
  <2>1. fin[f] \in RunType
    BY DEF TypeOK
  <2> QED
    BY <1>2, <2>1, RunWithSeen
<1>4. /\ fin[f].at = "loaded" /\ Run(f, r) /\ wire' = [wire EXCEPT ![f] = fin'[f].seen]
      /\ UNCHANGED <<batch, slips, known, chat, history, faults>>
  BY DEF Push, TypeOK, RunType
<1> HIDE DEF r, m
<1>5. fin'[f].seen = m
  BY <1>3, <1>4, RunFields
<1> QED
  BY <1>1, <1>2, <1>3, <1>4, <1>5, RunFields DEF TypeOK

LEMMA AcceptEffect ==
    ASSUME TypeOK, NEW f \in Finalizers, Accept(f)
    PROVE  /\ fin' \in [Finalizers -> RunType] /\ \A g \in Finalizers \ {f} : fin'[g] = fin[g]
           /\ \/ fin'[f] = fin[f]
              \/ /\ fin[f].at = "pushing" /\ fin'[f].at = "delivered"
                 /\ fin'[f].kind = fin[f].kind /\ fin'[f].age = fin[f].age
                 /\ fin'[f].seen = fin[f].seen
           /\ wire[f] \in Messages
           /\ wire' \in [Finalizers -> Messages \cup {NoMessage}] /\ wire'[f] = NoMessage
           /\ \A g \in Finalizers \ {f} : wire'[g] = wire[g]
           /\ known'
           /\ IF known THEN chat' = chat ELSE chat' = Append(chat, wire[f])
           /\ UNCHANGED <<batch, slips, history, faults>>
<1> DEFINE r == [fin[f] EXCEPT !.at = "delivered"]
<1>1. fin[f] \in RunType
  BY DEF TypeOK
<1>2. r \in RunType /\ r.at = "delivered" /\ r.kind = fin[f].kind /\ r.age = fin[f].age /\ r.seen = fin[f].seen
  BY <1>1, RunTypeFields
<1> HIDE DEF r
<1>3. \/ fin' = fin
      \/ fin[f].at = "pushing" /\ Run(f, r)
  BY DEF Accept, r
<1>4. /\ wire[f] # NoMessage /\ wire' = [wire EXCEPT ![f] = NoMessage]
      /\ known' /\ chat' = (IF known THEN chat ELSE Append(chat, wire[f]))
      /\ UNCHANGED <<batch, slips, history, faults>>
  BY DEF Accept
<1> QED
  BY <1>2, <1>3, <1>4, RunFields DEF TypeOK

LEMMA RefuseEffect ==
    ASSUME TypeOK, NEW f \in Finalizers, Refuse(f)
    PROVE  /\ fin' \in [Finalizers -> RunType] /\ \A g \in Finalizers \ {f} : fin'[g] = fin[g]
           /\ \/ fin'[f] = NoRun
              \/ /\ fin[f].at = "pushing" /\ fin'[f].at = "refused"
                 /\ fin'[f].kind = fin[f].kind /\ fin'[f].age = fin[f].age
                 /\ fin'[f].seen = fin[f].seen
           /\ fin[f].at = "pushing" /\ wire[f] # NoMessage
           /\ wire' \in [Finalizers -> Messages \cup {NoMessage}] /\ wire'[f] = NoMessage
           /\ \A g \in Finalizers \ {f} : wire'[g] = wire[g]
           /\ UNCHANGED <<batch, slips, known, chat, history, faults>>
<1> DEFINE r == [fin[f] EXCEPT !.at = "refused"]
<1>1. fin[f] \in RunType
  BY DEF TypeOK
<1>2. r \in RunType /\ r.at = "refused" /\ r.kind = fin[f].kind /\ r.age = fin[f].age /\ r.seen = fin[f].seen
  BY <1>1, RunTypeFields
<1> HIDE DEF r
<1>3. Stop(f) \/ Run(f, r)
  BY DEF Refuse, r
<1>4. /\ fin[f].at = "pushing" /\ wire[f] # NoMessage /\ wire' = [wire EXCEPT ![f] = NoMessage]
      /\ UNCHANGED <<batch, slips, known, chat, history, faults>>
  BY DEF Refuse
<1> QED
  BY <1>2, <1>3, <1>4, RunFields, StopEffect DEF TypeOK

(* Time only makes the runs of the cron older. *)
LEMMA TickEffect ==
    ASSUME TypeOK, Tick
    PROVE  /\ fin' \in [Finalizers -> RunType]
           /\ \A f \in Finalizers :
                \/ fin[f].kind \notin {"cron", "sweep"} /\ fin'[f] = fin[f]
                \/ /\ fin[f].kind \in {"cron", "sweep"} /\ fin'[f].age = fin[f].age + 1
                   /\ fin'[f].at = fin[f].at /\ fin'[f].kind = fin[f].kind
                   /\ fin'[f].seen = fin[f].seen
           /\ rest' = rest + 1 /\ rest' \in 0..StaleAge
           /\ UNCHANGED <<status, sent, stored, window, slips, line, history, faults>>
<1>1. \A f \in Finalizers :
          /\ fin[f] \in RunType
          /\ fin[f].kind \in {"cron", "sweep"} =>
                [fin[f] EXCEPT !.age = @ + 1] \in RunType
  BY Bounds DEF Tick, TypeOK, RunType
<1>2. fin' = [f \in Finalizers |-> IF fin[f].kind \in {"cron", "sweep"}
                                   THEN [fin[f] EXCEPT !.age = @ + 1] ELSE fin[f]]
  BY DEF Tick
<1>3. rest' = rest + 1 /\ rest' \in 0..StaleAge
        /\ UNCHANGED <<status, sent, stored, window, slips, line, history, faults>>
  BY Bounds DEF Tick, TypeOK
<1>4. fin' \in [Finalizers -> RunType]
  BY <1>1, <1>2
<1>5. \A f \in Finalizers :
         \/ fin[f].kind \notin {"cron", "sweep"} /\ fin'[f] = fin[f]
         \/ /\ fin[f].kind \in {"cron", "sweep"} /\ fin'[f].age = fin[f].age + 1
            /\ fin'[f].at = fin[f].at /\ fin'[f].kind = fin[f].kind
            /\ fin'[f].seen = fin[f].seen
  BY <1>1, <1>2 DEF RunType
<1> QED
  BY <1>3, <1>4, <1>5

-----------------------------------------------------------------------------
(***************************************************************************)
(* What the finalizers' steps keep.                                        *)
(***************************************************************************)
(* Tells of the next state. *)
TellsNext(S) ==
    /\ \A n \in 1..Len(chat') : chat'[n].counted \subseteq S
    /\ \A f \in Finalizers : wire'[f] # NoMessage => wire'[f].counted \subseteq S

Unsent == \A f \in Finalizers : wire'[f] = wire[f] \/ wire'[f] = NoMessage

(* Nothing is told anew when pushes are dropped, ... *)
LEMMA DroppedTells ==
    ASSUME chat' = chat, Unsent
    PROVE  \A S : Tells(S) => TellsNext(S)
BY DEF Tells, TellsNext, Unsent

(* ... when LINE takes one in, ... *)
LEMMA AcceptedTells ==
    ASSUME TypeOK, NEW f \in Finalizers, Accept(f)
    PROVE  \A S : Tells(S) => TellsNext(S)
<1> SUFFICES ASSUME NEW S, Tells(S) PROVE TellsNext(S)
  OBVIOUS
<1>1. wire[f] \in Messages /\ wire[f] # NoMessage /\ chat \in Seq(Messages)
  BY AcceptEffect, NullAssumption DEF TypeOK
<1>2. chat' = chat \/ chat' = Append(chat, wire[f])
  BY AcceptEffect
<1>3. \A g \in Finalizers : wire'[g] = wire[g] \/ wire'[g] = NoMessage
  BY AcceptEffect
<1>4. wire[f].counted \subseteq S
  BY <1>1 DEF Tells
<1>5. \A n \in 1..Len(chat') : chat'[n] = wire[f] \/ (n \in 1..Len(chat) /\ chat'[n] = chat[n])
  <2>1. CASE chat' = chat
    BY <2>1
  <2>2. CASE chat' = Append(chat, wire[f])
    BY <1>1, <2>2
  <2> QED
    BY <1>2, <2>1, <2>2
<1> QED
  BY <1>3, <1>4, <1>5 DEF Tells, TellsNext

(* ... or when one is made that counts no more. *)
LEMMA PushedTells ==
    ASSUME TypeOK, NEW f \in Finalizers, NEW missing \in BOOLEAN, Push(f, missing)
    PROVE  \A S : Tells(S) /\ fin[f].seen.counted \subseteq S => TellsNext(S)
<1>1. chat' = chat /\ wire'[f].counted = fin[f].seen.counted
        /\ \A g \in Finalizers \ {f} : wire'[g] = wire[g]
  BY PushEffect
<1> QED
  BY <1>1 DEF Tells, TellsNext

(* Whatever a finalizer does but store the outcome, park or claim, the row *)
(* keeps its state; it is claimed in any case, or the step is time's.      *)
LEMMA RowEffect ==
    ASSUME IInv, Finalizing \/ Tick \/ WindowEnds \/ Forget
    PROVE  /\ UNCHANGED slips
           /\ \/ status' = status
              \/ status' \in Final /\ ~cancelling
           /\ status \in Final => status' \in Final
           /\ status' \in OpenStates \cup Final \cup {"cancelled"}
<1> DEFINE Goal ==
      /\ UNCHANGED slips
      /\ \/ status' = status
         \/ status' \in Final /\ ~cancelling
      /\ status \in Final => status' \in Final
      /\ status' \in OpenStates \cup Final \cup {"cancelled"}
<1> SUFFICES Goal
  OBVIOUS
<1> USE DEF IInv, TypeOK, ReadInv, CancelIsEarly, OpenStates, Final
<1>0. status \in OpenStates \cup Final \cup {"cancelled"}
  OBVIOUS
<1>1. ASSUME NEW f \in Finalizers, ClaimOpen(f) PROVE Goal
  BY <1>1 DEF ClaimOpen, Unlocked
<1>2. ASSUME NEW f \in Finalizers, FetchStale(f) PROVE Goal
  BY <1>2 DEF FetchStale, batch
<1>3. ASSUME NEW f \in Finalizers, Recover(f) PROVE Goal
  BY <1>3 DEF Recover, batch
<1>4. ASSUME NEW f \in Finalizers, BreakOff(f) PROVE Goal
  BY <1>4 DEF BreakOff, batch
<1>5. ASSUME NEW f \in Finalizers, Drop(f) PROVE Goal
  BY <1>5 DEF Drop, batch
<1>6. ASSUME NEW f \in Finalizers, Lease(f) PROVE Goal
  BY <1>6 DEF Lease
<1>7. ASSUME NEW f \in Finalizers, LeaseConflict(f) PROVE Goal
  BY <1>7 DEF LeaseConflict, batch
<1>8. ASSUME NEW f \in Finalizers, Loads(f) PROVE Goal
  BY <1>8 DEF Loads, Load, batch
<1>9. ASSUME NEW f \in Finalizers, Accept(f) PROVE Goal
  BY <1>9 DEF Accept, batch
<1>10. ASSUME NEW f \in Finalizers, Refuse(f) PROVE Goal
  BY <1>10 DEF Refuse, batch
<1>11. ASSUME NEW f \in Finalizers, Park(f) PROVE Goal
  BY <1>11 DEF Park
<1>12. ASSUME NEW f \in Finalizers, Persist(f) PROVE Goal
  <2>1. status \in Final
    BY <1>12 DEF Persist, SendInv, WorkIsLate, InFlight
  <2>2. status' \in Final /\ UNCHANGED slips
    BY <1>12 DEF Persist, Outcome
  <2> QED
    BY <2>1, <2>2
<1>13. ASSUME NEW f \in Finalizers, NEW missing \in BOOLEAN, Push(f, missing) PROVE Goal
  BY <1>13 DEF Push, batch
<1>14. ASSUME Tick \/ WindowEnds \/ Forget PROVE Goal
  BY <1>14 DEF Tick, WindowEnds, Forget, batch
<1> HIDE DEF Goal, IInv, TypeOK, ReadInv, CancelIsEarly
<1>15. CASE Finalizing
  <2>1. PICK f \in Finalizers : ClaimOpen(f) \/ FetchStale(f) \/ Recover(f) \/ Proceed(f) \/ BreakOff(f) \/ Drop(f)
    BY <1>15 DEF Finalizing
  <2>2. CASE Proceed(f)
    BY <2>2, <1>6, <1>7, <1>8, <1>9, <1>10, <1>11, <1>12, <1>13 DEF Proceed, Loads
  <2> QED
    BY <2>1, <2>2, <1>1, <1>2, <1>3, <1>4, <1>5
<1> QED
  BY <1>14, <1>15

(* What a step makes of the run of a finalizer: nothing, its end, a batch  *)
(* found stale, the claim of the batch, the next step of a run under way,  *)
(* or an older run.                                                        *)
Same(g) == fin'[g] = fin[g]
Ends(g) == fin'[g] = NoRun
Finds(g) ==
    fin'[g].at = "due" /\ fin'[g].kind = "sweep" /\ fin'[g].seen = NoMessage /\ window
Enters(g) ==
    /\ ClaimOpen(g) \/ Lease(g) \/ Recover(g)
    /\ fin'[g].at = "claimed" /\ fin'[g].kind \in {"cron", "sweep", "admin"}
    /\ fin'[g].seen = NoMessage
    /\ status' \in Final /\ ~sent
    /\ status \in OpenStates \/ fin[g].at = "due" \/ window
    /\ ~recounted' => Silent
    /\ fin'[g].kind # "admin" => rest' = 0
Proceeds(g) ==
    /\ InFlight(g) /\ fin'[g].kind = fin[g].kind /\ fin'[g].age = fin[g].age
    /\ fin'[g].at \in {"loaded", "pushing", "delivered", "refused"}
    /\ fin'[g].seen # NoMessage
    /\ \/ /\ fin[g].at = "claimed" /\ fin'[g].at = "loaded"
          /\ fin'[g].seen.counted \subseteq Good
       \/ /\ fin[g].at = "loaded" /\ fin'[g].at = "pushing" /\ \E missing \in BOOLEAN : Push(g, missing)
          /\ fin[g].seen # NoMessage /\ fin'[g].seen.counted = fin[g].seen.counted
       \/ /\ fin[g].at = "pushing" /\ fin'[g].at \in {"delivered", "refused"}
          /\ fin[g].seen # NoMessage /\ fin'[g].seen = fin[g].seen
Ages(g) ==
    /\ fin[g].kind \in {"cron", "sweep"} /\ fin'[g].age = fin[g].age + 1 /\ rest' = rest + 1
    /\ fin'[g].at = fin[g].at /\ fin'[g].kind = fin[g].kind /\ fin'[g].seen = fin[g].seen

Moves(g) == Same(g) \/ Ends(g) \/ Finds(g) \/ Enters(g) \/ Proceeds(g) \/ Ages(g)

LEMMA RunCases ==
    ASSUME IInv, Finalizing \/ Tick \/ WindowEnds \/ Forget
    PROVE  /\ \A g \in Finalizers : Moves(g)
           /\ fin' \in [Finalizers -> RunType]
           /\ (rest' \in {rest, 0} \/ Tick) /\ rest' \in 0..StaleAge
<1> DEFINE Goal ==
      /\ \A g \in Finalizers : Moves(g)
      /\ fin' \in [Finalizers -> RunType]
      /\ (rest' \in {rest, 0} \/ Tick) /\ rest' \in 0..StaleAge
<1> SUFFICES Goal
  OBVIOUS
<1>a. /\ TypeOK /\ SendInv /\ fin \in [Finalizers -> RunType] /\ rest \in 0..StaleAge
      /\ 0 \in 0..StaleAge
      /\ \A f \in Finalizers : fin[f].seen # NoMessage <=> fin[f].at \in {"loaded", "pushing", "delivered", "refused"}
  BY Bounds DEF IInv, TypeOK
<1>b. NoMessage \notin Messages
  BY NullAssumption
<1> USE DEF Moves
<1>1. ASSUME NEW f \in Finalizers, ClaimOpen(f) \/ Lease(f) \/ Recover(f) PROVE Goal
  <2>1. Lease(f) => fin[f].at = "due"
    BY DEF Lease
  <2>2. Enters(f)
    BY <1>1, <1>a, <2>1, EnterEffect DEF Enters, Entered, Silent
  <2> QED
    BY <1>1, <1>a, <2>2, EnterEffect DEF Same
<1>2. ASSUME NEW f \in Finalizers, FetchStale(f) PROVE Goal
  BY <1>2, <1>a, FetchEffect DEF Same, Finds, batch
<1>3. ASSUME NEW f \in Finalizers, Stop(f), rest' \in {rest, 0} PROVE Goal
  BY <1>3, <1>a, StopEffect DEF Same, Ends
<1>4. ASSUME NEW f \in Finalizers, LeaseConflict(f) \/ BreakOff(f) PROVE Goal
  BY <1>3, <1>4 DEF LeaseConflict, BreakOff, batch
<1>5. ASSUME NEW f \in Finalizers, Park(f) \/ Persist(f) PROVE Goal
  BY <1>3, <1>5 DEF Park, Persist, Touch
<1>6. ASSUME NEW f \in Finalizers, Drop(f) PROVE Goal
  BY <1>6, <1>a DEF Drop, Same, batch
<1>7. ASSUME NEW f \in Finalizers, Loads(f) PROVE Goal
  <2>1. Ends(f) \/ Proceeds(f)
    BY <1>7, <1>a, <1>b, LoadEffect DEF Ends, Proceeds, InFlight
  <2> QED
    BY <1>7, <1>a, <2>1, LoadEffect DEF Same, batch
<1>8. ASSUME NEW f \in Finalizers, Accept(f) PROVE Goal
  <2>1. Same(f) \/ Proceeds(f)
    BY <1>8, <1>a, AcceptEffect DEF Same, Proceeds, InFlight
  <2> QED
    BY <1>8, <1>a, <2>1, AcceptEffect DEF Same, batch
<1>9. ASSUME NEW f \in Finalizers, Refuse(f) PROVE Goal
  <2>1. Ends(f) \/ Proceeds(f)
    BY <1>9, <1>a, RefuseEffect DEF Ends, Proceeds, InFlight
  <2> QED
    BY <1>9, <1>a, <2>1, RefuseEffect DEF Same, batch
<1>10. ASSUME NEW f \in Finalizers, NEW missing \in BOOLEAN, Push(f, missing) PROVE Goal
  <2>1. Proceeds(f)
    BY <1>10, <1>a, <1>b, PushEffect DEF Proceeds, InFlight
  <2> QED
    BY <1>10, <1>a, <2>1, PushEffect DEF Same, batch
<1>11. ASSUME Tick PROVE Goal
  BY <1>11, <1>a, TickEffect DEF Same, Ages
<1>12. ASSUME WindowEnds \/ Forget PROVE Goal
  BY <1>12, <1>a DEF WindowEnds, Forget, Same, batch
<1> HIDE DEF Goal
<1>13. CASE Finalizing
  <2>1. PICK f \in Finalizers : ClaimOpen(f) \/ FetchStale(f) \/ Recover(f) \/ Proceed(f) \/ BreakOff(f) \/ Drop(f)
    BY <1>13 DEF Finalizing
  <2>2. CASE Proceed(f)
    BY <2>2, <1>1, <1>4, <1>5, <1>7, <1>8, <1>9, <1>10 DEF Proceed, Loads
  <2> QED
    BY <2>1, <2>2, <1>1, <1>2, <1>4, <1>6
<1> QED
  BY <1>11, <1>12, <1>13

(* The runs stay well formed, and their claims fresh. *)
LEMMA RunsStayFormed ==
    ASSUME IInv, Finalizing \/ Tick \/ WindowEnds \/ Forget
    PROVE  /\ \A f \in Finalizers :
                 fin'[f].seen # NoMessage <=> fin'[f].at \in {"loaded", "pushing", "delivered", "refused"}
           /\ RunForm' /\ ClaimIsFresh'
           /\ \A f \in Finalizers : fin'[f].seen # NoMessage => fin'[f].seen.counted \subseteq Good
<1> USE DEF Same, Ends, Finds, Enters, Proceeds, Ages
<1>a. /\ \A f \in Finalizers : fin[f].seen # NoMessage <=> fin[f].at \in {"loaded", "pushing", "delivered", "refused"}
      /\ RunForm /\ CountsGood /\ ClaimIsFresh
      /\ rest \in 0..StaleAge /\ \A f \in Finalizers : fin[f].age \in Nat
  BY DEF IInv, TypeOK, SendInv, RunType
<1>b. StaleAge \in Nat /\ rest' \in 0..StaleAge /\ \A f \in Finalizers : fin'[f].age \in Nat
  BY RunCases, Bounds DEF RunType
<1>1. \A f \in Finalizers : Moves(f)
  BY RunCases
<1>2. ASSUME NEW f \in Finalizers
      PROVE  fin'[f].seen # NoMessage <=> fin'[f].at \in {"loaded", "pushing", "delivered", "refused"}
  BY <1>a, <1>1, NoRunFields DEF Moves
<1>3. RunForm'
  <2> SUFFICES ASSUME NEW f \in Finalizers
               PROVE  /\ fin'[f].at = "idle" => fin'[f] = NoRun
                      /\ fin'[f].kind = "none" => fin'[f].at = "idle"
    BY DEF RunForm
  <2>1. CASE Ages(f)
    BY <1>a, <2>1, NoRunFields DEF RunForm
  <2> QED
    BY <1>a, <1>1, <2>1, NoRunFields DEF Moves, RunForm, InFlight
<1>4. ClaimIsFresh'
  <2> SUFFICES ASSUME NEW f \in Finalizers, fin'[f].at \notin {"idle", "due"}, fin'[f].kind # "admin"
               PROVE  rest' <= fin'[f].age
    BY DEF ClaimIsFresh, InFlight
  <2>1. CASE rest' = 0
    BY <1>b, <2>1
  <2>2. CASE rest' = rest
    <3>1. CASE Same(f) \/ Proceeds(f)
      BY <1>a, <2>2, <3>1 DEF ClaimIsFresh, InFlight
    <3>2. ~Ends(f) /\ ~Finds(f)
      BY NoRunFields
    <3> QED
      BY <1>1, <1>a, <1>b, <2>1, <2>2, <3>1, <3>2 DEF Moves
  <2>3. CASE Tick
    <3>1. \/ fin[f].kind \notin {"cron", "sweep"} /\ fin'[f] = fin[f]
          \/ Ages(f)
      BY <2>3, TickEffect DEF IInv
    <3>2. CASE Ages(f)
      BY <1>a, <1>b, <3>2 DEF ClaimIsFresh, InFlight
    <3>3. CASE fin[f].kind \notin {"cron", "sweep"} /\ fin'[f] = fin[f]
      <4>1. fin[f].kind \in {"none", "cron", "sweep", "admin"}
        BY DEF IInv, TypeOK, RunType
      <4> QED
        BY <1>a, <3>3, <4>1 DEF RunForm
    <3> QED
      BY <3>1, <3>2, <3>3
  <2> QED
    BY RunCases, <2>1, <2>2, <2>3
<1>5. ASSUME NEW f \in Finalizers, fin'[f].seen # NoMessage
      PROVE  fin'[f].seen.counted \subseteq Good
  BY <1>a, <1>1, <1>5, NoRunFields DEF Moves, CountsGood
<1> QED
  BY <1>2, <1>3, <1>4, <1>5

(* What a step makes of the pushes and of the stored outcome. *)
LEMMA LineCases ==
    ASSUME IInv, Finalizing \/ Tick \/ WindowEnds \/ Forget
    PROVE  /\ wire' \in [Finalizers -> Messages \cup {NoMessage}]
           /\ \/ chat' = chat /\ Unsent /\ UNCHANGED <<sent, stored, faults>> /\ (known' = known \/ Forget)
              \/ \E f \in Finalizers : BreakOff(f)
              \/ \E f \in Finalizers : Accept(f)
              \/ \E f \in Finalizers, missing \in BOOLEAN : Push(f, missing)
              \/ \E f \in Finalizers : Persist(f)
           /\ (\E f \in Finalizers : BreakOff(f)) =>
                 chat' = chat /\ Unsent /\ known' = known /\ UNCHANGED <<sent, stored>> /\ faults' \in 0..MaxFaults
           /\ (\E f \in Finalizers : Persist(f)) =>
                 chat' = chat /\ Unsent /\ known' = known /\ UNCHANGED faults
           /\ window' \in {window, FALSE}
           /\ beside' \in BOOLEAN /\ (beside => beside')
           /\ recounted' \in BOOLEAN /\ (recounted => recounted')
<1> DEFINE Quiet == chat' = chat /\ Unsent /\ UNCHANGED <<sent, stored, faults>> /\ (known' = known \/ Forget)
           Goal ==
             /\ wire' \in [Finalizers -> Messages \cup {NoMessage}]
             /\ \/ Quiet
                \/ \E f \in Finalizers : BreakOff(f)
                \/ \E f \in Finalizers : Accept(f)
                \/ \E f \in Finalizers, missing \in BOOLEAN : Push(f, missing)
                \/ \E f \in Finalizers : Persist(f)
             /\ window' \in {window, FALSE}
             /\ beside' \in BOOLEAN /\ (beside => beside')
             /\ recounted' \in BOOLEAN /\ (recounted => recounted')
<1>a. TypeOK /\ SendInv /\ beside \in BOOLEAN /\ recounted \in BOOLEAN /\ faults \in 0..MaxFaults
        /\ wire \in [Finalizers -> Messages \cup {NoMessage}]
  BY DEF IInv, TypeOK
<1>1. ASSUME NEW f \in Finalizers, ClaimOpen(f) \/ Lease(f) \/ Recover(f) PROVE Goal
  BY <1>1, <1>a, EnterEffect DEF Entered, Unsent, line
<1>2. ASSUME NEW f \in Finalizers, FetchStale(f) \/ LeaseConflict(f) \/ Loads(f) \/ Park(f) PROVE Goal
  BY <1>2, <1>a DEF FetchStale, LeaseConflict, Loads, Load, Park, Unsent, batch, line
<1>3. ASSUME NEW f \in Finalizers, BreakOff(f)
      PROVE  /\ chat' = chat /\ wire' = wire /\ known' = known
             /\ UNCHANGED <<sent, stored, window, history>> /\ faults' \in 0..MaxFaults
  BY <1>3, <1>a, Bounds DEF BreakOff, Fault, batch, line
<1>4. ASSUME NEW f \in Finalizers, Persist(f)
      PROVE  chat' = chat /\ wire' = wire /\ known' = known /\ UNCHANGED <<window, history, faults>>
  BY <1>4 DEF Persist, line
<1>5. ASSUME NEW f \in Finalizers, Drop(f) \/ Refuse(f) PROVE Goal
  BY <1>5, <1>a DEF Drop, Refuse, Unsent, batch
<1>6. ASSUME NEW f \in Finalizers, Accept(f) PROVE Goal
  BY <1>6, <1>a, AcceptEffect DEF batch
<1>7. ASSUME NEW f \in Finalizers, NEW missing \in BOOLEAN, Push(f, missing) PROVE Goal
  BY <1>7, <1>a, PushEffect DEF batch
<1>8. ASSUME Tick \/ WindowEnds \/ Forget PROVE Goal
  BY <1>8, <1>a DEF Tick, WindowEnds, Forget, Unsent, batch, line
<1>9. ASSUME NEW f \in Finalizers, BreakOff(f) \/ Persist(f) PROVE Goal
  BY <1>9, <1>3, <1>4, <1>a
<1>10. Goal
  <2> HIDE DEF Goal
  <2>1. CASE Finalizing
    <3>1. PICK f \in Finalizers : ClaimOpen(f) \/ FetchStale(f) \/ Recover(f) \/ Proceed(f) \/ BreakOff(f) \/ Drop(f)
      BY <2>1 DEF Finalizing
    <3>2. CASE Proceed(f)
      BY <3>2, <1>1, <1>2, <1>5, <1>6, <1>7, <1>9 DEF Proceed, Loads
    <3> QED
      BY <3>1, <3>2, <1>1, <1>2, <1>5, <1>9
  <2> QED
    BY <1>8, <2>1
<1>11. Unsent \/ wire' # wire
  BY DEF Unsent
<1> QED
  BY <1>3, <1>4, <1>10, <1>11

(* A summary shown, or work on one, still means the batch is claimed. *)
LEMMA WorkStaysLate ==
    ASSUME IInv, Finalizing \/ Tick \/ WindowEnds \/ Forget
    PROVE  WorkIsLate'
<1>a. WorkIsLate /\ (status \in Final => status' \in Final)
  BY RowEffect DEF IInv, SendInv
<1>b. ASSUME NEW f \in Finalizers, Moves(f), fin'[f].at \notin {"idle", "due"}
      PROVE  status' \in Final
  <2>1. CASE Enters(f)
    BY <2>1 DEF Enters
  <2>2. ~Ends(f) /\ ~Finds(f)
    BY <1>b, NoRunFields DEF Ends, Finds
  <2>3. InFlight(f) \/ Enters(f)
    BY <1>b, <2>2 DEF Moves, Same, Proceeds, Ages, InFlight
  <2> QED
    BY <1>a, <2>1, <2>3 DEF WorkIsLate
<1>1. ASSUME NEW f \in Finalizers, InFlight(f)' PROVE status' \in Final
  BY <1>1, <1>b, RunCases DEF InFlight
<1>2. ASSUME NEW f \in Finalizers, Accept(f) \/ Persist(f) \/ \E missing \in BOOLEAN : Push(f, missing)
      PROVE  status' \in Final
  <2>1. InFlight(f) \/ wire[f] # NoMessage
    BY <1>2 DEF InFlight, Accept, Persist, Push
  <2> QED
    BY <1>a, <2>1 DEF WorkIsLate
<1>3. CASE chat' = chat /\ Unsent /\ sent' = sent
  BY <1>a, <1>1, <1>3 DEF WorkIsLate, Unsent
<1>4. CASE \E f \in Finalizers : Accept(f) \/ Persist(f) \/ \E missing \in BOOLEAN : Push(f, missing)
  BY <1>2, <1>4 DEF WorkIsLate
<1> QED
  BY <1>3, <1>4, LineCases

(* What is told stays good, and what counts good keeps counting it. *)
LEMMA GoodStaysTold ==
    ASSUME IInv, Finalizing \/ Tick \/ WindowEnds \/ Forget
    PROVE  TellsNext(Good)
<1>a. TypeOK /\ Tells(Good)
  BY DEF IInv, SendInv, CountsGood
<1>1. CASE chat' = chat /\ Unsent
  BY <1>a, <1>1, DroppedTells
<1>2. ASSUME NEW f \in Finalizers, Accept(f) PROVE TellsNext(Good)
  BY <1>a, <1>2, AcceptedTells
<1>3. ASSUME NEW f \in Finalizers, NEW missing \in BOOLEAN, Push(f, missing) PROVE TellsNext(Good)
  <2>1. fin[f].seen.counted \subseteq Good
    BY <1>3, PushEffect, NullAssumption, <1>a DEF IInv, SendInv, CountsGood
  <2> QED
    BY <1>a, <1>3, <2>1, PushedTells
<1> QED
  BY <1>1, <1>2, <1>3, LineCases

(* One summary: a push is taken in anew only if the key is not known, and  *)
(* then either nothing was shown or nobody is left to push.                *)
LEMMA StaysOne ==
    ASSUME IInv, Finalizing \/ Tick \/ WindowEnds \/ Forget
    PROVE  OneSummary' /\ ForgottenForGood' /\ chat' \in Seq(Messages)
<1>a. TypeOK /\ chat \in Seq(Messages) /\ OneSummary /\ ForgottenForGood /\ WorkIsLate /\ RunForm
  BY DEF IInv, TypeOK, SendInv
<1>1. ASSUME NEW f \in Finalizers, Accept(f)
      PROVE  OneSummary' /\ ForgottenForGood' /\ chat' \in Seq(Messages)
  <2>1. known' /\ wire[f] \in Messages /\ wire[f] # NoMessage
    BY <1>a, <1>1, AcceptEffect, NullAssumption
  <2>2. CASE known
    BY <1>a, <1>1, <2>1, <2>2, AcceptEffect DEF OneSummary, ForgottenForGood
  <2>3. CASE ~known
    <3>1. chat = <<>>
      BY <1>a, <2>1, <2>3 DEF ForgottenForGood
    <3>2. chat' = <<wire[f]>>
      BY <1>a, <1>1, <2>3, <3>1, AcceptEffect
    <3> QED
      BY <2>1, <3>2 DEF OneSummary, ForgottenForGood
  <2> QED
    BY <2>2, <2>3
<1>2. ASSUME chat' = chat PROVE OneSummary' /\ chat' \in Seq(Messages)
  BY <1>a, <1>2 DEF OneSummary
<1>3. CASE Forget
  BY <1>2, <1>3 DEF Forget, ForgottenForGood, batch
<1>4. CASE chat' = chat /\ known' = known
  <2>1. ASSUME ~known, chat # <<>>
        PROVE  ~window' /\ \A f \in Finalizers : fin'[f] = NoRun /\ wire'[f] = NoMessage
    <3>1. status \in Final
      BY <1>a, <2>1 DEF WorkIsLate
    <3>2. ~window /\ \A f \in Finalizers : fin[f] = NoRun /\ wire[f] = NoMessage
      BY <1>a, <2>1 DEF ForgottenForGood
    <3>3. ASSUME NEW f \in Finalizers PROVE fin'[f] = NoRun
      <4>1. ~Finds(f) /\ ~Proceeds(f) /\ ~Ages(f)
        BY <3>2, NoRunFields DEF Finds, Proceeds, Ages, InFlight
      <4>2. ASSUME Enters(f) PROVE FALSE
        BY <3>1, <3>2, <4>2, NoRunFields DEF Enters, OpenStates, Final
      <4> QED
        BY <3>2, <4>1, <4>2, RunCases DEF Moves, Same, Ends
    <3>4. ~window'
      BY <3>2, LineCases
    <3>5. \A f \in Finalizers : wire'[f] = NoMessage
      <4>1. ~(\E f \in Finalizers : Accept(f)) /\ ~(\E f \in Finalizers, missing \in BOOLEAN : Push(f, missing))
        BY <3>2, NoRunFields DEF Accept, Push
      <4>2. Unsent
        BY <4>1, LineCases
      <4> QED
        BY <3>2, <4>2 DEF Unsent
    <3> QED
      BY <3>2, <3>3, <3>4, <3>5
  <2> QED
    BY <1>2, <1>4, <2>1 DEF ForgottenForGood
<1>5. CASE \E f \in Finalizers, missing \in BOOLEAN : Push(f, missing)
  <2>1. chat' = chat /\ known' = known
    BY <1>a, <1>5, PushEffect
  <2> QED
    BY <1>4, <2>1
<1> QED
  BY <1>1, <1>3, <1>4, <1>5, LineCases

(* Without an administrator, a finalizer enters when no other runs: the    *)
(* first claim finds an open batch, and the lease of a sweep a row older   *)
(* than a run of the cron can be.                                          *)
LEMMA EntersAlone ==
    ASSUME IInv, ~beside', NEW f \in Finalizers, ClaimOpen(f) \/ Lease(f) \/ Recover(f),
           NEW g \in Finalizers, InFlight(g)
    PROVE  FALSE
<1>a. TypeOK /\ SendInv /\ WorkIsLate /\ ClaimIsFresh /\ RunForm
  BY DEF IInv, SendInv
<1>b. fin[g].kind \in {"none", "cron", "sweep", "admin"} /\ fin[g].age \in 0..MaxDuration
        /\ rest \in 0..StaleAge
  BY <1>a DEF TypeOK, RunType
<1>c. status \in Final
  BY <1>a DEF WorkIsLate
<1>1. PICK kind \in {"cron", "sweep", "admin"} :
          /\ Entered(f, kind)
          /\ kind = "cron" => status \in OpenStates
          /\ kind = "sweep" => rest >= StaleAge
  BY <1>a, EnterEffect
<1>2. g # f /\ kind # "admin" /\ fin[g].kind # "admin"
  BY <1>1 DEF Entered
<1>3. kind = "sweep"
  BY <1>1, <1>2, <1>c DEF OpenStates, Final
<1>4. rest <= fin[g].age
  BY <1>a, <1>2 DEF ClaimIsFresh
<1> QED
  BY <1>1, <1>3, <1>4, <1>b, Bounds

LEMMA StaysAlone ==
    ASSUME IInv, Finalizing \/ Tick \/ WindowEnds \/ Forget
    PROVE  Alone'
<1> SUFFICES ASSUME ~beside', NEW f \in Finalizers, NEW g \in Finalizers, InFlight(f)', InFlight(g)'
             PROVE  f = g
  BY DEF Alone
<1>a. ~beside /\ Alone
  BY LineCases DEF IInv
<1>1. ASSUME NEW x \in Finalizers, InFlight(x)', ~Enters(x) PROVE InFlight(x)
  BY <1>1, RunCases, NoRunFields DEF Moves, Same, Ends, Finds, Proceeds, Ages, InFlight
<1>2. ASSUME NEW x \in Finalizers, NEW y \in Finalizers, x # y, Enters(x), InFlight(y)' PROVE FALSE
  <2>1. fin'[y] = fin[y]
    BY <1>2, EnterEffect DEF Enters, IInv
  <2>2. InFlight(y)
    BY <1>2, <2>1 DEF InFlight
  <2> QED
    BY <1>2, <2>2, EntersAlone DEF Enters
<1> QED
  BY <1>a, <1>1, <1>2 DEF Alone

(* Says of the next state, and what no push changes. *)
SaysNext(m) ==
    /\ \A n \in 1..Len(chat') : chat'[n] = m
    /\ \A f \in Finalizers : wire'[f] # NoMessage => wire'[f] = m

NoPush == \A f \in Finalizers, missing \in BOOLEAN : ~Push(f, missing)

LEMMA NothingElseSaid ==
    ASSUME IInv, Finalizing \/ Tick \/ WindowEnds \/ Forget, NoPush
    PROVE  /\ \A m : Says(m) => SaysNext(m)
           /\ Silent => chat' = <<>> /\ \A f \in Finalizers : wire'[f] = NoMessage
<1>a. TypeOK /\ chat \in Seq(Messages)
  BY DEF IInv, TypeOK
<1>1. CASE chat' = chat /\ Unsent
  BY <1>1 DEF Says, SaysNext, Silent, Unsent
<1>2. ASSUME NEW g \in Finalizers, Accept(g)
      PROVE  ~Silent /\ \A m : Says(m) => SaysNext(m)
  <2>1. /\ wire[g] # NoMessage /\ wire[g] \in Messages
        /\ chat' = chat \/ chat' = Append(chat, wire[g])
        /\ \A h \in Finalizers : wire'[h] \in {wire[h], NoMessage}
    BY <1>a, <1>2, AcceptEffect, NullAssumption
  <2>2. \A n \in 1..Len(chat') : chat'[n] = wire[g] \/ (n \in 1..Len(chat) /\ chat'[n] = chat[n])
    <3>1. CASE chat' = chat
      BY <3>1
    <3>2. CASE chat' = Append(chat, wire[g])
      BY <1>a, <2>1, <3>2
    <3> QED
      BY <2>1, <3>1, <3>2
  <2> QED
    BY <2>1, <2>2 DEF Says, SaysNext, Silent
<1> QED
  BY <1>1, <1>2, LineCases DEF NoPush

(* After the outcome is stored, nobody touches the row. *)
LEMMA SentKeepsRow ==
    ASSUME IInv, Finalizing \/ Tick \/ WindowEnds \/ Forget, sent,
           \A f \in Finalizers : ~InFlight(f)
    PROVE  UNCHANGED <<status, sent, stored>> /\ NoPush /\ \A f \in Finalizers : ~InFlight(f)'
<1>a. TypeOK /\ SendInv
  BY DEF IInv
<1>1. ASSUME NEW f \in Finalizers
      PROVE  ~ClaimOpen(f) /\ ~Lease(f) /\ ~Recover(f) /\ ~Park(f) /\ ~Persist(f)
  <2>1. ~ClaimOpen(f) /\ ~Lease(f) /\ ~Recover(f)
    BY <1>a, EnterEffect DEF Entered
  <2>2. ~Park(f) /\ ~Persist(f)
    BY DEF InFlight, Park, Persist
  <2> QED
    BY <2>1, <2>2
<1>2. NoPush
  BY DEF NoPush, Push, InFlight
<1>3. ASSUME NEW f \in Finalizers,
             FetchStale(f) \/ LeaseConflict(f) \/ Loads(f) \/ Accept(f) \/ Refuse(f) \/ BreakOff(f) \/ Drop(f)
      PROVE  UNCHANGED <<status, sent, stored>>
  BY <1>3 DEF FetchStale, LeaseConflict, Loads, Load, Accept, Refuse, BreakOff, Drop, batch
<1>4. ASSUME Finalizing PROVE UNCHANGED <<status, sent, stored>>
  <2>1. PICK f \in Finalizers : ClaimOpen(f) \/ FetchStale(f) \/ Recover(f) \/ Proceed(f) \/ BreakOff(f) \/ Drop(f)
    BY <1>4 DEF Finalizing
  <2>2. CASE Proceed(f)
    BY <1>1, <1>2, <1>3, <2>2 DEF Proceed, Loads, NoPush
  <2> QED
    BY <1>1, <1>3, <2>1, <2>2
<1>5. ASSUME Tick \/ WindowEnds \/ Forget PROVE UNCHANGED <<status, sent, stored>>
  BY <1>5 DEF Tick, WindowEnds, Forget, batch
<1>6. ASSUME NEW f \in Finalizers, InFlight(f)' PROVE FALSE
  BY <1>6, RunCases, NoRunFields DEF Moves, Same, Ends, Finds, Enters, Proceeds, Ages, InFlight
<1> QED
  BY <1>2, <1>4, <1>5, <1>6

(* The outcome is stored only by a finalizer that persists it. *)
LEMMA OnlyPersistStores ==
    ASSUME IInv, Finalizing \/ Tick \/ WindowEnds \/ Forget, sent' # sent
    PROVE  \E f \in Finalizers : Persist(f)
<1>1. ASSUME NEW g \in Finalizers, Accept(g) \/ \E missing \in BOOLEAN : Push(g, missing)
      PROVE  sent' = sent
  BY <1>1 DEF Accept, Push, batch
<1> QED
  BY <1>1, LineCases

LEMMA StaysLast ==
    ASSUME IInv, Finalizing \/ Tick \/ WindowEnds \/ Forget
    PROVE  LastWord'
<1> SUFFICES ASSUME ~beside', sent', NEW f \in Finalizers, InFlight(f)'
             PROVE  FALSE
  BY DEF LastWord
<1>a. ~beside /\ TypeOK /\ Alone /\ LastWord
  BY LineCases DEF IInv
<1>1. CASE sent
  BY <1>a, <1>1, SentKeepsRow DEF LastWord
<1>2. ASSUME NEW h \in Finalizers, Persist(h) PROVE FALSE
  <2>1. InFlight(h) /\ Stop(h)
    BY <1>2 DEF Persist, InFlight
  <2>2. f # h
    BY <1>a, <2>1, StopEffect, NoRunFields DEF InFlight
  <2>3. InFlight(f)
    BY <1>a, <2>1, <2>2, StopEffect DEF InFlight
  <2> QED
    BY <1>a, <2>1, <2>2, <2>3 DEF Alone
<1> QED
  BY <1>1, <1>2, OnlyPersistStores

(* A push, the first one, is made when nothing was told. *)
LEMMA PushIsFirst ==
    ASSUME IInv, ~beside, ~recounted, NEW h \in Finalizers, NEW missing \in BOOLEAN, Push(h, missing)
    PROVE  /\ SaysNext(fin'[h].seen) /\ fin'[h].at = "pushing"
           /\ ~sent /\ sent' = sent
           /\ \A f \in Finalizers \ {h} : fin'[f].at \in {"idle", "due"}
<1>a. TypeOK /\ Alone /\ LastWord /\ OneCount
  BY DEF IInv
<1>1. /\ fin[h].at = "loaded" /\ fin'[h].at = "pushing" /\ wire'[h] = fin'[h].seen
      /\ chat' = chat /\ sent' = sent
      /\ \A f \in Finalizers \ {h} : fin'[f] = fin[f] /\ wire'[f] = wire[f]
  BY <1>a, PushEffect DEF batch
<1>2. InFlight(h) /\ Silent
  BY <1>a, <1>1 DEF InFlight, OneCount
<1>3. SaysNext(fin'[h].seen)
  BY <1>1, <1>2 DEF SaysNext, Silent
<1>4. ~sent /\ \A f \in Finalizers \ {h} : ~InFlight(f)
  BY <1>a, <1>2 DEF LastWord, Alone
<1> QED
  BY <1>1, <1>3, <1>4 DEF InFlight

(* A run before its push, or after it, when nobody pushes. *)
LEMMA RunsStayHeard ==
    ASSUME IInv, Finalizing \/ Tick \/ WindowEnds \/ Forget, ~beside, ~recounted, ~recounted',
           NoPush, NEW f \in Finalizers
    PROVE  /\ fin'[f].at \in {"claimed", "loaded"} =>
                 chat' = <<>> /\ \A g \in Finalizers : wire'[g] = NoMessage
           /\ fin'[f].at \in {"pushing", "delivered", "refused"} => SaysNext(fin'[f].seen)
<1>a. OneCount /\ Moves(f)
  BY RunCases DEF IInv
<1>1. ASSUME fin'[f].at \in {"claimed", "loaded"} PROVE Silent
  <2>1. Enters(f) \/ fin[f].at \in {"claimed", "loaded"}
    BY <1>a, <1>1, NoRunFields DEF Moves, Same, Ends, Finds, Proceeds, Ages
  <2> QED
    BY <1>a, <2>1 DEF Enters, OneCount
<1>2. ASSUME fin'[f].at \in {"pushing", "delivered", "refused"} PROVE Says(fin'[f].seen)
  <2>1. fin[f].at \in {"pushing", "delivered", "refused"} /\ fin'[f].seen = fin[f].seen
    BY <1>a, <1>2, NoRunFields DEF Moves, Same, Ends, Finds, Enters, Proceeds, Ages, NoPush
  <2> QED
    BY <1>a, <2>1 DEF OneCount
<1> QED
  BY <1>1, <1>2, NothingElseSaid

LEMMA StaysOneCount ==
    ASSUME IInv, Finalizing \/ Tick \/ WindowEnds \/ Forget, UNCHANGED slips
    PROVE  OneCount'
<1> SUFFICES ASSUME ~beside', ~recounted'
             PROVE  /\ \A f \in Finalizers :
                          /\ fin'[f].at \in {"claimed", "loaded"} =>
                                chat' = <<>> /\ \A g \in Finalizers : wire'[g] = NoMessage
                          /\ fin'[f].at \in {"pushing", "delivered", "refused"} => SaysNext(fin'[f].seen)
                    /\ sent' => \E m \in Messages :
                                   SaysNext(m) /\ stored' = m.counted /\ status' = Outcome(m)
  BY DEF OneCount, Says, SaysNext, Silent, Outcome, slips
<1>a. /\ ~beside /\ ~recounted
      /\ TypeOK /\ Alone /\ LastWord /\ OneCount
  BY LineCases DEF IInv
<1>1. ASSUME NEW h \in Finalizers, NEW missing \in BOOLEAN, Push(h, missing)
      PROVE  /\ \A f \in Finalizers :
                   /\ fin'[f].at \notin {"claimed", "loaded"}
                   /\ fin'[f].at \in {"pushing", "delivered", "refused"} => SaysNext(fin'[f].seen)
             /\ ~sent'
  BY <1>a, <1>1, PushIsFirst
<1>2. CASE NoPush
  <2>1. ASSUME sent PROVE \E m \in Messages : SaysNext(m) /\ stored' = m.counted /\ status' = Outcome(m)
    <3>1. PICK m \in Messages : Says(m) /\ stored = m.counted /\ status = Outcome(m)
      BY <1>a, <2>1 DEF OneCount
    <3>2. UNCHANGED <<status, stored>>
      BY <1>a, <2>1, SentKeepsRow DEF LastWord
    <3> QED
      BY <1>2, <3>1, <3>2, NothingElseSaid
  <2>2. ASSUME ~sent, sent' PROVE \E m \in Messages : SaysNext(m) /\ stored' = m.counted /\ status' = Outcome(m)
    <3>1. PICK h \in Finalizers : Persist(h)
      BY <2>2, OnlyPersistStores
    <3>2. /\ fin[h].at = "delivered" /\ stored' = fin[h].seen.counted
          /\ status' = Outcome(fin[h].seen)
      BY <3>1 DEF Persist
    <3>3. fin[h].seen \in Messages
      BY <1>a, <3>2 DEF TypeOK, RunType
    <3>4. SaysNext(fin[h].seen)
      BY <1>a, <1>2, <3>2, NothingElseSaid DEF OneCount
    <3> QED
      BY <3>2, <3>3, <3>4
  <2> QED
    BY <1>a, <1>2, <2>1, <2>2, RunsStayHeard
<1> QED
  BY <1>1, <1>2 DEF NoPush

-----------------------------------------------------------------------------
(***************************************************************************)
(* The invariant is inductive.                                             *)
(***************************************************************************)
LEMMA SlipStepKeepsIInv ==
    ASSUME IInv, Collecting \/ Reading
    PROVE  IInv'
<1>a. TypeOK /\ ReadInv
  BY DEF IInv
<1>1. /\ UNCHANGED <<sent, stored, rest, window, fin, line, history, faults>>
      /\ status \in Final => status' = status /\ attached' = attached /\ Verified \subseteq Verified'
      /\ status \notin Final => status' \notin Final
      /\ attached \subseteq attached'
  BY <1>a, SlipStep
<1>2. TypeOK'
  <2> USE <1>a, <1>1, SlipKeepsReadInv DEF TypeOK, line, Final
  <2> QED
    OBVIOUS
<1>3. ReadInv'
  BY <1>a, SlipKeepsReadInv
<1>4. WorkIsLate' /\ RunForm'
  BY <1>1 DEF IInv, SendInv, WorkIsLate, RunForm, InFlight, line
<1>5. OneSummary' /\ ForgottenForGood' /\ ClaimIsFresh' /\ Alone'
  BY <1>1 DEF IInv, OneSummary, ForgottenForGood, ClaimIsFresh, Alone, InFlight, line
<1>6. LastWord' /\ OneCount'
  <2>1. sent => status' = status /\ attached' = attached
    BY <1>1 DEF IInv, SendInv, WorkIsLate
  <2>2. LastWord'
    BY <1>1 DEF IInv, LastWord, InFlight
  <2>3. OneCount'
    BY <1>1, <2>1 DEF IInv, OneCount, Says, Silent, Outcome, line
  <2> QED
    BY <2>2, <2>3
<1>7. CountsGood'
  <2>1. CASE status \in Final
    <3>1. Good \subseteq Good'
      BY <1>1, <2>1 DEF Good
    <3> QED
      BY <1>1, <3>1 DEF IInv, SendInv, CountsGood, Tells, line
  <2>2. CASE status \notin Final
    <3>1. chat = <<>> /\ \A f \in Finalizers : ~InFlight(f) /\ wire[f] = NoMessage
      BY <2>2 DEF IInv, SendInv, WorkIsLate
    <3>2. \A f \in Finalizers : fin[f].seen = NoMessage
      BY <1>a, <3>1 DEF TypeOK, InFlight
    <3> QED
      BY <1>1, <3>1, <3>2 DEF CountsGood, Tells, line
  <2> QED
    BY <2>1, <2>2
<1> QED
  BY <1>2, <1>3, <1>4, <1>5, <1>6, <1>7 DEF IInv, SendInv

LEMMA RunStepKeepsIInv ==
    ASSUME IInv, Finalizing \/ Tick \/ WindowEnds \/ Forget
    PROVE  IInv'
<1>a. TypeOK /\ ReadInv /\ WorkIsLate
  BY DEF IInv, SendInv
<1>b. UNCHANGED slips
  BY RowEffect
<1>c. Good' = Good
  BY <1>b DEF Good, Verified, slips
<1>1. ReadInv'
  <2>1. HeldIsRead' /\ ResultOfNewestClaim'
    BY <1>a, <1>b DEF ReadInv, HeldIsRead, ResultOfNewestClaim, slips
  <2>2. CancelIsEarly' /\ CancelledCountsNothing'
    BY <1>a, <1>b, RowEffect DEF ReadInv, CancelIsEarly, CancelledCountsNothing, slips, Verified, Final
  <2> QED
    BY <2>1, <2>2 DEF ReadInv
<1>2. CountsGood'
  <2>1. \A f \in Finalizers : fin'[f].seen # NoMessage => fin'[f].seen.counted \subseteq Good'
    BY <1>c, RunsStayFormed
  <2>2. TellsNext(Good')
    BY <1>c, GoodStaysTold
  <2> QED
    BY <2>1, <2>2 DEF CountsGood, Tells, TellsNext
<1>3. stored' \subseteq attached'
  <2>1. ASSUME NEW f \in Finalizers, Persist(f) PROVE stored' \subseteq attached
    <3>1. fin[f].seen # NoMessage /\ stored' = fin[f].seen.counted
      BY <1>a, <2>1 DEF TypeOK, Persist
    <3> QED
      BY <3>1 DEF IInv, SendInv, CountsGood, Good
  <2>2. ASSUME stored' = stored PROVE stored' \subseteq attached
    BY <1>a, <2>2 DEF TypeOK
  <2>3. ASSUME NEW g \in Finalizers, Accept(g) \/ \E missing \in BOOLEAN : Push(g, missing)
        PROVE  stored' = stored
    BY <2>3 DEF Accept, Push, batch
  <2> QED
    BY <1>b, <2>1, <2>2, <2>3, LineCases DEF slips
<1>4. TypeOK'
  <2>1. /\ attached' \subseteq Images /\ check' \in [Images -> CheckType]
        /\ jobs' \subseteq Images \X Tokens /\ cancelling' \in BOOLEAN /\ held' \subseteq Images
    BY <1>a, <1>b DEF TypeOK, slips
  <2>2. status' \in OpenStates \cup {"processing", "completed", "review_needed", "failed", "cancelled"}
    BY RowEffect DEF Final
  <2>3. ASSUME NEW g \in Finalizers, Accept(g) \/ \E missing \in BOOLEAN : Push(g, missing)
        PROVE  UNCHANGED <<sent, faults>>
    BY <2>3 DEF Accept, Push, batch
  <2>4. sent' \in BOOLEAN /\ faults' \in 0..MaxFaults
    <3>1. ASSUME NEW f \in Finalizers, Persist(f) PROVE sent' \in BOOLEAN
      BY <3>1 DEF Persist
    <3> QED
      BY <1>a, <2>3, <3>1, LineCases DEF TypeOK
  <2>5. window' \in BOOLEAN /\ beside' \in BOOLEAN /\ recounted' \in BOOLEAN
        /\ wire' \in [Finalizers -> Messages \cup {NoMessage}]
    BY <1>a, LineCases DEF TypeOK
  <2>6. known' \in BOOLEAN
    <3>1. Forget => known' = FALSE
      BY DEF Forget
    <3>2. ASSUME NEW g \in Finalizers, Accept(g) \/ \E missing \in BOOLEAN : Push(g, missing)
          PROVE  known' \in BOOLEAN
      BY <1>a, <3>2 DEF Accept, Push, TypeOK
    <3> QED
      BY <1>a, <3>1, <3>2, LineCases DEF TypeOK
  <2>7. fin' \in [Finalizers -> RunType] /\ rest' \in 0..StaleAge
    BY RunCases
  <2>8. chat' \in Seq(Messages)
    BY StaysOne
  <2>9. \A f \in Finalizers :
          fin'[f].seen # NoMessage <=> fin'[f].at \in {"loaded", "pushing", "delivered", "refused"}
    BY RunsStayFormed
  <2> QED
    BY <1>3, <2>1, <2>2, <2>4, <2>5, <2>6, <2>7, <2>8, <2>9 DEF TypeOK
<1> QED
  BY <1>b, <1>1, <1>2, <1>4, RunsStayFormed, WorkStaysLate, StaysOne, StaysAlone, StaysLast, StaysOneCount
  DEF IInv, SendInv

LEMMA StutterKeepsIInv == ASSUME IInv, UNCHANGED vars PROVE IInv'
BY DEF vars, batch, slips, line, IInv, TypeOK, ReadInv, SendInv, HeldIsRead, CancelIsEarly,
       ResultOfNewestClaim, CancelledCountsNothing, RunForm, WorkIsLate, CountsGood, Good, Tells,
       OneSummary, ForgottenForGood, ClaimIsFresh, Alone, LastWord, OneCount, Silent, Says, Outcome,
       InFlight, Verified

(* The invariant holds in every reachable state. *)
LEMMA Invariance == Spec => []IInv
<1>1. IInv /\ [Next]_vars => IInv'
  BY SlipStepKeepsIInv, RunStepKeepsIInv, StutterKeepsIInv DEF Next
<1> QED
  BY <1>1, InitIInv, PTL DEF Spec

-----------------------------------------------------------------------------
(* Every variable keeps its type, and a finalizer has a summary in hand    *)
(* exactly from reading the checks to storing the outcome.                 *)
THEOREM TypeCorrect == Spec => []TypeOK
<1>1. IInv => TypeOK
  BY DEF IInv
<1> QED
  BY <1>1, Invariance, PTL

(* A check's result is the one of its newest claim, however many OCR       *)
(* workers overtook each other (20261017110000_slip_ocr_claim_fencing).    *)
THEOREM NewestClaim == Spec => []ResultOfNewestClaim
<1>1. IInv => ResultOfNewestClaim
  BY DEF IInv, ReadInv
<1> QED
  BY <1>1, Invariance, PTL

(* A cancelled batch has no verified check, although corrections and OCR   *)
(* answers were under way (20261105090000_cancel_slip_session).            *)
THEOREM CancelClears == Spec => []CancelledCountsNothing
<1>1. IInv => CancelledCountsNothing
  BY DEF IInv, ReadInv
<1> QED
  BY <1>1, Invariance, PTL

(* The chat gets one summary of a batch, however many finalizers, crashes  *)
(* and lost answers there are (batch-finalizer.ts, batch-recovery.ts).     *)
THEOREM SummaryOnce == Spec => []OneSummary
<1>1. IInv => OneSummary
  BY DEF IInv
<1> QED
  BY <1>1, Invariance, PTL

(* What a summary counted as verified stays verified in its batch.         *)
THEOREM SummaryStands == Spec => []AnnouncedStands
<1>1. IInv => AnnouncedStands
  BY DEF IInv, SendInv, CountsGood, Tells, Good, AnnouncedStands
<1> QED
  BY <1>1, Invariance, PTL

-----------------------------------------------------------------------------
(***************************************************************************)
(* The refinement of SummaryReport.                                        *)
(***************************************************************************)
(* Only an image of the batch has a check. *)
ReadIsAttached == \A i \in Images : check[i].state # "none" => i \in attached

(* LINE knows a key, a finalizer a delivery and the row an outcome only of *)
(* a summary that is in the chat.                                          *)
DeliveredIsTold ==
    known \/ sent \/ (\E f \in Finalizers : fin[f].at = "delivered") => chat # <<>>

ToldInv == IInv /\ ReadIsAttached /\ DeliveredIsTold

(* What a check's step makes of the verified images of the batch: one more *)
(* at most, and none when it was cancelled.                                *)
LEMMA GoodCases ==
    ASSUME TypeOK, ReadInv, ReadIsAttached, Reading
    PROVE  /\ \/ Good' = Good
              \/ \E i \in attached : status # "cancelled" /\ Good' = Good \cup {i}
           /\ UNCHANGED <<status, attached>>
           /\ ReadIsAttached'
<1> DEFINE Grows == \/ Good' = Good
                    \/ \E i \in attached : status # "cancelled" /\ Good' = Good \cup {i}
           Goal == Grows /\ UNCHANGED <<status, attached>> /\ ReadIsAttached'
<1>a. check \in [Images -> CheckType] /\ attached \subseteq Images
  BY DEF TypeOK
<1>b. check' \in [Images -> CheckType]
  BY SlipKeepsReadInv
<1>0. ASSUME NEW i \in attached, UNCHANGED <<status, attached>>,
             \A x \in Images \ {i} : check'[x].state = check[x].state,
             check[i].state = "VERIFIED" => check'[i].state = "VERIFIED",
             status = "cancelled" => check'[i].state # "VERIFIED" \/ check[i].state = "VERIFIED"
      PROVE  Goal
  <2>1. ReadIsAttached'
    BY <1>0 DEF ReadIsAttached
  <2> USE <1>b
  <2>2. CASE check'[i].state = check[i].state
    <3>1. Good' = Good
      BY <1>0, <1>a, <2>2 DEF Good, Verified
    <3> QED
      BY <1>0, <2>1, <3>1
  <2>3. CASE check'[i].state # check[i].state /\ check'[i].state = "VERIFIED"
    <3>1. Good' = Good \cup {i} /\ status # "cancelled"
      BY <1>0, <1>a, <2>3 DEF Good, Verified
    <3> QED
      BY <1>0, <2>1, <3>1
  <2>4. CASE check'[i].state # "VERIFIED" /\ check[i].state # "VERIFIED"
    <3>1. Good' = Good
      BY <1>0, <1>a, <2>4 DEF Good, Verified
    <3> QED
      BY <1>0, <2>1, <3>1
  <2> QED
    BY <1>0, <2>2, <2>3, <2>4
<1>1. ASSUME NEW i \in Images, Claim(i) PROVE Goal
  <2>1. /\ i \in attached /\ check[i].state \in {"none", "PROCESSING"}
        /\ check' = [check EXCEPT ![i].state = "PROCESSING", ![i].token = @ + 1, ![i].leased = TRUE]
        /\ UNCHANGED <<status, attached>>
    BY <1>1 DEF Claim, Claimable, batch
  <2>2. \A x \in Images \ {i} : check'[x] = check[x]
    BY <1>a, <2>1
  <2>3. check'[i].state = "PROCESSING"
    BY <1>a, <2>1 DEF CheckType
  <2> QED
    BY <1>0, <2>1, <2>2, <2>3
<1>2. ASSUME NEW i \in Images, LeaseEnds(i) PROVE Goal
  <2>1. /\ check' = [check EXCEPT ![i].leased = FALSE]
        /\ UNCHANGED <<batch, attached>>
    BY <1>2 DEF LeaseEnds
  <2>2. \A x \in Images : check'[x].state = check[x].state
    BY <2>1, <1>a, UnleasedFields
  <2> QED
    BY <2>1, <2>2 DEF ReadIsAttached, Good, Verified, batch
<1>3. ASSUME NEW i \in Images, BeginCorrect(i) PROVE Goal
  BY <1>3 DEF BeginCorrect, ReadIsAttached, Good, Verified, batch
<1>4. ASSUME NEW i \in Images, NEW token \in Tokens, NEW result \in Results \cup {"FAILED"},
             Answer(i, token, result)
      PROVE  Goal
  <2>1. CASE Takes(i, token)
    <3>1. check[i].state = "PROCESSING" /\ status \in OpenStates
      BY <2>1 DEF Takes, Current
    <3>2. i \in attached
      BY <3>1 DEF ReadIsAttached
    <3>3. /\ check' = [check EXCEPT ![i].state = result, ![i].leased = FALSE, ![i].by = token]
          /\ UNCHANGED <<status, attached>>
      BY <1>4, <2>1 DEF Answer, batch
    <3>4. \A x \in Images \ {i} : check'[x] = check[x]
      BY <1>a, <3>3
    <3> QED
      BY <1>0, <3>1, <3>2, <3>3, <3>4 DEF OpenStates
  <2>2. CASE ~Takes(i, token)
    BY <1>4, <2>2 DEF Answer, ReadIsAttached, Good, Verified, batch
  <2> QED
    BY <2>1, <2>2
<1>5. ASSUME NEW i \in Images, NEW state \in Results, Correct(i, state) PROVE Goal
  <2>1. i \in held /\ check[i].state \in Results /\ UNCHANGED <<batch, attached>>
    BY <1>5 DEF Correct, ReadInv, HeldIsRead
  <2>2. i \in attached
    BY <2>1 DEF ReadIsAttached, Results
  <2>3. check[i].state = "VERIFIED" => state = "VERIFIED" /\ status # "cancelled"
    BY <1>5, <2>2 DEF Correct, ReadInv, CancelledCountsNothing, Verified
  <2>4. \/ check' = check
        \/ check' = [check EXCEPT ![i].state = Guarded(state)]
    BY <1>5 DEF Correct, Write
  <2>5. CASE check' = check
    BY <2>1, <2>5 DEF ReadIsAttached, Good, Verified, batch
  <2>6. CASE check' = [check EXCEPT ![i].state = Guarded(state)]
    BY <1>5, <1>a, <1>0, <2>1, <2>2, <2>3, <2>6 DEF Guarded, batch, CheckType
  <2> QED
    BY <2>4, <2>5, <2>6
<1> QED
  BY <1>1, <1>2, <1>3, <1>4, <1>5 DEF Reading

(* Only LINE's answer tells a finalizer that its push was delivered. *)
LEMMA AcceptDelivers ==
    ASSUME IInv, Finalizing \/ Tick \/ WindowEnds \/ Forget, NEW g \in Finalizers,
           fin'[g].at = "delivered"
    PROVE  fin[g].at = "delivered" \/ \E f \in Finalizers : Accept(f)
<1>a. TypeOK /\ SendInv
  BY DEF IInv
<1> SUFFICES ASSUME ~\E f \in Finalizers : Accept(f)
             PROVE  fin[g].at = "delivered"
  OBVIOUS
<1>1. ASSUME NEW f \in Finalizers, ClaimOpen(f) \/ Lease(f) \/ Recover(f)
      PROVE  fin[g].at = "delivered"
  BY <1>a, <1>1, EnterEffect DEF Entered
<1>2. ASSUME NEW f \in Finalizers, FetchStale(f) PROVE fin[g].at = "delivered"
  BY <1>a, <1>2, FetchEffect
<1>3. ASSUME NEW f \in Finalizers, Loads(f) PROVE fin[g].at = "delivered"
  BY <1>a, <1>3, LoadEffect, NoRunFields
<1>4. ASSUME NEW f \in Finalizers, NEW missing \in BOOLEAN, Push(f, missing)
      PROVE  fin[g].at = "delivered"
  BY <1>a, <1>4, PushEffect
<1>5. ASSUME NEW f \in Finalizers, Refuse(f) PROVE fin[g].at = "delivered"
  BY <1>a, <1>5, RefuseEffect, NoRunFields
<1>6. ASSUME NEW f \in Finalizers, LeaseConflict(f) \/ Park(f) \/ Persist(f) \/ BreakOff(f)
      PROVE  fin[g].at = "delivered"
  <2>1. Stop(f)
    BY <1>6 DEF LeaseConflict, Park, Persist, BreakOff
  <2> QED
    BY <1>a, <2>1, StopEffect, NoRunFields
<1>7. ASSUME NEW f \in Finalizers, Drop(f) PROVE fin[g].at = "delivered"
  BY <1>7 DEF Drop
<1>8. CASE Tick
  BY <1>a, <1>8, TickEffect
<1>9. CASE WindowEnds \/ Forget
  BY <1>9 DEF WindowEnds, Forget
<1>10. CASE Finalizing
  <2>1. PICK f \in Finalizers : ClaimOpen(f) \/ FetchStale(f) \/ Recover(f) \/ Proceed(f) \/ BreakOff(f) \/ Drop(f)
    BY <1>10 DEF Finalizing
  <2>2. CASE Proceed(f)
    BY <2>2, <1>1, <1>3, <1>4, <1>5, <1>6 DEF Proceed, Loads
  <2> QED
    BY <2>1, <2>2, <1>1, <1>2, <1>6, <1>7
<1> QED
  BY <1>8, <1>9, <1>10

(* The chat grows only from nothing, and then by a summary that counts     *)
(* verified images of a claimed batch.                                     *)
LEMMA ChatCases ==
    ASSUME IInv, Finalizing \/ Tick \/ WindowEnds \/ Forget
    PROVE  \/ chat' = chat
           \/ /\ chat = <<>> /\ status \in Final
              /\ \E f \in Finalizers :
                    /\ Accept(f) /\ wire[f] \in Messages /\ wire[f].counted \subseteq Good
                    /\ chat' = <<wire[f]>>
<1>a. TypeOK /\ ForgottenForGood /\ WorkIsLate /\ CountsGood
  BY DEF IInv, SendInv
<1>1. ASSUME NEW f \in Finalizers, Accept(f), ~known
      PROVE  /\ chat = <<>> /\ status \in Final
             /\ wire[f] \in Messages /\ wire[f].counted \subseteq Good
             /\ chat' = <<wire[f]>>
  <2>1. wire[f] \in Messages /\ wire[f] # NoMessage /\ chat' = Append(chat, wire[f])
    BY <1>a, <1>1, AcceptEffect, NullAssumption
  <2>2. chat = <<>> /\ status \in Final
    BY <1>a, <1>1, <2>1 DEF ForgottenForGood, WorkIsLate
  <2> QED
    BY <1>a, <2>1, <2>2 DEF CountsGood, Tells
<1>2. ASSUME NEW f \in Finalizers, Accept(f), known PROVE chat' = chat
  BY <1>a, <1>2, AcceptEffect
<1>3. ASSUME NEW f \in Finalizers, NEW missing \in BOOLEAN, Push(f, missing) PROVE chat' = chat
  BY <1>3 DEF Push
<1> QED
  BY <1>1, <1>2, <1>3, LineCases

LEMMA ToldStep ==
    ASSUME ToldInv, [Next]_vars
    PROVE  ToldInv'
<1>a. IInv /\ ReadIsAttached /\ DeliveredIsTold
  BY DEF ToldInv
<1>b. TypeOK /\ ReadInv
  BY <1>a DEF IInv
<1>1. IInv'
  BY <1>a, SlipStepKeepsIInv, RunStepKeepsIInv, StutterKeepsIInv DEF Next
<1>2. ReadIsAttached'
  <2>1. CASE Collecting
    <3>1. ASSUME NEW i \in Images, check'[i].state # "none"
          PROVE  check[i].state # "none"
      <4>1. CASE Cancel
        BY <1>b, <3>1, <4>1 DEF Cancel, Deverified, TypeOK
      <4>2. CASE Close \/ BeginCancel \/ \E j \in Images : Attach(j)
        BY <3>1, <4>2 DEF Close, BeginCancel, Attach, slips
      <4> QED
        BY <2>1, <4>1, <4>2 DEF Collecting
    <3>2. attached \subseteq attached'
      BY <1>b, <2>1, SlipStep
    <3> QED
      BY <1>a, <3>1, <3>2 DEF ReadIsAttached
  <2>2. CASE Reading
    BY <1>a, <1>b, <2>2, GoodCases
  <2>3. CASE UNCHANGED slips
    BY <1>a, <2>3 DEF ReadIsAttached, slips
  <2> QED
    BY <1>a, <2>1, <2>2, <2>3, RowEffect DEF Next, vars
<1>3. DeliveredIsTold'
  <2>1. CASE Collecting \/ Reading
    BY <1>a, <1>b, <2>1, SlipStep DEF DeliveredIsTold, line
  <2>2. CASE UNCHANGED vars
    BY <1>a, <2>2 DEF DeliveredIsTold, vars, batch, line
  <2>3. CASE Finalizing \/ Tick \/ WindowEnds \/ Forget
    <3>1. chat # <<>> => chat' # <<>>
      BY <1>a, <2>3, ChatCases
    <3>2. ASSUME chat = <<>>, chat' = <<>>,
                 known' \/ sent' \/ \E g \in Finalizers : fin'[g].at = "delivered"
          PROVE  FALSE
      <4>1. ~known /\ ~sent /\ \A g \in Finalizers : fin[g].at # "delivered"
        BY <1>a, <3>2 DEF DeliveredIsTold
      <4>0. ~sent'
        BY <1>a, <2>3, <4>1, OnlyPersistStores DEF Persist
      <4>2. ASSUME NEW f \in Finalizers, Accept(f) PROVE FALSE
        <5>1. wire[f] \in Messages /\ chat' = Append(chat, wire[f])
          BY <1>b, <4>1, <4>2, AcceptEffect
        <5> QED
          BY <3>2, <5>1
      <4>3. ~known'
        <5>1. ASSUME NEW f \in Finalizers, NEW missing \in BOOLEAN, Push(f, missing) PROVE known' = known
          BY <5>1 DEF Push
        <5>2. Forget => ~known'
          BY DEF Forget
        <5> QED
          BY <1>a, <2>3, <4>1, <4>2, <5>1, <5>2, LineCases
      <4> QED
        BY <1>a, <2>3, <3>2, <4>0, <4>1, <4>2, <4>3, AcceptDelivers
    <3> QED
      BY <3>1, <3>2 DEF DeliveredIsTold
  <2> QED
    BY <2>1, <2>2, <2>3 DEF Next
<1> QED
  BY <1>1, <1>2, <1>3 DEF ToldInv

LEMMA ToldInvariance == Spec => []ToldInv
<1>1. Init => ToldInv
  BY InitIInv DEF ToldInv, Init, ReadIsAttached, DeliveredIsTold, NoCheck, NoRun
<1> QED
  BY <1>1, ToldStep, PTL DEF Spec

(* An outcome is stored only after the chat was told, and it is what the   *)
(* chat was told, unless a finalizer counted again after an earlier one's  *)
(* push or an administrator's ran beside another (batch-finalizer.ts).     *)
THEOREM StoredAsTold == Spec => []StoredIsShown
<1>1. ASSUME ToldInv PROVE StoredIsShown
  <2>1. TypeOK /\ OneCount /\ DeliveredIsTold
    BY <1>1 DEF ToldInv, IInv
  <2> SUFFICES ASSUME sent
               PROVE  /\ chat # <<>>
                      /\ ~beside /\ ~recounted =>
                            stored = chat[1].counted /\ status = Outcome(chat[1])
    BY DEF StoredIsShown
  <2>2. chat # <<>> /\ chat \in Seq(Messages)
    BY <2>1 DEF DeliveredIsTold, TypeOK
  <2>3. 1 \in 1..Len(chat)
    BY <2>2
  <2> QED
    BY <2>1, <2>2, <2>3 DEF OneCount, Says
<1> QED
  BY <1>1, ToldInvariance, PTL

(* The parts of the mapping, in each half of the batch's life. *)
LEMMA StageOf ==
    /\ status \in OpenStates \cup {"cancelled"} => Stage = status
    /\ status \in Final => Stage = "claimed"
BY DEF Stage, OpenStates, Final

LEMMA StageNext ==
    /\ status' \in OpenStates \cup {"cancelled"} => Stage' = status'
    /\ status' \in Final => Stage' = "claimed"
BY DEF Stage, OpenStates, Final

(* A session's steps and those of its checks. *)
LEMMA RefinesSlip ==
    ASSUME ToldInv, Collecting \/ Reading
    PROVE  [Report!Next]_(Report!vars)
<1>a. TypeOK /\ ReadInv /\ ReadIsAttached /\ CancelledCountsNothing /\ SendInv
  BY DEF ToldInv, IInv, ReadInv
<1>b. /\ UNCHANGED <<sent, stored, chat, history>>
      /\ status \in Final => status' = status
      /\ ReadInv'
  BY <1>a, SlipStep, SlipKeepsReadInv DEF line
<1>c. Record' = Record
  <2>1. sent => status \in Final
    BY <1>a DEF SendInv, WorkIsLate
  <2> QED
    BY <1>b, <2>1 DEF Record
<1> USE DEF Report!Next, Report!vars, Report!history, Report!Taking
<1>1. CASE Close
  <2>1. status = "collecting" /\ status' = "closing" /\ UNCHANGED slips
    BY <1>1 DEF Close
  <2>2. Stage = "collecting" /\ Stage' = "closing"
    BY <2>1, StageOf, StageNext DEF OpenStates
  <2>3. Report!Close
    BY <1>b, <1>c, <2>1, <2>2 DEF Report!Close, slips, Verified
  <2> QED
    BY <2>3
<1>2. CASE BeginCancel
  BY <1>2, <1>b, <1>c DEF BeginCancel, batch, Verified, Stage
<1>3. CASE Cancel
  <2>1. status = "collecting" /\ status' = "cancelled" /\ UNCHANGED attached
    BY <1>3, <1>a DEF Cancel, ReadInv, CancelIsEarly
  <2>2. Stage = "collecting" /\ Stage' = "cancelled"
    BY <2>1, StageOf, StageNext DEF OpenStates
  <2>3. Verified' \cap attached' = {}
    BY <1>b, <2>1 DEF ReadInv, CancelledCountsNothing
  <2>4. Report!Cancel
    BY <1>b, <1>c, <2>1, <2>2, <2>3 DEF Report!Cancel
  <2> QED
    BY <2>4
<1>4. ASSUME NEW i \in Images, Attach(i) PROVE Report!Join(i)
  <2>1. /\ status \in OpenStates /\ attached' = attached \cup {i}
        /\ UNCHANGED <<status, check>>
    BY <1>4 DEF Attach, batch
  <2>2. Verified' \cap attached' = Verified \cap attached
    BY <1>a, <2>1 DEF Verified, ReadIsAttached
  <2>3. Stage \in {"collecting", "closing"} /\ Stage' = Stage
    BY <2>1, StageOf, StageNext DEF OpenStates
  <2> QED
    BY <1>b, <1>c, <2>1, <2>2, <2>3 DEF Report!Join
<1>5. CASE Reading
  <2>1. /\ \/ Good' = Good
           \/ \E i \in attached : status # "cancelled" /\ Good' = Good \cup {i}
        /\ UNCHANGED <<status, attached>>
    BY <1>a, <1>5, GoodCases
  <2>2. Stage' = Stage
    BY <2>1 DEF Stage
  <2>3. CASE Good' = Good
    BY <1>b, <1>c, <2>1, <2>2, <2>3 DEF Good
  <2>4. CASE Good' # Good
    <3>1. PICK i \in attached : status # "cancelled" /\ Good' = Good \cup {i}
      BY <2>1, <2>4
    <3>2. i \in Images /\ Stage # "cancelled"
      BY <1>a, <3>1 DEF TypeOK, Stage
    <3>3. Report!Verify(i)
      BY <1>b, <1>c, <2>1, <2>2, <3>1, <3>2 DEF Report!Verify, Good
    <3> QED
      BY <3>2, <3>3
  <2> QED
    BY <2>3, <2>4
<1> QED
  BY <1>1, <1>2, <1>3, <1>4, <1>5 DEF Collecting

(* The outcome is stored. *)
LEMMA RefinesPersist ==
    ASSUME ToldInv, NEW f \in Finalizers, Persist(f)
    PROVE  \E S \in SUBSET Images, gap \in BOOLEAN : Report!Store(S, gap)
<1>a. TypeOK /\ SendInv /\ WorkIsLate /\ CountsGood /\ LastWord /\ OneCount /\ DeliveredIsTold
  BY DEF ToldInv, IInv, SendInv
<1>b. /\ fin[f].at = "delivered" /\ InFlight(f)
      /\ status' = Outcome(fin[f].seen) /\ sent' /\ stored' = fin[f].seen.counted
      /\ UNCHANGED <<attached, check, chat, history>>
  BY DEF Persist, slips, line, InFlight
<1>1. fin[f].seen \in Messages /\ fin[f].seen # NoMessage
  BY <1>a, <1>b, NullAssumption DEF TypeOK, RunType
<1>2. stored' \subseteq Good
  BY <1>a, <1>b, <1>1 DEF CountsGood
<1>3. status \in Final /\ status' \in {"completed", "review_needed", "failed"}
  BY <1>a, <1>b DEF WorkIsLate, Outcome
<1>4. Stage = "claimed" /\ Stage' = "claimed"
  BY <1>3, StageOf, StageNext DEF Final
<1> DEFINE gap == fin[f].seen.missing
<1>5. /\ gap \in BOOLEAN /\ fin[f].seen = [counted |-> stored', missing |-> gap]
      /\ status' = Report!Verdict(stored', gap)
  BY <1>1, <1>b DEF Outcome, Messages, Report!Verdict
<1>6. chat \in Seq(Messages) /\ chat # <<>>
  BY <1>a, <1>b DEF DeliveredIsTold, TypeOK
<1>7. 1 \in 1..Len(chat)
  BY <1>6
<1>8. ~beside => ~sent
  BY <1>a, <1>b DEF LastWord
<1>9. ~beside /\ ~recounted => chat[1] = [counted |-> stored', missing |-> gap]
  BY <1>a, <1>b, <1>5, <1>7 DEF OneCount, Says
<1>10. /\ ~beside => Record = NoMessage
       /\ Record' = [counted |-> stored', as |-> status']
  BY <1>b, <1>8 DEF Record
<1>11. UNCHANGED <<Stage, attached, Verified \cap attached, chat, history>>
  BY <1>b, <1>4 DEF Verified
<1> HIDE DEF gap
<1>12. Report!Store(stored', gap)
  BY <1>2, <1>4, <1>5, <1>6, <1>9, <1>10, <1>11 DEF Report!Store, Report!history, Good
<1>13. stored' \in SUBSET Images
  BY <1>a, <1>2 DEF Good, TypeOK
<1> QED
  BY <1>5, <1>12, <1>13

(* LINE shows the summary. *)
LEMMA RefinesAccept ==
    ASSUME ToldInv, NEW f \in Finalizers, Accept(f), chat' # chat
    PROVE  Report!Tell
<1>a. IInv /\ TypeOK
  BY DEF ToldInv, IInv
<1>b. /\ chat = <<>> /\ status \in Final
      /\ \E g \in Finalizers :
             wire[g] \in Messages /\ wire[g].counted \subseteq Good /\ chat' = <<wire[g]>>
  BY <1>a, ChatCases DEF Finalizing, Proceed
<1>1. PICK m \in Messages : m.counted \subseteq Good /\ chat' = <<m>>
  BY <1>b
<1>2. UNCHANGED <<batch, slips, history>>
  BY DEF Accept
<1>4. m.missing \in BOOLEAN /\ m = [counted |-> m.counted, missing |-> m.missing]
  BY DEF Messages
<1>5. Stage = "claimed" /\ UNCHANGED <<Stage, attached, Verified \cap attached, Record, history>>
  BY <1>b, <1>2, StageOf DEF batch, slips, Stage, Verified, Record
<1> QED
  BY <1>b, <1>1, <1>4, <1>5 DEF Report!Tell, Report!history, Good

(* A finalizer claims the batch, leases it or recovers it. *)
LEMMA RefinesEnter ==
    ASSUME ToldInv, NEW f \in Finalizers, ClaimOpen(f) \/ Lease(f) \/ Recover(f)
    PROVE  [Report!Next]_(Report!vars)
<1>a. IInv /\ TypeOK /\ SendInv /\ WorkIsLate
  BY DEF ToldInv, IInv, SendInv
<1>1. PICK kind \in {"cron", "sweep", "admin"} :
          /\ Entered(f, kind) /\ UNCHANGED slips
          /\ \/ kind = "cron" /\ status \in OpenStates
             \/ Lease(f) \/ Recover(f)
  BY <1>a, EnterEffect
<1>2. UNCHANGED <<attached, Verified \cap attached, chat, Record>>
  BY <1>1 DEF Entered, slips, line, Verified, Record
<1>3. /\ Stage' = "claimed"
      /\ beside' \in {beside, TRUE} /\ recounted' \in {recounted, TRUE}
  <2>1. Finalizing
    BY DEF Finalizing, Proceed
  <2>2. /\ beside' \in BOOLEAN /\ (beside => beside')
        /\ recounted' \in BOOLEAN /\ (recounted => recounted')
    BY <1>a, <2>1, LineCases
  <2> QED
    BY <1>1, <1>a, <2>2, StageNext DEF Entered, TypeOK
<1>4. CASE kind = "cron" /\ status \in OpenStates
  <2>1. Silent /\ \A g \in Finalizers : ~InFlight(g)
    BY <1>a, <1>4 DEF WorkIsLate, OpenStates, Final, Silent
  <2>2. UNCHANGED history
    BY <1>1, <1>a, <2>1 DEF Entered, TypeOK, Silent
  <2>3. Report!Claim
    BY <1>2, <1>3, <1>4, <2>2, StageOf DEF Report!Claim, Report!Taking, Report!history, OpenStates
  <2> QED
    BY <2>3 DEF Report!Next
<1>5. CASE Lease(f) \/ Recover(f)
  <2>1. status \in Final
    BY <1>5 DEF Lease, Leasable, Recover, Recoverable, Final
  <2>2. Stage = "claimed"
    BY <2>1, StageOf
  <2>3. Report!TakeOn
    BY <1>2, <1>3, <2>2 DEF Report!TakeOn
  <2> QED
    BY <2>3 DEF Report!Next
<1> QED
  BY <1>1, <1>4, <1>5

(* Every step of the batch is one of the report, or none. *)
LEMMA RefinesStep ==
    ASSUME ToldInv, [Next]_vars
    PROVE  [Report!Next]_(Report!vars)
<1>a. IInv /\ TypeOK /\ SendInv
  BY DEF ToldInv, IInv
<1>1. ASSUME UNCHANGED <<status, sent, stored, attached, check, chat, history>>
      PROVE  [Report!Next]_(Report!vars)
  BY <1>1 DEF Report!vars, Report!history, Stage, Verified, Record
<1>2. ASSUME NEW f \in Finalizers, Park(f) PROVE [Report!Next]_(Report!vars)
  <2>1. UNCHANGED <<sent, stored, attached, check, chat, history>>
    BY <1>2 DEF Park, slips, line
  <2>2. CASE status = "processing" /\ ~sent
    <3>1. status' = "review_needed"
      BY <1>2, <2>2 DEF Park
    <3>2. Stage = "claimed" /\ Stage' = "claimed"
      BY <2>2, <3>1, StageOf, StageNext DEF Final
    <3> QED
      BY <2>1, <2>2, <3>2 DEF Report!vars, Report!history, Verified, Record
  <2>3. CASE ~(status = "processing" /\ ~sent)
    <3>1. status' = status
      BY <1>2, <2>3 DEF Park
    <3> QED
      BY <1>1, <2>1, <3>1
  <2> QED
    BY <2>2, <2>3
<1>3. ASSUME NEW f \in Finalizers, Accept(f) PROVE [Report!Next]_(Report!vars)
  <2>1. CASE chat' = chat
    BY <1>1, <1>3, <2>1 DEF Accept, batch, slips
  <2>2. CASE chat' # chat
    BY <1>3, <2>2, RefinesAccept DEF Report!Next
  <2> QED
    BY <2>1, <2>2
<1>4. ASSUME NEW f \in Finalizers, Persist(f) PROVE [Report!Next]_(Report!vars)
  BY <1>4, RefinesPersist DEF Report!Next
<1>5. ASSUME NEW f \in Finalizers,
             FetchStale(f) \/ LeaseConflict(f) \/ Loads(f) \/ Refuse(f) \/ BreakOff(f) \/ Drop(f)
      PROVE  [Report!Next]_(Report!vars)
  BY <1>1, <1>5 DEF FetchStale, LeaseConflict, Loads, Load, Refuse, BreakOff, Drop, batch, slips, line
<1>6. ASSUME NEW f \in Finalizers, NEW missing \in BOOLEAN, Push(f, missing)
      PROVE  [Report!Next]_(Report!vars)
  BY <1>1, <1>6 DEF Push, batch, slips
<1>7. CASE Tick \/ WindowEnds \/ Forget
  BY <1>1, <1>7 DEF Tick, WindowEnds, Forget, batch, slips, line
<1>8. CASE Finalizing
  <2>1. PICK f \in Finalizers : ClaimOpen(f) \/ FetchStale(f) \/ Recover(f) \/ Proceed(f) \/ BreakOff(f) \/ Drop(f)
    BY <1>8 DEF Finalizing
  <2>2. CASE Proceed(f)
    BY <2>2, <1>2, <1>3, <1>4, <1>5, <1>6, RefinesEnter DEF Proceed, Loads
  <2> QED
    BY <2>1, <2>2, <1>5, RefinesEnter
<1>9. CASE UNCHANGED vars
  BY <1>1, <1>9 DEF vars, batch, slips, line
<1> QED
  BY <1>7, <1>8, <1>9, RefinesSlip DEF Next

LEMMA RefinesInit == Init => ToldInv /\ Report!Init
<1> SUFFICES ASSUME Init PROVE ToldInv /\ Report!Init
  OBVIOUS
<1>1. IInv
  BY InitIInv
<1>2. ReadIsAttached /\ DeliveredIsTold
  BY DEF Init, ReadIsAttached, DeliveredIsTold, NoCheck, NoRun
<1>3. Report!Init
  BY DEF Init, Report!Init, Stage, OpenStates, Record, NoCheck
<1> QED
  BY <1>1, <1>2, <1>3 DEF ToldInv

(* The OCR checks, the cancel, the corrections, the finalizers and what    *)
(* LINE makes of their pushes implement SummaryReport (batch-finalizer.ts, *)
(* batch-recovery.ts, check-service.ts).                                   *)
THEOREM SummaryImplementsReport == Spec => Refines
<1>1. ToldInv /\ [Next]_vars => ToldInv'
  BY ToldStep
<1>2. ToldInv /\ [Next]_vars => [Report!Next]_(Report!vars)
  BY RefinesStep
<1> QED
  BY <1>1, <1>2, RefinesInit, PTL DEF Spec, Refines, Report!Spec
=============================================================================
