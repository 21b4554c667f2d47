# TLA+ models of the LINE bot

The repository is a Next.js application with a Supabase (PostgreSQL) database.  A LINE bot
collects produce weights, produce prices, payment slips, white sheets and inventory counts
from the chat groups of a wholesale market and turns them into daily summaries.  Nearly all
state is in PostgreSQL; the TypeScript code runs as short serverless invocations that call
SQL functions (RPCs), each one transaction.  What is hard about the program lies between
those transactions: LINE redelivers webhooks, invocations of different requests and of the
cron jobs interleave, any of them may be killed after any RPC, and time limits race with
late work.

This directory models that part of the program: one TLA+ module per protocol, TLC
configurations that check it on small instances, and TLAPS proofs of what matters most for
every instance.  Paths below are relative to the repository.

## 1. Inventory

Each entry: the state kept, the operations, what it talks to, what is hard, what must hold.
`(modelled)` entries have a module; for the others see sections 2 and 7.

### 1.1 Ordered LINE webhook queue (modelled: `WebhookQueue`)

* State: table `line_webhook_event_queue` (status, receive order, claim token, lease start,
  surfaced mark) and the sequence behind `receive_order`
  (`supabase/migrations/20260801140442…`, `20260915170100…`, `20260919134000…`,
  `20260930090000…`).
* Operations: receive one event or a payload, claim, complete, quarantine, reconcile (RPCs);
  `processEvents`, `drainOrderedSource`, `recoverPendingOrderedEvents`
  (`src/lib/line/webhook-service.ts`); the webhook route and the once-per-minute cron route.
* Talks to: LINE (delivers and redelivers payloads), every feature of the bot (the business
  work of an event).
* Hard: several drains and the sweep claim from one source; a worker may outlive its lease;
  the platform kills invocations anywhere; an event may arrive late with an earlier LINE
  time; poisoned events.
* Must hold: a later event never overtakes an earlier open one; an event is worked on by one
  live invocation at a time; a row that left the queue never comes back; every received
  event leaves the queue and a stale one reaches an operator.

### 1.2 Slip image ledger, slip batches and their finalizer (modelled: `SlipIngest`)

* State: `slip_image_events` (one row per image event: state, batch, attempts, lease, retry
  time), `slip_batches` (collecting, closing, processing, completed, review_needed, failed,
  cancelled; the LINE times of its open and its close)
  (`supabase/migrations/0021`-`0024`, `20261017100000_slip_image_ingestion_ledger.sql`).
* Operations: capture and bind by trigger, begin / attach / fail (leased, fenced attempts
  with a backoff and a budget), open, close, `cancel_collecting_slip_batch`,
  `claim_closing_slip_batch`, accounting, final status, recovery cron
  (`src/lib/slips/image-ingestion.ts`, `slip-session-service.ts`, `batch-finalizer.ts`,
  `src/lib/line/webhook-service.ts`).
* Talks to: the ordered queue (which commits the ledger rows with the queue rows), the white
  sheet reader and the settlement drafts (which take images away), OCR, the LINE API.
* Hard: images still in flight while the close is claimed; late images; an attempt that
  answers after its lease; a session inserted between the lookup and the receipt of an
  image; a close that acts on a batch it read earlier.
* Must hold: a summary called complete misses no image; a settled total never changes; an
  attempt that lost its row changes nothing; no image keeps a batch waiting for ever.

### 1.3 Slip OCR checks, summary delivery and recovery (modelled: `SlipSummary`)

* State: per-image OCR checks with claim and fence (`20261017110000_slip_ocr_claim_fencing.sql`,
  `20261105090000_cancel_slip_session.sql`, `src/lib/slips/check-service.ts`); on the batch, the
  retry key, the time of the last update and the stored outcome of its summary.
* Operations: claim, answer, fail and redrive a check; a correction quoted by the sender; cancel;
  the finalizer of the cron, its sweep of batches left in processing, and the administrator's
  recovery (`batch-finalizer.ts`, `batch-recovery.ts`).
* Talks to: the OCR provider, the LINE push API, the ledger of 1.2 (which images a batch has).
* Hard: a late answer against a newer claim, a cancel or a final batch; two finalizers of one batch;
  a push whose answer is lost; a retry key that LINE forgets after a day; a correction that waits
  for the lock of a batch that is being cancelled.
  An image counts when it is verified and not flagged by the validation guard (amount, date, outlier,
  duplicate in the batch or elsewhere), which a correction or another batch may change from one
  reading to the next.
* Must hold: the chat gets one summary; what it counted stays verified; what is stored is what it
  said, as long as nobody counts again; a cancelled batch counts nothing; every closed batch is
  summed up or parked.

### 1.4 Slip ledger health alert

* State: one alert row (`20261019120000…`, `src/lib/slips/ledger-health-alert.ts`).
* Must hold: an alert is sent once per incident although the cron overlaps itself.

### 1.5 Pending produce sessions (modelled: `PendingSession`)

* State: one row per chat and sender with its generation, its boundaries (header and close), the
  time of the next attempt; the ledger of its messages; deferred item messages; reviews
  (`pending_sessions`, `pending_session_ingest`, `pending_produce_deferred_events`,
  `produce_entry_validation_reviews`; migrations `0032`, `20260815094931…`, `20260831120000…`,
  `20260901090000…`, `20260924090000…`).
* Operations: a header opens or rotates, an item is appended, deferred or refused, a close passes
  the entry gate and sets the boundary; the cron resolves deferred items, validates a snapshot and
  saves it, or holds it for a review; sweeps end what was left open
  (`src/lib/line/webhook-service.ts`, `pending-session-service.ts`, `pending-session-finalizer.ts`).
* Talks to: the ordered queue, the LINE API (replies and pushes), the notification outbox.
* Hard: messages of one list reach the queue in any order; the finalizer and the close gate act on
  snapshots while items arrive; a review is recorded, shown, marked and confirmed in separate calls.
* Must hold: a list is saved whole or not at all, with nothing the operator did not confirm, no
  item is lost between two lists, and a closed list ends.

### 1.6 Produce notification outbox (modelled: `ProduceNotification`)

* State: per finalized session a notice (status, attempts, cycle, LINE retry key,
  environment) and a log of its attempts (`produce_session_notifications` and
  `produce_notification_attempts`; `0034_produce_notification_delivery.sql`,
  `20260806112815_…require_environment.sql`, `20260825092015_…`).
* Operations: written with the finalization, claimed in batches, pushed to LINE, completed,
  requeued by an operator (`src/lib/line/produce-notification-delivery.ts`, `reply.ts`; the
  once-per-minute route `finalize-pending-produce-sessions`).
* Talks to: the LINE push API, which accepts a retry key once and forgets it after a day;
  the administrators' resend.
* Hard: a push that was accepted and whose answer or completion is lost; a worker that dies
  in the middle of its batch; a late completion after another claim or a resend.
* Must hold: what was asked for arrives at most once; a notice called sent was delivered;
  every notice is in the end sent or given up on.

### 1.7 Purchase capture (modelled: `PurchaseCapture`)

* State: the session of a sender with its status, its admitted messages, its close boundary and
  barrier and the receipt revision it previewed; the receipt's draft; the movement posted from it;
  an outbox of previews and success notices (`20260805130000…` to `20260805160000…`,
  `20260729084558…`, `20260729172613…`).
* Operations: open, admit, close, cancel; the finalizer's sweep (candidate, draft, finalize); the
  commands confirm and recheck; the recovery of sessions left in confirming; the push of the outbox
  (`src/lib/purchase-capture`, the route `finalize-purchase-capture`).
* Talks to: the ordered queue, the product registry and parsers, the inventory ledger, the LINE API.
* Hard: the draft is saved by a call that knows nothing of the session; messages come in while a
  finalizer works on what it read; sweeps overlap; a confirmation is five calls, any of which may be
  the last.
* Must hold: stock is posted once, as the sender saw it; a session ends on all it admitted; a closed
  session leaves closing and a confirmation that begins ends in the chat.

### 1.8 Physical inventory capture, manual slip sessions

* Two more capture sessions (open, append, finish, cancel, expire, confirm) with a fence per source:
  `0047…`, `lib/physical-inventory`; `0027`, `0030`, `20260926090000…`,
  `lib/line/manual-slip-session-service.ts`.
* Must hold: one open session per source, an append never lands in a closed session, a close
  counts exactly the appended messages, a postback of an old card is refused.

### 1.9 Inventory movement ledger, purchase receipts, cost valuation, profitability

* State: append-only ledgers and derived rows (`20260729…`, `20260809…`).
* Must hold: posting is idempotent, a reversal is posted once, the derived numbers follow
  the ledger.
* The receipts' draft, confirmation and posting are steps of `PurchaseCapture`.

### 1.10 White sheet: lifecycle, notes, review turns, reader

* State: sheets, versions, notes and review turns (`0038`, `0043`, `0045`,
  `20260801092255…`, `20261007120000…`, `lib/white-sheet*`).
* Must hold: a turn is answered once and by the sheet version it was asked about.

### 1.11 Guided menu, settlement and settlement-OCR drafts, data-quality issues

* Session rows per user or group with versions and expiry (`20260729074617…`, `20260730…`,
  `lib/line/guided-menu`; settlement services; data-quality issue rows).

### 1.12 Parsers, product dictionary, summaries, PDF, morning brief, AI analyst, dashboards, auth

* Pure functions, rendering and UI; no protocol of their own.

## 2. Plan

The order is by what the program cannot do without.

| # | Modules | Composes / refines | Question |
|---|---------|--------------------|----------|
| 1 | `WebhookQueue`, `OrderedDelivery`, `WebhookQueueProofs` | queue implements ordered delivery | done (sections 3–6) |
| 2 | `SlipIngest`, `SlipCollection`, `SlipIngestProofs` | uses the queue as `OrderedDelivery` describes it; ledger implements the collection of images | done (sections 3-6) |
| 3 | `SlipSummary`, `SummaryReport`, `SlipSummaryProofs` | implements the report to the chat; OCR claims, corrections and a cancel over a batch; several finalizers, the LINE retry key, stale and manual recovery | done (sections 3-6) |
| 4 | `ProduceNotification`, `NoticeDelivery`, `ProduceNotificationProofs` | outbox implements the delivery of notices | done (sections 3-6) |
| 4b | `LedgerAlert` | the health alert's incident and recovery notices, on the same contract with LINE | can a recovery overtake its incident, or an alert be lost? |
| 5 | `PendingSession`, `ListKeeping`, `PendingSessionProofs`, `PendingSessionKeeping` | uses the queue as `OrderedDelivery` describes it; capture implements the keeping of lists | done (sections 3-6) |
| 6 | `PurchaseCapture`, `PurchasePosting`, `PurchaseCaptureProofs` | capture implements the posting of what was shown; finalizers, confirmation and its recovery, the receipt they share, an outbox | done (sections 3-6) |
| 6b | `InventoryCapture`, `ManualSlips` | the capture sessions of 1.8 | does an append ever land in a closed session? |
| 7 | `InventoryLedger`, `WhiteSheet`, `GuidedMenu` | | idempotence and stale postbacks |
| 8 | compositions | `WebhookQueue` with `SlipIngest`; row locks of the slip RPCs; surfacing and sweep fairness of the queue | does the queue's replay keep the ledger exact? do two RPCs deadlock? |

Every protocol modelled so far has an abstract specification it is proved to implement.  Proofs
planned next: the same for the modules to come.  The runs are kept few: one instance per question,
with every property that instance can answer.

## 3. The modules

### 3.1 `WebhookQueue`

| Model | Code |
|-------|------|
| `status`, `order`, `age`, `leaseAge`, `token`, `surfaced`, `nextOrder` | the columns of `line_webhook_event_queue` and its sequence; ages instead of times, saturating at the last threshold compared |
| `inv` | one serverless invocation: where it is, its payload, its sources, its remaining budget, the event it works on |
| `mark` | history variable: how many rows had been received when a row was last claimed |
| `Deliver`, `Receive` | `processEvents`: one RPC for a lone event, one for all images of a payload together, one for any other event |
| `Claim`, `ClaimNothing`, `NextSource`, `SkipSource`, `EndDrain` | `drainOrderedSource` and `claim_line_webhook_event`, quarantine included |
| `Process`, `CompleteProcessed`, `Release` | the business work (one step that succeeds or fails) and `complete_line_webhook_event` |
| `Recover` | `recoverPendingOrderedEvents` |
| `Reconcile`, `Dismiss` | the cron's reconcile RPC and the operator's manual review |
| `Crash`, `Kill`, `Tick` | the platform and the clock |

An RPC is a transaction and one step; between RPCs anything may happen.

`OrderedDelivery` says what the rest of the bot may rely on: an event is taken only when no
earlier one that arrived before is unsettled, and it may be taken again until it is done or
dropped.  `WebhookQueue!Refines` maps the queue to it.

### 3.2 `SlipIngest`

| Model | Code |
|-------|------|
| `queue`, `work`, `target` | the events of one LINE source in the ordered queue, their live worker and the locals of `processSlipClose` |
| `status`, `opener`, `closer` | `slip_batches`; a batch knows its commands, whose `Stamp` is the LINE time of its open and close |
| `verdict`, `ledger` | the row as the capture trigger computes it, and as it is committed |
| `try` | the caller of each attempt: still waited for by a queue worker, running without one, or over; the index is the fencing token |
| `elsewhere` | images another flow marked processed |
| `counted`, `claimed` | the finalizer's accounting; history of the images present at the claim |
| `Capture`, `Receive` | `capture_slip_image_event` inside `receive_line_webhook_payload`, and its commit |
| `OpenSession`, `FindActive`, `CloseBatch`, `Cancel` | `openSession` with `bind_unbound_slip_image_events`, `processSlipClose`, `cancel_collecting_slip_batch` |
| `ProcessImage`, `RowLocked`, `Redrive` | `begin_slip_image_attempt` from the queue worker and from the sweeps |
| `Attach`, `Fail` | `attach_slip_image_event`, `fail_slip_image_event` |
| `ClaimClosing`, `Abandon`, `Account`, `Finalize` | `claim_closing_slip_batch`, `finalizeDueSlipBatches`, `slip_batch_image_accounting`, the last update of `finalizeSlipBatch` |

What is abstracted:

* One LINE source; every event has a LINE timestamp; the ledger migration is applied, so
  images without a ledger row and the legacy attach do not occur.
* Leases, backoffs and waits are not measured.  `Elapse` ends a lease or a backoff at any
  time after it began, and a claim finds its waits over or not over freely.  This allows
  more than the clock does, so every safety property holds for any choice of the times.
* The receipt of an image is two steps, because the trigger's lookup and the commit of the
  receipt see different states of `slip_batches`.  The other RPCs are one step each: they
  lock the batch or the row they decide on.
* The queue is used through its contract: an event is taken when no unsettled one is
  earlier, and never beside a live worker, which `WorkIsExclusive` proves for a platform
  limit (60 s) below the lease (5 min).  An attempt outlives its worker and may answer at
  any time.
* `Abandon` needs the open command to have left the queue: an abandoned batch has been idle
  for 60 minutes, the age at which the queue gives an event up.
* OCR is reduced to its result for the final status; the OCR gate and the quiet period are
  part of `ready`.  The sending of the summary and its recovery are left to `SlipSummary`.

`SlipCollection` says what the ledger and the sessions promise together, without queue, LINE times,
attempts and leases: a session goes its way once; an image has at most one session, for good; it
enters the total only while its session takes images, and after the claim it can only be found out
of it or late; a summary is complete only if its count found nothing owed or late.
`SlipIngest!Refines` maps the ledger to it: an image is in the total once attached, out of it when it
was sent after the close or used by another flow, late when it was refused because its session was
already claimed, and owed in every other state of its row, given up on included: a summary that was
made without it is not complete.

### 3.3 `ProduceNotification`

| Model | Code |
|-------|------|
| `row`, `log` | `produce_session_notifications` and the outcome of each of its `produce_notification_attempts`; `key` stands for the UUID of `line_retry_key`, named by the resend it was minted for |
| `pc`, `todo`, `now` | a worker: the claims its RPC returned, as snapshots, and the one it is at |
| `wire`, `known`, `copies` | LINE: pushes not yet taken in, the retry keys it remembers, the messages in the chat by key |
| `Finalize` | the notice is written in `try_finalize_pending_generation` |
| `Claim`, `Requeue`, `Completed` | `claim_due_produce_notifications`, `requeue_produce_notification`, `complete_produce_notification_attempt` |
| `Push`, `Delivered`, `Refused`, `Unanswered`, `Complete`, `FailToComplete` | `deliverClaimedProduceNotification`, `pushLineMessage` and the loop of `processDueProduceNotifications` |
| `Accept`, `Forget` | LINE (external): takes in a push at any time after it was sent, whatever became of its sender; forgets a key |
| `Elapse`, `Crash` | the two minutes of a claim and the backoffs; the platform |

`NoticeDelivery` says what the outbox promises: each request reaches the chat at most once,
and a notice is called sent only when its last request did.  A push whose worker crashed or
was told nothing may still be taken in later, also after the notice was given up on: the
abstract `Reach` allows that, the code cannot prevent it.

What is abstracted: the times of claims and backoffs (they end at any time; with
`LateWorkers` false, only once no worker still has the claim); the wording; notices of
sessions that were superseded; the direct push of application versions older than the
outbox.  A batch is claimed as any set of due rows up to `ClaimLimit`.

### 3.4 `SlipSummary`

One batch with its images.  The ledger of `SlipIngest` is reduced to which images are attached.

| Model | Code |
|-------|------|
| `status`, `sent`, `stored`, `rest`, `window` | the row of `slip_batches`: its status, what is stored of its summary, the time since its last update, whether LINE's 24 hours since its close still run |
| `attached`, `check`, `jobs` | the evidence of the batch; the OCR checks, with their claim and result; OCR workers that have not answered |
| `cancelling`, `held` | a cancel that holds the batch row; checks whose row a correction holds |
| `fin` | each finalizer: the cron's, its sweep's or the administrator's, with the snapshot it counted |
| `wire`, `known`, `chat` | LINE: pushes not yet taken in, whether the retry key is remembered, the summaries in the chat |
| `Attach`, `Close`, `Claim`, `Answer`, `LeaseEnds` | `claim_slip_check`, `processEvidence` with `complete_slip_check` and `fail_slip_check`, the redrive |
| `BeginCancel`, `Cancel`, `BeginCorrect`, `Correct`, `Write` | `cancel_collecting_slip_batch` and `apply_slip_amount_correction` with the trigger `guard_cancelled_slip_check`, each split where it waits for the other's lock |
| `ClaimOpen`, `FetchStale`, `Lease`, `LeaseConflict`, `Recover` | how a finalizer comes by the batch |
| `Counted` | which images a reading counts: `computeValidationFlags` and `applyGlobalDuplicateExclusions` |
| `beside`, `recounted` | history: an administrator's recovery ran beside another finalizer; a finalizer began after an earlier one's push |
| `Load`, `Push`, `Accept`, `Refuse`, `Drop`, `Outcome`, `Persist`, `BreakOff`, `Park` | `finalizeSlipBatch` and what LINE makes of its push |
| `Tick`, `WindowEnds`, `Forget` | the minutes of a stale batch, the end of the safe window of the retry key, LINE's oblivion |

A finalizer counts the verified images of the batch that are not flagged.  The guards flag an image
for its date, for no amount or one far above the others', for the bank reference of an image before
it in the batch, and for that of an earlier check of any batch.  What they decide is not monotone: a
correction that verifies an image with a reference makes a later image with that reference a
duplicate, an amount shifts the median, another batch's check or an operator's resolved reference
makes or unmakes a duplicate.  `Load` therefore takes any set of images as flagged, afresh at each
reading.  That includes every outcome of the guards, so what is checked and proved holds for all of
them.  The price is said by `StoredIsShown`: push and update are separate calls, and a finalizer that
takes the batch on after an earlier one pushed and stored nothing (the update failed, the answer was
lost) counts again; LINE answers 409, and the row gets the second count, which may be less or more
than the chat shows.  This is what the code does; `recounted` records it, and without it, and without
an administrator beside a running finalizer, the row has exactly the count and the status that were
told.

What is abstracted besides: the provisional amounts that the message shows for images that are not
verified (they are counted nowhere), the legacy paths without claims and the settlement that follows.
A correction changes an amount and can never take a verification back.  A finalizer has one push
under way.  `Forget` ignores the edge of a few seconds at 24 hours, which the code's own margin
covers.

`SummaryReport` says what a batch promises to its chat and to its row, without claims, row locks,
retry keys and crashes: it is told about once, in images that are verified and stay so; a cancelled
one counts none for good; an outcome is stored only after the chat was told, in verified images and
with the status they mean; it is what was told unless the images were counted again (`again`), and
is stored once unless two finalizers were at work beside each other (`rival`).  `SlipSummary!Refines`
maps the checks, the finalizers and LINE to it.  LINE may take a summary in long before the row says
so: that is `Tell` and, later, `Store`.

### 3.5 `PendingSession`

The lists of one sender in one chat.  A message is its LINE timestamp, a document is the set of its
items, and a generation is a number.

| Model | Code |
|-------|------|
| `queue`, `job` | the messages in the ordered queue; what a worker is at, and the row it read first |
| `session` | the row of `pending_sessions` and the rows of its ledger; the number of rows is its revision |
| `deferred` | `pending_produce_deferred_events`; "expired" is a waiting row whose time has passed |
| `reviews`, `shown` | `produce_entry_validation_reviews`; history of what the operator was shown, and by which message |
| `left` | history of the rows of a list that are older than the header that replaced it |
| `run` | the finalizer at one session: its snapshot, the document it judged |
| `OpenFirst`, `OpenNext` with `Open` | `open_pending_plain_text_generation`: rotation, carry-forward and reconciliation |
| `AppendOrDefer`, `Expire`, `Resolve` | `append_or_defer_pending_produce_item`, `claim_expired_pending_produce_events` |
| `Gate`, `Confirm`, `Stage`, `Refuse`, `Reply`, `MarkPresented` | `runPlainTextCloseGate` and the refusal that follows |
| `Resume`, `AppendClose` | the close that passed: `resume_pending_close_finalization`, `append_pending_session` pinned to the revision |
| `Fetch`, `Validate`, `Hold`, `PushReview`, `MarkPushed`, `Defer`, `Save`, `Duplicate`, `Overtaken` | `finalizePendingGeneration`, its hold and its review, `try_finalize_pending_generation` |
| `Sweep` | the inactivity expiry and the recovery of refused closes |
| `LoseLease`, `Die`, `CallFails`, `GateFails`, `ReplyFails`, `Cut` | a worker that outlives its lease; calls that fail; an invocation that ends |

What is abstracted:

* What an item says is its kind: `item` is clean, `risky` needs a review, `bad` blocks the close.
  Headers differ from one another.  A message is a header, an item or a close, never several.
* Times are not measured: the quiet window, the deadline and the wait of a deferred item end at
  any time.  The sweeps' half an hour outlives any worker and any run of the finalizer.
* The queue hands out the first unsettled message; a worker whose lease has ended goes on beside
  its successor.  One finalizer runs at a time, as one cron does.
* That a saved list duplicates another is a free choice (`Duplicate`).

The rotation shows behaviour no document speaks of, and which the properties allow: an item typed
after the close but taken in before it is in the ledger and neither saved nor refused; a header
that comes after its items were saved carries them into a second list (a hazard in
`PROJECT.json`); an item can be stranded in a list left for a later header although it belongs to a
list whose own header comes late: only the generation just retired is carried forward
(`supabase/migrations/20260924090000…`), so a header that arrives after a later one no longer finds
the items of the list before that.  `NoItemForgotten` and `NothingWaitingBehind` name these cases by
`left`.

`ListKeeping` says what the capture promises to the sender, without queue, deferred messages,
revisions, attempts and holds: a header begins a list and takes the later items of the one before it
along; a list is closed only on a document that could be saved as it is, takes no later item after
that, and is saved once, whole, in at least the announced number, and only if it is clean or was
agreed to word by word; a document is agreed to once, by another closing message than one that showed
it, and not when its list is over.  `PendingSession!Refines` maps the capture to it: a list is what
the row and its ledger say of the generation, what was shown is `shown`, and the sender has agreed to
a document once its review is confirmed.  Deferring a message, a hold, a crash, a lost lease and
every failed call are steps in which nothing happens to a list.

### 3.6 `PurchaseCapture`

One session of one sender, with the receipt its opening message names.

| Model | Code |
|-------|------|
| `status`, `admitted`, `boundary`, `phase`, `bound` | the row of `purchase_capture_sessions` and its ingests; `phase` is the close barrier: quiet, due, over its deadline; `bound` is the revision it previewed |
| `receipt`, `movement` | the receipt's state, draft revision and content; what was posted of it |
| `outbox` | `purchase_capture_notifications`, in the order in which they were made |
| `fin`, `req` | what a finalizer, a command or the recovery carries from one call to its next |
| `OpenSession`, `CloseOpenEvent`, `Admit`, `BarrierPasses`, `Cancel` | `open_purchase_capture_session`, `close_purchase_capture_open_event`, `admit_purchase_capture_event`, `cancel_purchase_capture_session` |
| `ReadCandidate`, `SaveDraft`, `LoadPreview`, `FinalizeRefused`, `FinalizeFailed`, `FinalizeSucceeds` | `finalizePurchaseCaptureSession` with `upsert_purchase_receipt_draft` and `finalize_purchase_capture_session` |
| `StartConfirm`, `Begin`, `Confirm`, `Post`, `CompletePosting` | `runShared` of `confirm-flow.ts` and its four RPCs; `Sweep` as its runner is the recovery |
| `StartRecheck`, `Replace` | the recheck and `replace_purchase_capture_draft` |
| `Claim`, `Delivered`, `PushFails` | the outbox' claims and the push worker |
| `KillSweep` | the platform ends the sweep; a command that dies takes no further step |

What is abstracted:

* The content of a receipt is what its line resolves to.  The product registry may change at any
  time, so each read of it may find any product or none.
* `form` tells a document sent whole in the opening message from one in several messages.  A set of
  messages is complete exactly when it is the document: the closing message declares how many items
  there are (`src/lib/purchases/assemble.ts`).
* The barrier's 8 and 30 seconds are not measured; each ends at any time.
* A finalizer that keeps finding its candidate stale reads again without the code's limit; the
  deadline, after which nothing is admitted, bounds it anyway.
* A part's claim inside the run that made it and a later claim by the sweep are one action, so a
  claim may come at any time; only the sweep's, for statuses it looks for, is fair.

`PurchasePosting` says what the capture promises to the sender and to the stock: messages are taken
until a document is shown or found not to be one; what is posted is the draft that was shown last,
once, after the sender agreed to it; nothing takes an agreement back.  `PurchaseCapture!Refines`
maps the capture to it; the sender has agreed once the session is confirming.

## 4. The runs

| Run | Instance | Shows |
|-----|----------|-------|
| `webhook_queue` | a payload with an image and a close, an item between them delivered on its own, 2 invocations that may crash anywhere or live as long as the lease; 0.75 M states | order, ownership within the lease, payload durability; the queue implements `OrderedDelivery` although leases run out |
| `webhook_queue_live` | 2 events, invocations shorter than the lease, fairness; 0.19 M states | no two invocations work on one event; every event leaves the queue, every stale one is surfaced |
| `slip_ingest` | one session, 2 images, one received together with the close, one attempt each; 1.6 M states | complete summaries are complete; totals are settled; `no_session` is never wrong while a session is open |
| `slip_ingest_retry` | one image, 2 attempts, a close and a cancel with one LINE time, a redelivered open, fairness; 0.37 M states | fencing of attempts, fixed fates; the ledger implements `SlipCollection`; attempts end, closing ends |
| `slip_ingest_excluded` | two sessions and an image received in any order | **violated**: an image of a second session, captured before its open ran and while the first session is closing, is excluded for good |
| `notification` | one notice, 2 resends, 5 attempts, 2 workers whose calls may outlive their claims, 2 crashes or failed completions; 0.62 M states | sent is true, one copy per request, the log agrees with the row; the outbox implements `NoticeDelivery` |
| `notification_live` | 2 notices claimed together, keys that LINE forgets, fairness; 0.11 M states | every notice is sent or given up on |
| `slip_summary` | one image, 2 OCR claims, a cancel, a correction, 2 finalizers, one of which may be an administrator's, one crash or failed call, any flags at each reading, fairness; 0.35 M states | one summary in the chat, and stored as it was told while nobody counts again; its count stays; the whole implements `SummaryReport`; every closed batch ends |
| `pending_session` | four scripts of 4 messages in any order of arrival (an item to review and two closes; two headers, an item and a close that announces it; a clean item and one that blocks, or one to review), 2 workers, one fault, fairness; 0.31 M states | no item is lost or left behind; the capture implements `ListKeeping`; a closed list has no attempt to come only while a review of what it is by now waits; a closed list ends or waits for the operator |
| `pending_session_confirmed` | a header, an item to review and three closes, one worker, no fault, fairness | **violated**: a review confirmed between the finalizer's look and its hold leaves the list parked for ever |
| `purchase_capture` | a document of three messages and one message too late, or a document in one message; the sweep and one finalizer beside it, one command beside the recovery, one recheck, one fault, fairness; 0.47 M states | stock is posted only as it was shown; the capture implements `PurchasePosting`; closing ends; a confirmation ends in the chat unless its draft is overwritten |
| `purchase_capture_overwritten` | the document in time, no recheck, no fault, fairness | **violated**: a finalizer that overlaps the winner saves its draft after the confirmation began, and the session stays confirming for ever |

`CHECK_DEADLOCK FALSE` everywhere: the program may come to rest when every event has been
worked on.

Bounds.  Queue: `StaleAge` 3, `Lease` 2 and `MaxDuration` 1 tick keep the order of the real
60 min, 5 min and 60 s (`MaxDuration` 2 in `webhook_queue`, which lets a worker go on at the
end of its lease); budgets of 1 make every drain stop early; two invocations are enough for
one to act between the steps of another, and a third event for one to be late.  Slips:
`Depth` is the code's 5; `MaxAttempts` 2 lets an attempt be overtaken and answer late;
`MaxBatches` 2 gives a session a successor.  Notices: `MaxCycle` 2 (5 in the code) has a
last attempt and one before it; 5 attempts and 2 resends leave a full cycle after either
resend, and old pushes on the wire beside it; 2 faults let a takeover be taken over.
Summaries: `StaleAge` 2 and `MaxDuration` 1 tick keep the order of the sweep's threshold and the
platform's limit, 2 claims let an OCR answer be late, 2 finalizers race, and one fault splits a
push from its record.  Pending sessions: 2 headers make a rotation, 2 closes a review and its
confirmation, a second item lets a list grow after it was judged, and 2 workers with one lost lease give every message a worker that acts on what it
read before; `MaxFaults` 1 is enough for any one call of the chain to fail.  Purchase capture: a part of the document between
its two ends and one after them tell what the boundary and the barrier keep; one product beside
`Unresolved` tells two drafts apart, as their revisions do; one finalizer beside the sweep's lets a
draft be saved over another, one command beside the recovery lets two confirmations meet, and one
recheck supersedes a preview; `MaxFaults` 1 splits any two calls.  What the safety
runs check is also proved for all values (section 6).

Every property of a passing run has a mutant: a variant of one definition, next to it in the
module, that differs as a plausible bug would, and violates the property in the same run.

## 5. Fairness

* Queue: `Tick` (time passes), `Reconcile` (the cron route is called every minute) and `Kill`
  (the platform ends an invocation at its limit).  No fairness is assumed of webhooks, drains
  or the recovery sweep: an event whose worker always dies leaves the queue as stale, and
  that is all the code promises.
* Slips: `Elapse` (a lease or a backoff ends), `Redrive` (the cron route lists due rows, oldest
  first, until its budget ends; a row it does not reach is listed again), and `ClaimClosing`
  with its waits over (the same route claims closing batches, and the waits are bounded by
  `p_max_seconds` and `p_ingest_max_seconds`).  No fairness of the queue, of `Attach` or of
  `Fail`: an attempt that never answers is ended by its lease.
* Notices: `Deliver` (a live worker goes on; a call that hangs is ended with its invocation,
  which is `Crash`), `Elapse`, and strong fairness of the claim of each notice: the route
  runs every minute and claims the rows that have waited longest, so no row is passed over
  for ever although it may be claimed and released meanwhile.  Crashes and failed
  completions are bounded by `MaxFaults`, attempts by `MaxAttempts`: a notice whose workers
  always die is promised nothing.
* Summaries: `Tick`, the cron's sweep (`FetchStale`, strongly, as a finalizer may have the batch
  meanwhile), the cron's claim of a closing batch, the steps of a finalizer that runs with what LINE
  answers to it, a cancel and a correction that wait for a lock (a lock is granted in the end; the
  cancel's strongly, as further corrections may take it meanwhile).  Nothing is assumed of a push
  whose sender is gone.
* Pending sessions: the queue hands out what it has and its workers go on (1.1), the times of a
  session pass, and the cron route comes back every minute: it resolves expired items and runs the
  finalizer.  Nothing makes the sender type, and no fairness of the sweeps is needed.
* Purchase capture: the barrier's clock, and the cron route of every five minutes: the sweep's
  finalizer and recovery go on and its claims and pushes are made.  Senders, commands and runs beside
  the sweep's may stop anywhere.  The model has one session, so that the sweep's limit of 25 sessions
  starves none is assumed, not shown (section 7).  The workflow is off unless
  `PURCHASE_CAPTURE_CRON_ENABLED` is set; without it nothing is promised.

Elsewhere weak fairness suffices: each of these steps stays enabled until it is taken or no
longer needed.

## 6. The proofs

All theorems hold for every value of the constants that satisfies the named assumptions of
the module (types of the constants, order of the limits); there is no bound on events,
invocations, images or batches other than the constants' own.

Nine theorems state properties that no run checks any more, being proved, and some of them part of
a refinement that is checked: `FinalityHolds` (a row that left the queue never comes back),
`CompleteIsAccounted`, `RetriesFollowAnswers` and `NoReopening` (slips), `BudgetHolds` (notices),
`CancelClears` (summaries), `SavedWhole` and `SavedReviewed` (pending sessions) and `EndsWhole`
(purchases).

A refinement is proved in the same way everywhere: a lemma per action, or per kind of step where the
step lemmas already tell them apart, shows which step of the abstract specification it is, under the
invariants proved before; `RefinesInit` or its like treats the initial states.

`WebhookQueueProofs`: `TypeCorrect`, `NeverOvertaken`, `LeaseProtects`, `WorkIsExclusive`,
`FinalityHolds`, `PayloadsAreDurable` and `QueueImplementsDelivery`.

* `NoOvertaking` is not inductive: a claim needs that every row present has an order below
  `nextOrder`, and that no mark exceeds it.  `OrderInv` adds both.
* `LeaseInv`: a working invocation younger than the lease owns its row, and an owned row's
  lease is not older than the invocation.  The second conjunct makes it inductive, as
  expiry is judged by the row and life by the invocation.  `ExclusiveWork` follows when
  `MaxDuration < Lease`, since two owners of one row have one token.
* `PayloadsAreDurable`: the events of a payload are received in its order, so that no event is durable
  while an earlier one is not.  `ReceiptInv` follows a payload through its receipt: what a delivery has
  behind it is received, its next request is a stretch of what is left (`RequestOK`), and the sources
  it drains are of that payload.  The theorem assumes `PayloadsAreDisjoint`: an event comes in one
  payload only, as LINE redelivers an event with the payload it came in.
* `QueueImplementsDelivery` shows that initial states and steps map to those of
  `OrderedDelivery`, from the invariants above.

`SlipIngestProofs`: `TypeCorrect`, and every safety property the slip runs check.  The
argument goes in two stages.  First, `BatchCases` and `RowCases` state what any step does to
one batch and to one row; each action is examined once for them.  Then the invariants
follow from these cases:

* `SessionInv`: a batch has a close only after it left collecting, an accounting and claimed
  images only once claimed, and is completed only after an accounting that found nothing
  missing.  With it, what was sent after a close stays so (`AfterCloseKept`), and
  `NoReopening` follows.
* `RowInv`: an image has no row before its event is received; an excluded image comes after
  the close of its batch; a row waits for a retry only when its latest attempt has answered.
  With it, a row keeps its batch and a settled row everything (`RowKept`), and every state
  has its origin (`RowOrigin`): `FatesAreFixed`, `TotalsSettle`, `RetriesFollowAnswers`.
* `NoSessionIsRight` is inductive over these: sessions only lose images of their window, and
  a session that opens adopts the rows that have none.
* `ClaimInv`: an image in the ledger when a closed batch was claimed and bound to no batch
  lies outside its window, as the claim adopts the others; no later step makes it join
  (`NothingJoins`).  `WholeInv`: what a batch held when its accounting found nothing missing
  is settled.  `CompleteIsWhole` and `CompleteIsAccounted` follow.
* `LedgerImplementsCollection` needs `SoundInv` besides: the session of a row exists, and that of a
  late row no longer takes images.

`ProduceNotificationProofs`: `TypeCorrect`, and every safety property the notification runs
check, the refinement included.  `RowCases` states what any step does to one row and its log.

* `CycleInv` (a cycle counts no more than the attempts) is what `TypeOK` needs to be inductive.
* `ClaimInv` and `UniqueInv`: a claim that is still with a worker or on the wire is of an
  attempt the row made, with the row's key and cycle if it is the last one, and no two
  workers have the same attempt.  Uniqueness is what makes an answer be about the worker's
  own push (`DeliveredInv`): a push leaves the wire only by being taken in, or refused to the
  worker that sent it.  `SentWasDelivered` follows, since a completion that counts is of the
  row's last attempt.
* `LogInv` and `BudgetInv`: the attempts of a cycle before the last are unanswered or
  failed, and the failed ones are among its first `MaxCycle - 1`.  `LogIsTrue` and, by
  counting, `BudgetHolds` follow.
* `OnceInv`: a key has one copy, and then LINE remembers it.  It needs that keys do not
  expire and that all workers push to one channel, which are the assumptions of
  `OneCopyEach` and `OutboxImplementsDelivery`.  Both are needed: with `KeysExpire` a claim taken
  over more than a day after its push delivers the summary again, and so does a resend from another
  environment.

`SlipSummaryProofs`: `TypeCorrect`, and every safety property the summary run checks.

* `ResultOfNewestClaim` and `CancelledCountsNothing` are inductive with two facts: a correction
  holds only a check that has been read, and only an open session is being cancelled.
* `AnnouncedStands` needs that a summary, and all work on one, comes after
  the claim of the batch (`WorkIsLate`), when no check loses its result any more: so what a
  finalizer counted or handed to LINE stays verified (`CountsGood`).
* `OneSummary`: LINE forgets the retry key only when nobody is left to send again
  (`ForgottenForGood`), as the window within which the code recovers a batch closes earlier.
* `StoredIsShown`: `ClaimIsFresh` (a run is not older than the stamp of its claim) and
  `MaxDuration < StaleAge` leave one finalizer at a time unless an administrator's recovery runs
  beside it (`Alone`), and the one that stores is the last (`LastWord`).  A finalizer that enters when
  no push is on the wire or in the chat hears nothing before its own push and nothing else after it,
  so what it stores is what was told (`OneCount`).  No fact about the flags is used.  That something
  was told at all is `DeliveredIsTold`.
* `SummaryImplementsReport` needs `ToldInv`: besides, only attached images have a check, and LINE knows
  the key, a finalizer a delivery and the row an outcome only of a summary that is in the chat.

`PendingSessionProofs`: `TypeCorrect`, and every safety property the session run checks.  What a
step does to a session is one of two things (`SessionCases`): it goes on with the generation, which
only grows, is closed once and ends once (`Continues`), or a header opens the next (`Rotated`).

* `RunForm`: as long as the generation is the finalizer's, the document it judged lies between its
  snapshot and the list by now.  A save is pinned to the rows of the snapshot, so both ends meet:
  `SavedIsWhole`.  It also keeps that a judged document without errors needs no review or has one
  confirmed; `ReviewForm` (one review of a document, delivered after it was shown, confirmed by
  another message than one that showed it) then gives `ReviewedBeforeSaved`.
* `BoundaryKinds` (boundaries are headers and closing messages) is why a rotation, which carries all
  rows but the old boundaries, loses no item: `RowKept`.  With `JobForm` (a worker is at a step of
  its message's kind) `NoItemForgotten` follows.
* `DeferredTruly`: a row judged "before" or "after" for the present generation is right about its
  boundaries, and an admitted one is in the ledger or was left.  With the trigger's guard
  (`GuardedBy`), a save has nothing behind it: `NothingWaitingBehind`.
* `ParkedWaits` needs `HoldRecorded`: the review that a hold is about has been recorded and stays.  A
  hold is pinned to the rows of the snapshot, so what it judged is the list by now (`RunForm`), and
  a row that comes in later sets the next attempt (`AsleepCases`).

`PendingSessionKeeping`: `CaptureKeepsLists`.  `ListInv` adds to the invariant above that a session has
a generation and nothing saved before it ends (`SessionBegan`), that what a gate found of its snapshot
stands until the close is set (`GatesRight`; the close is pinned to the snapshot's revision, so the
list that is closed is the one that was judged), and that a document judged without errors is clean
and closed after its header (`RunClean`).  A lemma per action, or per kind of step, shows which step
of `ListKeeping` it is; `SessionBegan` is then read off the abstract step.

`PurchaseCaptureProofs`: `TypeCorrect`, and every safety property the purchase run checks.

* `RunJudges`: a finalizer at work judged what it saw by the boundary that still stands, for the
  session was closed before it read.  Finalize compares what it saw with what is admitted, so the
  session ends on the latter: `EndsWhole`.
* `RunDrafts` and `DraftIsShown`: revisions only grow, so a preview whose revision is still the
  receipt's shows its content.  `FrozenIsBound` and `RequestFollows`: confirm freezes a receipt only
  at the revision the session is bound to, after which no draft is saved any more; so what is posted
  is what was shown (`PostedIsFrozen`, `PostedAsPreviewed`), although a finalizer may have saved over
  the draft in between: then nothing is posted at all.
* `CaptureImplementsPosting` needs `PInv` besides: previews of one revision show one draft
  (`PreviewsAgree`), the bound revision is previewed (`BoundIsPreviewed`), a capture is complete only
  after its movement was posted (`CompleteIsPosted`), and none starts with messages (`StartsEmpty`).

Only model-checked: the liveness properties, which are out of the prover's reach, and the three
violations.  Every other property of a run is proved.

## 7. What is not modelled, and why

* The components 1.4 and 1.8 to 1.11 are planned, in the order of section 2.  Those of 1.12 are pure
  functions, rendering and user interface.
* Of the queue: events without a LINE timestamp are absent from the instances; the starvation of
  a source by five failing rows of another in the recovery sweep, and the loss of a
  reconcile's answer, are listed as hazards without a property.
* Of the slip ledger: row locks (an RPC is one step; the lock orders of
  `begin_slip_image_attempt` and `claim_closing_slip_batch` are opposite, which is listed as
  a hazard), and images in the
  window of an abandoned batch, for which `CompletedIsWhole` is not stated: an abandoned batch is
  claimed without reconciling the ledger.
* Of the outbox: the duration of backoffs, the notices of superseded sessions and the resend
  from another environment are hazards without a property; see `PROJECT.json`.
* Of the summaries: what is listed as abstracted in 3.4, and what a finalized batch sets off for the
  day's settlement.  Nor is it stated which of two images with one bank reference counts, as any may
  be flagged.  The two guards order them differently: in the batch by `batch_index`
  (`src/lib/slips/validation-guard.ts:178-187`), across batches by the creation of the check
  (`src/lib/slips/transaction-dedupe.ts`).  If the OCR of the second image is claimed before that of
  the first, the first is the duplicate by one order and the second by the other, and neither counts,
  although the guard's comment says that "the first occurrence stays trusted".
* Of the pending sessions: structured sessions and their confirmation, several parts in one
  message, a header repeated word by word, group routing, the sender's cancel and the operator's
  recovery commands, the replacement and supersession of saved lists, warnings, the subunit
  confirmations that share the review's digest, and messages with equal timestamps.
* Of purchase capture: the sender's next session, the void of a posted receipt
  (`void_purchase_receipt`, which nothing in the capture calls), several parts of one notice and the index a claim takes, the notice to the operators, the parsers behind the assembly.
  Undelivered parts of sessions that were cancelled stay among the oldest rows that the sweep
  looks at (`src/lib/purchase-capture/finalizer.ts`, the limit of four times its sessions); enough of
  them would hide younger ones, which one session cannot show.
