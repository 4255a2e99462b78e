# Verification of the whats-auto backend

TLA+ models of the parts of `apps/backend` where processes, queue jobs,
webhooks and timers meet, the TLC configurations that check them and TLAPS
proofs about them. Paths below are relative to `apps/backend`.

    tlc -workers 2 -config Outbound.cfg MCOutboundDispatch      # one run
    tlapm OutboundDispatch_proofs.tla                           # the proofs, one call per module

`PROJECT.json` lists the components, the runs, the source lines each definition
translates, a mutant for every checked property (a plausible bug that the run
must detect), the findings and the hazards.

## 1. Inventory

The backend is an AdonisJS application. Web processes answer requests and
Meta's and Razorpay's webhooks; a worker process runs BullMQ handlers and crons.
They share one PostgreSQL database (READ COMMITTED), one Redis and one S3 bucket.

| Component | State it keeps | Operations | Interacts with |
|---|---|---|---|
| Job queue (`services/job_queue`) | one BullMQ job per singleton key: waiting, delayed, active or gone | enqueue (replace unless active), remove, handlers, crons | every background component |
| Outbound dispatch (`whatsapp_outbound_service`, `whatsapp_outbound_repository`) | `messages.status`, `outbound_dispatches` (status, attempts, nextAttemptAt, lease) | queue\*, executeDispatch, recoverStuckDispatches | Meta's API, the queue, receipts, campaign accounting |
| Delivery receipts (`message_receipt_repository`, `lib/meta_whatsapp/message_status`) | `messages.status/providerStatusAt`, `unmatched_provider_receipts` | apply, buffer, reconcile | webhooks, the outbound worker |
| Webhook ingestion (`whatsapp_webhook_ingestion_service`) | messages, conversations, buffered receipts | one transaction per webhook, events after commit | receipts, campaigns, flows, inbox |
| Campaign requests (`campaign_service`, `campaign_queue`) | `broadcasts.status`, `scheduledAt`, recipient rows | send, schedule, cancel, delete, replaceRecipients | the queue |
| Campaign execution (`campaign_execution_service`) | `broadcasts`, `broadcast_recipients` | executeCampaign, recoverOverdueCampaigns | outbound (queueTemplate), the queue |
| Campaign accounting (`campaign_recipient_dispatch_service`) | recipient stamps, campaign counters | applyProviderReceipt, recomputeCounters | webhooks, outbound |
| Flow engine (`services/flow/flow_execution_engine`, `flow_stack_manager`, `flow_outbound_adapter`) | node, call stack, variables and status of a session | start, resume, the run-until-wait loop over nine node types | outbound, sessions |
| Flow sessions (`flow_router_service`, `flow_inbound_buffer_service`, `enqueue_flow_advance`, `flow_session_lifecycle_service`) | `flow_sessions`, a burst of texts in Redis, one job per conversation | decide, buffer, enqueue, advance, expire | inbound messages, the engine, agents |
| Conversation AI mode (`conversation_ai_mode_service`) | `conversations.aiMode` | takeover, agent reply, handover, resume | flow sessions |
| Payment webhooks (`billing_razorpay_webhook_service`, `payment_webhook_worker`) | `payment_webhook_events` with a one-minute lease | record, wake, claim, apply, retry, park | Razorpay, billing |
| Billing orders and subscriptions (`services/billing`) | `billing_orders`, `organization_subscriptions`, `payment_transactions` | checkout, applyPaidOrder, activateFreePlan, payment events, hourly sweep | Razorpay, payment webhooks |
| Media and storage quota (`media_asset_service`, `storage_quota_service`, `storage_lifecycle_service`) | `organization_storage_objects`, quota counters, contents in S3 | upload, complete, delete, restore, purge, expire, reconcile | S3, outbound, campaigns |
| Contact import | import job with a cursor | start, process batch, resume | contacts |
| Campaign attribution | reply attribution on recipients | attribute | inbound messages |
| Flow builder, knowledge base, AI summaries | versions; documents and embeddings; summaries | CRUD, publish, ingest | model providers |
| Integration events | event ledger | record, dispatch, recover | external systems |
| Inbox events | none that lasts | fan-out to browsers | every component |
| Organizations, contacts, tags, templates, notifications, analytics, configuration, frontend | rows | CRUD, queries | |

**What is hard.**
*Leases.* Dispatches and payment events are claimed for minutes; the lease is
neither renewed nor checked again, so two workers can be at work on one row and
both record their outcome.
*Two systems, no transaction.* Meta's answer, S3's deletion or Razorpay's capture,
the commit and the queue wake can each be lost on their own.
*One job per key.* A job enqueued while the one of the same key is active is
dropped, and one that is not is removed before the new one is added; outbound
retries and conversation bursts meet this. The job of a dead worker runs again.
*Updates by id.* Sessions, subscriptions, orders and some campaign states are read,
judged, and updated later under no condition.
*Receipts* come out of order, repeated, concurrently, and before the wamid they
are about is stored; their stamps are whole seconds of Meta's clock, compared
with milliseconds of the worker's.
*Flows* nest to a depth limit, go round in circles and are left by BACK,
MAIN_MENU and EXIT, while a human may take the conversation at any moment.
The `hazards` of `PROJECT.json` name each at its line, with the properties that
cover it.

**What makes each component correct.** Outbound: rows agree, nothing stranded,
success is never taken back, duplicates and excess attempts only for a cause,
everything settles. Receipts: the message follows Meta's timeline. Campaigns:
finished is final, no contact is messaged twice without a cause, counters agree with
the rows, launched campaigns proceed. Flows: the stack holds the calls the session
is in, a message of the contact gets one question and a reply answers one, answers
are kept, an advance ends. Sessions: no text is stranded, a human keeps the conversation, what ended
stays ended. Payments: an event is applied once for each cause and concluded; one
invoice per order; paid time is kept; lapses end. Storage: counters are the sums
of the rows and within the plan, a ready object has its content, uploads and
deletions come to an end. Each "unless" in a property is a race that the code
leaves open; section 3 lists them.

## 2. Modules

| Module | Models | Composition |
|---|---|---|
| `JobQueue` | what BullMQ and the driver do to the job of one singleton key | operators, used by the next ones |
| `MessageStatus` | the rank order of statuses, `shouldApplyProviderStatus` | operators |
| `OutboundDispatch` | the two rows of a message, the wake job, handler runs, the recovery cron | extends `JobQueue` |
| `MessageTimeline` | abstract: what a message may show, given what Meta reported | extends `MessageStatus` |
| `DeliveryReceipts` | Meta's reports, webhook transactions, the receipt buffer, the reconciling commit | extends `MessageStatus`, implements `MessageTimeline` |
| `Campaign` | one campaign: requests, executors, the cron, recipients, counters | extends `JobQueue`, `MessageStatus` |
| `PaymentEvents` | the ledger of Razorpay's events, its workers and cron | extends `JobQueue` |
| `Billing` | orders, attempts to pay, subscriptions, the handlers of events, the sweep | |
| `Storage` | objects, contents in S3, quota counters, deletions and crons | |
| `FlowEngine` | one session's walk through a graph that validation accepts | |
| `FlowSessions` | the sessions of one conversation among router, job, agents and cron | extends `JobQueue` |
| `MC…` | instances for TLC, and the one statement of a comment that the code does not keep | extend the module |
| `OutboundDispatch_proofs` | theorems | extends `OutboundDispatch` |
| `DeliveryReceipts_proofs` | theorems, the refinement among them | extends `DeliveryReceipts` |
| `Campaign_proofs`, `PaymentEvents_proofs`, `Billing_proofs`, `Storage_proofs`, `FlowEngine_proofs`, `FlowSessions_proofs` | theorems | each extends the module it is named after |

Some modules rest on one another without being joined, since the product of their
states is out of TLC's reach: `Campaign` takes from `OutboundDispatch` that a
message settles; `Billing` takes from `PaymentEvents` that a handler runs until it
concludes; `FlowSessions` takes from `FlowEngine` only that a node goes on, waits,
ends or hands over, and `FlowEngine` from `FlowSessions` that advances of one
conversation do not overlap.

Variables named `ledger`, `history`, `excuse` or (in `Campaign`) `resets` and
`drift` keep what happened; properties read them, no step of the code does. So do
`unwound` and the counts of `job` in `FlowEngine`, and operators like `Lapse`,
`Overtakes` or `NoteIncrement`, which update them.
`Fault` bounds the environment's failures.

### OutboundDispatch

`dispatch[d]` and `message[d]` are the rows, `job[d]` the job whose key is the
dispatch id. Each element of `run` is one handler call; its `pc` is the point
between two transactions of `executeDispatch`: *taken* (before `claimDispatch`),
*claimed*, *accepted* (Meta answered, nothing persisted), *failing* (in
`#handleSendFailure`), *waking* (retry committed, wake not enqueued), *done*.
Times are what the code compares: `due` (nextAttemptAt) and `lease` live or
expired. `ledger` counts calls, acceptances, reclaims of expired
leases, lost answers or records, and rate-limit deferrals, and never guards a
step of the code.

`Fault` bounds the environment's failures: an enqueue that fails before or after
the removal, a lost job lock, a lost answer, a failed commit, a dead worker, a
lease that expires under a run that is alive, a full rate window.

Left out: the idempotent replay of `queueOutbound` (a repeated request returns
the first row), the usage meter, which of the revalidation rules fails, the
contents of a send, the order of backoff delays.

### DeliveryReceipts and MessageTimeline

One message. `meta[w]` is what Meta did with the send `w`, `reported[w]` the
receipts it issued, `handled[w]` those acknowledged. A webhook request is split
where READ COMMITTED lets others in: the update of the message (found or not),
`INSERT … ON CONFLICT DO NOTHING`, and the locked update after a conflict. An
acknowledged receipt may be delivered again. `excuse[w]` is *raced* when the
buffer was written after the wamid was stored, *predates* when a receipt that
would raise the status was refused for its time. A second wamid of a message sent
twice overwrites the first; a receipt of the overwritten one then finds no
message, is buffered, and counts as raced.

`MessageTimeline` knows no webhooks, buffers or clocks: Meta reports and takes
nothing back; each wamid is stored once, with the worker's own "sent" or a receipt
that came earlier; afterwards the message moves to receipts of the stored wamid of
no lower rank and no earlier time. `DeliveryReceipts` implements it with
`shown <- message`; its other variables stutter. This is where the order of ranks,
the comparison of times, the buffer and the matching by wamid come together.

### Campaign

`recipient[c]` is a contact's row with its stamps; `edition` counts replacements
of the rows, so that an executor's updates of a deleted row are no-ops. A request
is split at its statements (*checked*, *ready*, *enqueue*, *remove*), an executor
at the points of `executeCampaign` (*loading* … *finalizing*), the cron between
its statements; `recomputeCounters` is a snapshot followed by a write, as
READ COMMITTED allows. `outbox` is what the campaign sees of its messages: queued,
then sent or failed, perhaps once more by a run that lost its lease
(`MessageSettlesAgain`), then receipts. A receipt passes where
`shouldApplyProviderStatus` lets a later one pass, hence also the status that the
message shows already, or a failure after a success. `drift` is *none* as long as
the counters can be told from the rows, *late* when an increment committed while the
cron overwrote them, *replaced* when the rows of the audience were; the cron's
next recomputation heals both.

Simplified: the first two statements of the cron are one step, because nothing
that changes the status touches the rows they read; the double status check of a
tag campaign is one step; the counters read before finalizing and the conditional
update are one step, because with every recipient resolved only the cron's
recomputation could change `sentCount` from zero. Left out: create, duplicate,
edit of other fields, the pruning of opted-out contacts, notifications.

### PaymentEvents

`row[e]` is the row of an event, `job[e]` its wake, `run[r]` a call of the worker
for a job or for the cron, between its transactions: *taken*, *claimed*,
*applied* or *ignoring* (applied, not yet marked), *failing*, *done*. What
applying does is drawn once per event (`nature`); a fault may make it throw. A row
that used its attempts is parked for a year.

### Billing

One organization. `slot[o]` is the payment whose row holds the order's place in
the unique index of `payment_transactions` (gateway, gatewayOrderId). `applyPaidOrder`
and `activateFreePlan` are split between the read of the current subscription and
the commit; the first locks its order in between. `#onPaymentFailed` and the sweep
are split at each statement, since each commits on its own. A checkout looks for one
to use again and opens an order at Razorpay (`CreateCheckout`), and then inserts its
row (`InsertOrder`); another may have looked in between. The clock counts periods. `subs` are rows; an activation extends the current one or appends one.

Left out: plan changes within the paid plans, reminders, the contents of invoices,
signatures.

### Storage

`object[i]` is a row, `content[k]` the upload whose bytes lie under a key in S3
(all logos share one key), `upload[i]` the client, `deleter[w]` a purge by the owner
or the cron between S3 and the database, `reconciler` the three statements of
reconcile. `BytesOf` is the sum of `sizeBytes`, the number of bytes of the objects.
The `media_assets` row follows its object, every test of it is
repeated by a conditional update of the object, so it has no variable.
References of messages and campaigns have no variable: a soft delete that a live one
refuses (`hasLiveReferences`) is a step that is not taken, so the model has every
behaviour of the code, and deletions that the code refuses besides. `history` marks counters
that a race of reconcile or a retired logo put off, and rows whose content another
upload or deletion may have taken.

Left out: inbound and generated media, which reserve nothing, the limits of file
sizes and types.

### FlowEngine

The graph is a constant; `ValidFlow` is what `validateFlowGraph` accepts, and
`GraphAssumption` assumes it of every published version. A job begins with `Advance`
(a start opens a session or finds the live one, a waiting node takes the reply, any
other session goes on where it is), runs one node per `Step`, and comes to rest, out
of steps, or to an error; then it ends. `Die` is the death of its worker, between a
send and the update of the session or after the last update; `Stalls` the delivery
of the same job again. `job` counts the questions it sent and the times its
reply was taken. A question may find nothing to send (kind `none`) and is waited for
all the same. The idempotency keys of a flow's messages have no place in the model,
because lookup and index apply only to messages with a `senderId`, which these have
not. Conditions on variables and AI answers are nondeterministic. `FramesAreCallers` says
that what lies on the stack above a return frame, up to the next one, was pushed in
the flow that this frame calls.

Left out: the opt-out of STOP and farewells, versions that are missing, wording.
Cycles of subflows are refused on publishing only; they are not assumed absent,
the depth limit deals with them. A live session that has expired is left to
`FlowSessions`. A worker that lives but loses the lock of its job, so that two
advances of one conversation overlap, is in neither module.

### FlowSessions

`inbound[m]` is the listener of a message: *decided*, *pushed* to the buffer, *removed*
(the earlier job is gone, its own not yet added), *done*. The two halves of
`enqueue` are two steps, because the second may fail alone and because other
listeners, the worker and agents come in between. `job` may be *finished*: BullMQ
remembers a job that has ended, and one added under its key schedules nothing.
`engine` is the advance at the points where others interleave: *taken*, *drained*
(burst merged), *resolved* (session read), *heard* (past the silence check),
*looping*, *pausing*, *done*. It is idle while a job is active only when its worker has
died; the job then stalls and runs again. `agent` is a request: takeover, reply or
resume, one step per statement; one whose process dies stops. `cron` is the sweep
between its list, the fresh read of `applyExpiry` and the update, which is under no
condition. All updates of a session go by its id. The separate reads of `decide` are
one step; the matching of triggers and the rate limits are nondeterministic. The
lifetime of the buffer in Redis is left out.

## 3. Runs

| Run | Instance | States | Shows |
|---|---|---|---|
| `outbound` | 1 dispatch, 2 runs, 2 attempts, 3 faults | 244,445 | all invariants of OutboundDispatch, `SentIsFinal`, and `Settles` under fairness |
| `receipts_concurrent` | 2 wamids, 2 requests, 4 ticks of half a second, receipts sent, delivered, failed | 584,505 | `ImplementsTimeline`; buffer and final status under concurrent, repeated and reordered receipts |
| `campaign_executors` | 1 contact, 2 executors, 2 messages, receipts delivered and failed, 1 fault | 2,618,425 | second messages, stamps, counters, the end |
| `campaign_requests` | tag audience, 1 contact, 2 concurrent requests, 3 in all, no fault | 2,419,734 | type invariant, `EndsAreFinal` |
| `campaign_recovery` | 1 contact, 2 requests in turn, 1 fault, fairness | 255,403 | due campaigns start, launched ones proceed, claimed rows are released |
| `payment_events` | 1 event, 2 workers, 2 attempts, 3 faults, fairness | 43,192 | applied once for each cause, concluded is final, everything concludes |
| `billing` | 1 order, 2 attempts to pay, 1 free activation, periods of one tick, 2 ticks, 1 fault, fairness | 528,772 | invoices, paid time, captured payments, lapses |
| `storage` | 2 logos of sizes 1 and 2, limit 2 or 3, 1 deletion at a time, 1 fault | 3,482,806 | counters, quota, contents |
| `storage_lifecycle` | 1 upload, 2 deletions at a time, 2 faults, fairness | 79,154 | deletions and uploads come to an end |
| `flow_engine` | the two flows of `MCFlowEngine`, stack of 4, 5 steps, 2 faults, fairness | 116,308 | stack, questions, replies, answers, `EngineYields` |
| `flow_sessions` | a text, a tap, a text, 1 session, 1 request of an agent, both modes of expiry, 1 fault | 5,459,564 | stranded texts, human control, ended sessions |

Bounds, and why they are enough. `MaxAttempts = 2` has a first, a last and (by
reclaim) an excess attempt. Two runs are the least that overlap, and three faults
let a lease expire under each of them and a record be lost as well. Two ticks per
second separate Meta's clock from the worker's; the clock starts at 3 and stops at
4, so a receipt stamped 2 or 4 can precede, equal or follow a "sent" of the worker.
Two messages per campaign are a duplicate. Two attempts to pay are a failed and a
captured one; two ticks of periods of one let a paid period, its grace and an
order's expiry run out. Two logos are the least that share a key; the limit is
reached by both. Three messages are two texts that merge and a tap between them; the
one session is resumed by each, paused, expired, ended, and found ended by a stale
job; that an older and a newer one do not mix is left to the theorems, which hold for
any number. Five steps in `MCFlowEngine` are fewer than
its circle needs for two rounds, a stack of four is less than its menus and
subflow can fill. The flows hold every node type, menus on both levels and a subflow
that is called from two places. `MaxMessages`, `MaxRequests`, `MaxFaults` and
`MaxTime` exist for TLC alone; `Reported` restricts which receipts come.
Symmetry is used only where no liveness is checked. `CHECK_DEADLOCK FALSE` stands
in every configuration because the systems stop: once everything is settled and no
user acts, nothing is left to do.

### Where the code differs from its comments

`billing_captured` is a violation run. Comments promise a "single idempotent write
path for a paid Razorpay order" and a payment "to restore full access".
After a failed attempt, `payment.failed` records a transaction under the order's
gatewayOrderId; the captured payment of the same order then violates the unique
index in `applyPaidOrder` every time, verify and webhook alike. The money is taken,
the order stays unpaid. `CapturedIsApplied` holds with this exception.

The other differences are exceptions in passing properties, where they can be read:

* *Outbound.* The wake of a retry is enqueued under the key of the job still
  running and dropped; the cron repairs it (`Settles`). `claimDispatch` never looks
  at the attempts it counts, so a row can exceed OUTBOUND_MAX_ATTEMPTS
  (`AttemptsHaveACause`).
* *Receipts.* Look-up, storing, buffering in this order leave a receipt that nobody
  reads (*raced*).
* *Campaigns.* Cancelling does not stop the fan-out; a message sent before its id is
  on the recipient leaves the row queued; the cron takes rows from live executors
  ten minutes after their creation (`MessagesHaveACause`, `SentIsResolved`).
  The idempotency key of `#sendRecipient` does not help: lookup and index apply only
  to messages with a `senderId`. `#failCampaign` can undo a delete (`EndsAreFinal`),
  and the cron's recomputation can overwrite an increment, which is then missing until
  it runs again (`CountersAreRight`).
* *Payment events.* A worker that lost its lease marks the row failed after another
  one has processed it, and it is applied again (`ConcludedIsFinal`, `LedgerIsSound`).
* *Billing.* `payment.failed` sets a subscription past due without a grace period,
  which no sweep ends; late orders and the sweep can shorten what was paid
  (`PaidTimeIsKept`); a paid order overwritten by id is invoiced again
  (`InvoicesAreSound`).
* *Storage.* The content is deleted before the row is marked, so an object restored
  or completed in between is ready and empty; logos overwrite each other
  (`ReadyIsStored`); a retired logo or a racing reconcile puts the counters off
  (`UsageIsSound`).
* *Flow engine.* The idempotency keys of a flow's messages keep nothing back, so a
  worker that dies between a question and the update of the session lets the
  redelivered job ask again; one that dies after the last update lets it give the
  reply to the next question (`AskedOncePerMessage`, `ReplyIsTakenOnce`). MAIN_MENU in a
  subflow that was entered before any menu leaves the return frame on the stack
  (`StackIsSound`).
* *Flow sessions.* A text waits for the next message if it comes while the job is active
  or before a tap, if its listener or a later one fails to enqueue after the removal
  of the earlier job, if that job stalls twice or cannot drain, or while an agent
  cancels (`NoStrandedText`). "Pause (no race with engine)" does race: an advance past
  its check sets the session live again (`HumanKeepsTheConversation`). A stale resume
  revives an ended session, and so does the job of a worker that died after it had
  ended one (`EndedStaysEnded`). The cron may terminate a session that a message
  has revived since it was checked; nothing in the code forbids it, so no property
  does.

## 4. Fairness

Each `FairSpec` assumes weak fairness of the next step of a process that lives (one
that dies takes a `…Dies`, `Die` or `…Aborts` step, a fault), of BullMQ handing
out, promoting and stalling jobs where the property leans on it, and of time.
*Outbound, campaigns*: the one-minute crons are weakly fair; for campaigns the
outbound worker settles each message, which is `Settles`. *Payment events*: the
five-minute cron is strongly fair for each event, because it takes rows in the order
they became due; the queue need not be fair at all. *Billing*: the handler of a
captured payment goes on until it concludes (`EventsConclude`), transactions end,
and the hourly sweep is strongly fair, because it may wait for the lock of an order
that is granted in turn. *Storage*: the crons list oldest rows first and are
strongly fair for each object, calls to S3 return. *Flow engine*: workers run, and BullMQ detects stalled jobs.
`FlowSessions` has no liveness: what its hazards break is repaired only by the next
message, which nothing forces to come. Users, receipts and faults are never fair,
and faults are finitely many: nothing could settle if every send were lost.

## 5. Proofs

`OutboundDispatch_proofs` proves, for every finite set of runs, every set of
dispatches and all bounds (assumption `ConstantsAssumption`):

| Theorem | Property | Argument |
|---|---|---|
| `TypeCorrect` | `TypeOK` | one step per action |
| `RowsAlwaysAgree` | `RowsAgree` | inductive with the type invariant |
| `RowsNeverStranded` | `NoStrandedRow` | inductive with the type invariant |
| `SentStaysSent` | `SentIsFinal` | action property, from the type invariant |
| `SentIsAlwaysAccepted` | `SentWasAccepted` | strengthened by: an accepted run has an accepted call |
| `DuplicatesAlwaysHaveACause` | `DuplicatesHaveACause` | a budget, below |
| `AttemptsAlwaysHaveACause` | `AttemptsHaveACause` | a budget, below |

Two lemmas carry them. `RowSteps` says what one step may do to the two rows of one
message, whoever takes it (nine cases); the row properties are a case split on
it. `RunSteps` does the same for a run's claim.

`DuplicatesHaveACause` is not inductive, because it does not count calls that may
still come. `ChancesAreCovered` adds them: acceptances, plus runs that hold a
claim or have failed and may put the row back, plus one if the row can be claimed
without an expired lease, are at most one plus reclaims plus losses. Every step
moves a chance from one of these places to another, uses it, or names a cause for
a new one (`ChanceSteps`).

`AttemptsHaveACause` is a budget too (`BudgetInv`, `BudgetSteps`). Runs at work on
a dispatch, plus one while its row is open, are at most one plus reclaims. Once the
row has reached `MaxAttempts`, its attempts, plus the runs whose failure may still
be retried, plus one while the row is open, are at most `MaxAttempts` plus reclaims
plus deferrals. The third part, that only a failure below `MaxAttempts` is retried
(`RetriesStayBelowMax`), is what `isTerminalOutboundFailure` gives; without it a
run at the maximum could open the row again for nothing.

`DeliveryReceipts_proofs` proves, for every set of wamids and of webhook requests
and every bound on the clock (assumption `ReceiptConstants`):

| Theorem | Property | Argument |
|---|---|---|
| `TypeCorrect` | `TypeOK` | one step per action |
| `BufferAlwaysSound` | `BufferIsSound` | part of the inductive invariant, below |
| `TruthIsAlwaysShown` | `TruthIsShown` | part of the inductive invariant, below |
| `TimelineIsImplemented` | `ImplementsTimeline` | every step is one of the timeline's or stutters |

`BufferIsSound` is not inductive alone. The buffer keeps a later row only if the
rank rises and the time does not fall (`shouldApplyProviderStatus`), so it holds
the highest status acknowledged only because what Meta reports of one send rises
in rank along with its time (`ReportsRise`): were a report of higher rank issued at
an earlier second, the buffer would refuse it. `IInv` adds that, what is known of
the clock and of the reports (`ClockIsSound`, `OnlyReported`), that the message
shows what was reported of the wamid it stores and nothing below what was
acknowledged (`ShownIsKnown`, `ShownIsHighest`), and that an insert that met a
conflict still has a row to lock (`ConflictsAreReal`). The refinement needs the
same invariant in one place, the commit of the worker: the row it reconciles with
must be a receipt Meta issued (`ReconciledShowsEarly`).

`Campaign_proofs` proves, for every finite audience and set of executors, every set of
requests, batch size and kind of audience (assumption `CampaignConstants`):

| Theorem | Property | Argument |
|---|---|---|
| `TypeCorrect` | `TypeOK` | part of the inductive invariant |
| `StampsAreAlwaysOrdered` | `StampsAreOrdered` | part of the inductive invariant |
| `MessagesAlwaysHaveACause` | `MessagesHaveACause` | a budget, below |
| `SentIsAlwaysResolved` | `SentIsResolved` | from exclusive claims, below |
| `CountersAreAlwaysRight` | `CountersAreRight` | with `CountsAgree`, below |
| `EndsAreAlwaysFinal` | `EndsAreFinal` | action property, over what each action does to the status |

`MessagesHaveACause` does not count messages that may still be queued.
`MessagesArePaid` does: a row that is pending and an executor that holds it in its
batch and has not queued it each hold a right to one message, and messages plus
rights are at most one plus replacements plus resets. A receipt can only reach a
row through its message, hence `UnqueuedHaveNoMessage`. `SentIsResolved` needs that,
as long as no row was replaced or reset, a claimed row is in one batch only and
stays *sending* until its executor is done (`ClaimsAreExclusive`), so what one
executor counted as resolved stays so until it finalizes (`EndsAreResolved`).
`CountsAgree` extends `CountersAreRight` to what the cron has read and not yet written:
its counts agree with the rows but for the increments that committed since, so
the overwrite leaves the counters right or *late*. Each receipt raises a counter by
the number of rows it stamps for the first time, hence the cardinalities, and the
finite audience. Failures are counted with the rows only while none was replaced or
taken back (`Counted`): `#markRecipientFailed` of an executor counts a row that
another one may have failed.

`PaymentEvents_proofs` proves, for every set of events, every finite set of workers
and every budget of attempts (assumption `ConstantsAssumption`):

| Theorem | Property | Argument |
|---|---|---|
| `TypeCorrect` | `TypeOK` | part of the inductive invariant |
| `LedgerIsAlwaysSound` | `LedgerIsSound` | a budget, below |
| `ConcludedStaysFinal` | `ConcludedIsFinal` | action property, from `OwnerIsAlone` |

`ChancesArePaid` adds to the applications of an event the runs that may still apply
it or open its row, and one while the row is open: together at most one plus
reclaims plus losses. `OwnerIsAlone` says that while no lease was lost the row of an
event worked on is *processing*, by one run alone; hence a concluded row has no run
that could mark it. `ClaimsCountFailures` bounds the count a run has read.

`Billing_proofs` proves, for every number of orders and payments, every set of free
activations, all lengths of periods and every clock (assumption `ConstantsAssumption`):

| Theorem | Property | Argument |
|---|---|---|
| `InvoicesAreAlwaysSound` | `InvoicesAreSound` (with `TypeOK`) | `InvoicesAreCounted`, `ActivationsAreOpen` |
| `PaidTimeIsAlwaysKept` | `PaidTimeIsKept` | `RowsGrantAccess`, `PeriodsAreCovered` |

`InvoicesAreCounted` tells paid orders, whose last invoice no one has overwritten,
from the others; an activation past its check is of an order that is not paid,
because it holds the order's lock (`ActivationsAreOpen`). Paid time is kept because
every paid period lies within that of some row (`PeriodsAreCovered`) and a row whose
period is not over grants access (`RowsGrantAccess`): the sweep lists only rows that
are over by a time that is past (`SweepIsPast`), which is what makes a row it meets
renewed a lost one.

`Storage_proofs` proves, for every number of objects of any sizes, any of them
logos, and every number of deletions under way (assumption `ConstantsAssumption`):

| Theorem | Property | Argument |
|---|---|---|
| `UsageIsAlwaysSound` | `UsageIsSound` (with `TypeOK`) | counters and sums move together, below |
| `ReadyIsAlwaysStored` | `ReadyIsStored` | `CompleteIsStored`, below |

How the sums follow the change of state of one object is `OneRowMoves`, from lemmas
about `BytesOf`. `SumsAreCurrent` says that what the reconciler has read is still the
sum unless a race was recorded, and `SkewsAreRemembered` that a skew is never
forgotten, as the limit may have been passed meanwhile. `ReadyIsStored` is strengthened to every object that is ready, or
deleted and restorable, or whose upload is complete and not yet confirmed: such a
one is stored unless overtaken (`CompleteIsStored`), and only the last of the logos
is pending (`PendingIsCurrent`).

`FlowEngine_proofs` proves, for every set of flows that validation accepts, whatever
their graphs and however they call each other, and all limits (assumptions
`GraphAssumption`, `BoundsAssumption`; the first is what publishing enforces):

| Theorem | Property | Argument |
|---|---|---|
| `StackIsAlwaysSound` | `StackIsSound` (with `TypeOK`) | `FramesAreCallers` is inductive with `PlaceIsReal` |
| `QuestionsAreAskedOnce` | `AskedOncePerMessage` | the count of questions, by phase |
| `RepliesAreTakenOnce` | `ReplyIsTakenOnce` | the count of replies, by phase |
| `AnswersAreAlwaysKept` | `AnswersAreKept` | action property, from `FramesAreCallers` |

BACK, MAIN_MENU and the return from a subflow cut the stack to a prefix and go to
the node of a frame; a menu or a call adds one frame; all else stays in its flow.
The proof shows that each step has one of these effects (`NextEffect`), and that
each effect keeps `FramesAreCallers`. `PlaceIsReal` adds that a waiting menu has its
frame on top of the stack, which BACK and MAIN_MENU rely on. Questions and replies
are counted against the deaths that excuse them and what the phase of the job still
allows: a job that is running has no question outstanding that it could add to.
`AnswersAreKept` needs the stack: only leaving a flow may drop answers, and a step
that stays in the flow leaves no call.

`FlowSessions_proofs` proves, for every number of messages and sessions, any taps and
ways to expire (assumption `ConstantsAssumption`):

| Theorem | Property | Argument |
|---|---|---|
| `TypeCorrect` | `TypeOK` | part of the inductive invariant |
| `TextsAreNeverStranded` | `NoStrandedText` | with `RemovalMisses` |
| `HumanAlwaysKeeps` | `HumanKeepsTheConversation` | `HumanIsUndisturbed` |
| `EndedIsFinal` | `EndedStaysEnded` | action property, from `EndedIsReleased` |

`HumanIsUndisturbed` extends the property to the moments between the statements of
an agent's request: once the sessions are paused, an advance that could set one live
must be before its silence check. `EndedIsReleased`: an ended session that nobody
else had in hand when it ended is intended by no message or job, is in no advance
and not with the cron, so no update by id can reach it.

With these, every safety invariant and every action property of the passing runs is
a theorem. Only model-checked are the liveness properties, which need fairness and
thus ENABLED, out of the prover's reach: `Settles`, `LaunchesProceed`,
`NoRecipientStuck`, `EventsConclude`, `CapturedIsApplied`, `LapsesEnd`,
`StorageSettles` and `EngineYields`.

## 6. Not modelled, and the plan

Modelled: outbound dispatch, receipts, campaigns, payments and subscriptions,
storage, flows and their sessions.

Next, proofs of what the modules promise each other: abstract specifications in the
manner of `MessageTimeline` for the life of a campaign (what a status may become,
without executors and requests) and for the ledger of payment events (what an event
is worth, without workers and leases), with the refinements proved from the
invariants above.

Next to model: **contact import** (a cursor and a resuming job) and **integration
events** (a ledger and recovery cron of the kind `PaymentEvents` models), and the
**ingestion of inbound messages** (dedup by wamid, events dispatched one by one
after the commit, a listener that throws).

Not planned: CRUD and queries (organizations, members, contacts, tags, templates,
flow builder, notifications, analytics, audit), whose rules are single statements
under database constraints; knowledge base and summaries, which are calls to
providers; inbox fan-out, which keeps nothing; the frontend.
