------------------------------- MODULE Campaign -------------------------------
(***************************************************************************)
(* One campaign (a broadcasts row with its broadcast_recipients): the user *)
(* requests that send, schedule, cancel and delete it                      *)
(* (campaign_service.ts), the worker that fans it out and finalizes it,    *)
(* the one-minute recovery cron (campaign_execution_service.ts), and the   *)
(* receipts that account for each recipient                                *)
(* (campaign_recipient_dispatch_service.ts).                               *)
(*                                                                         *)
(* A step is one database statement or transaction, or one queue call.     *)
(* The outbound dispatch of a queued message is abstracted to what the     *)
(* campaign sees of it (module OutboundDispatch has the rest): a run sends *)
(* it or gives it up, a second run whose predecessor lost its lease may do *)
(* so again, and a message with a provider id gets receipts.               *)
(***************************************************************************)
EXTENDS Naturals, FiniteSets, JobQueue, MessageStatus

CONSTANTS
  Contacts,       \* the audience
  NoContact,
  Executors,      \* concurrent executions of the campaign.execute handler
  Requests,       \* concurrent user requests
  TagAudience,    \* TRUE: the audience is a tag, and rebuilt by each send
  BatchSize,      \* RECIPIENT_BATCH_SIZE
  Reported,       \* the statuses webhooks report, a subset of ProviderStatus
  MaxMessages,    \* bound on messages created, for TLC
  MaxRequests,    \* bound on user requests in a behaviour, for TLC
  MaxFaults       \* bound on failures of the environment, for TLC

ASSUME CampaignConstants ==
  /\ NoContact \notin Contacts
  /\ IsFiniteSet(Contacts) /\ IsFiniteSet(Executors)
  /\ TagAudience \in BOOLEAN
  /\ BatchSize \in Nat \ {0}
  /\ Reported \subseteq ProviderStatus
  /\ {MaxMessages, MaxRequests, MaxFaults} \subseteq Nat

VARIABLES
  status,     \* broadcasts.status
  due,        \* scheduledAt has come (when status is scheduled)
  counters,   \* sentCount, deliveredCount, readCount, failedCount
  recipient,  \* the broadcast_recipients row of each contact
  edition,    \* how often the recipient rows were replaced
  aged,       \* the rows were created more than ten minutes ago
  job,        \* the execute wake, singletonKey = campaign id
  request,    \* what each user request is doing
  executor,   \* what each handler execution is doing
  cron,       \* what the recovery cron is doing
  outbox,     \* messages created for the campaign, by number
  requested,  \* user requests so far
  resets,     \* history, per contact: times recovery made its row pending
  drift,      \* history: why the counters may differ from the rows
  faults      \* environment failures so far

vars == <<status, due, counters, recipient, edition, aged, job, request,
          executor, cron, outbox, requested, resets, drift, faults>>

-----------------------------------------------------------------------------
CampaignStatus == {"draft", "scheduled", "sending", "sent", "failed", "deleted"}
Unresolved == {"pending", "sending", "queued"}   \* #countPendingRecipients
Succeeded == {"sent", "delivered", "read"}
RecipientStatus == Unresolved \cup Succeeded \cup {"failed"}
Messages == 1..MaxMessages
NoMessage == 0

FreshRow == [status |-> "pending", message |-> NoMessage,
             sentAt |-> FALSE, deliveredAt |-> FALSE, readAt |-> FALSE]
IdleExecutor == [pc |-> "idle", batch |-> {}, contact |-> NoContact,
                 message |-> NoMessage, edition |-> 0, holds |-> FALSE]
IdleRequest == [pc |-> "idle", target |-> "sending", from |-> "draft"]
ZeroCounters == [sent |-> 0, delivered |-> 0, read |-> 0, failed |-> 0]
IdleCron == [pc |-> "idle", counted |-> ZeroCounters]
NoMessageRow == [to |-> NoContact, status |-> "none", wamid |-> FALSE]

(* What may have come between the rows and the counters that are shown, or *)
(* those the cron has taken: nothing, an increment that committed while    *)
(* the cron was overwriting it, or a replacement of the rows.              *)
Causes == {"none", "late", "replaced"}

CounterRecords == [sent: Nat, delivered: Nat, read: Nat, failed: Nat]

TypeOK ==
  /\ status \in CampaignStatus
  /\ due \in BOOLEAN
  /\ counters \in CounterRecords
  /\ recipient \in [Contacts -> [status: RecipientStatus,
                                 message: Messages \cup {NoMessage},
                                 sentAt: BOOLEAN, deliveredAt: BOOLEAN, readAt: BOOLEAN]]
  /\ edition \in Nat
  /\ aged \in BOOLEAN
  /\ job \in JobStates
  /\ request \in [Requests -> [pc: {"idle", "checked", "ready", "enqueue", "remove"},
                               target: {"draft", "sending", "scheduled"},
                               from: {"draft", "scheduled"}]]
  /\ executor \in [Executors ->
       [pc: {"idle", "loading", "starting", "preflight", "failing", "claiming",
             "fanout", "linking", "counting", "finalizing", "done"},
        batch: SUBSET Contacts, contact: Contacts \cup {NoContact},
        message: Messages \cup {NoMessage}, edition: Nat, holds: BOOLEAN]]
  /\ cron \in [pc: {"idle", "recompute", "overwrite", "wake"},
               counted: CounterRecords]
  /\ outbox \in [Messages -> [to: Contacts \cup {NoContact}, wamid: BOOLEAN,
                              status: {"none", "queued", "failed"} \cup Succeeded]]
  /\ requested \in Nat
  /\ resets \in [Contacts -> Nat]
  /\ drift \in [shown: Causes, taken: Causes]
  /\ faults \in Nat

Init ==
  /\ status = "draft"
  /\ due = FALSE
  /\ counters = ZeroCounters
  /\ recipient = [c \in Contacts |-> FreshRow]
  /\ edition = 0
  /\ aged = FALSE
  /\ job = "none"
  /\ request = [q \in Requests |-> IdleRequest]
  /\ executor = [e \in Executors |-> IdleExecutor]
  /\ cron = IdleCron
  /\ outbox = [m \in Messages |-> NoMessageRow]
  /\ requested = 0
  /\ resets = [c \in Contacts |-> 0]
  /\ drift = [shown |-> "none", taken |-> "none"]
  /\ faults = 0

-----------------------------------------------------------------------------
(* The groups of variables that most steps leave alone.                    *)
rows == <<counters, recipient, edition, aged>>
workers == <<executor, cron>>
bounds == <<requested, resets, drift>>

Fault == faults < MaxFaults /\ faults' = faults + 1

EnqueueWake(wake) == job' = EnqueueJob(job, wake) /\ UNCHANGED faults
EnqueueWakeFails == job' \in EnqueueFailure(job) /\ Fault

InStatus(statuses) == {c \in Contacts : recipient[c].status \in statuses}

(* The counters as the rows have them: the aggregate of recomputeCounters.  *)
Stamped(field) == Cardinality({c \in Contacts : recipient[c][field]})
CountsOfRows == [sent |-> Stamped("sentAt"), delivered |-> Stamped("deliveredAt"),
                 read |-> Stamped("readAt"),
                 failed |-> Cardinality(InStatus({"failed"}))]

(* History: a replacement of rows that have counted parts them from the    *)
(* counters, and what a counter gains between the cron's two steps is lost.*)
NoteReplacement ==
  drift' = IF CountsOfRows' # CountsOfRows
             THEN [shown |-> "replaced",
                   taken |-> IF cron.pc = "overwrite" THEN "replaced" ELSE "none"]
             ELSE drift
NoteIncrement ==
  drift' = IF cron.pc = "overwrite" /\ drift.taken = "none" /\ counters' # counters
             THEN [drift EXCEPT !.taken = "late"] ELSE drift

-----------------------------------------------------------------------------
(* User requests.                                                          *)

(* sendCampaign, scheduleCampaign and replaceRecipients read the status    *)
(* and refuse; nothing is locked.  A request whose audience is rebuilt is  *)
(* refused unless the campaign is a draft, which replaceRecipients asks.   *)
LaunchableFrom(target) ==
  IF target = "scheduled" THEN {"draft", "scheduled"} ELSE {"draft"}
EligibleFor(target) ==
  /\ status \in LaunchableFrom(target)
  /\ TagAudience => status = "draft"

Check(q, target) ==
  /\ request[q].pc = "idle"
  /\ requested < MaxRequests
  /\ EligibleFor(target)
  /\ request' = [request EXCEPT ![q] =
                   [pc |-> "checked", target |-> target, from |-> status]]
  /\ requested' = requested + 1
  /\ UNCHANGED <<status, due, rows, job, workers, outbox, resets, drift, faults>>

(* refreshDispatchAudience: the rows of a tag audience are deleted and     *)
(* inserted anew; so are those of any campaign whose audience is edited.   *)
RefreshAudience(q) ==
  /\ request[q].pc = "checked"
  /\ IF TagAudience \/ request[q].target = "draft"
       THEN /\ recipient' = [c \in Contacts |-> FreshRow]
            /\ edition' = edition + 1
            /\ aged' = FALSE
       ELSE UNCHANGED <<recipient, edition, aged>>
  /\ NoteReplacement
  /\ request' = [request EXCEPT ![q] =
       IF @.target = "draft" THEN IdleRequest ELSE [@ EXCEPT !.pc = "ready"]]
  /\ UNCHANGED <<status, due, counters, job, workers, outbox, requested, resets,
                 faults>>

(* The conditional UPDATE ... whereIn(status, ...) of send and schedule.   *)
(* A scheduledAt is in the future when it is accepted.                     *)
Launch(q) ==
  LET target == request[q].target IN
  /\ request[q].pc = "ready"
  /\ IF status \in LaunchableFrom(target)
       THEN /\ status' = target
            /\ due' = FALSE
            /\ request' = [request EXCEPT ![q].pc = "enqueue"]
       ELSE /\ request' = [request EXCEPT ![q] = IdleRequest]
            /\ UNCHANGED <<status, due>>
  /\ UNCHANGED <<rows, job, workers, outbox, bounds, faults>>

(* ... unless the template, the configuration, the header media or the     *)
(* variables of the recipients are not ready.                              *)
LaunchRefused(q) ==
  /\ request[q].pc = "ready"
  /\ request' = [request EXCEPT ![q] = IdleRequest]
  /\ UNCHANGED <<status, due, rows, job, workers, outbox, bounds, faults>>

(* ... and its wake; when the queue fails the status is put back, if it is *)
(* still the one that was set.                                             *)
EnqueueLaunch(q) ==
  LET target == request[q].target IN
  /\ request[q].pc = "enqueue"
  /\ request' = [request EXCEPT ![q] = IdleRequest]
  /\ \/ /\ EnqueueWake(IF target = "sending" THEN "waiting" ELSE "delayed")
        /\ UNCHANGED <<status, due>>
     \/ /\ EnqueueWakeFails
        /\ IF status = target
             THEN /\ status' = request[q].from
                  /\ due' \in (IF request[q].from = "draft" THEN {FALSE} ELSE BOOLEAN)
             ELSE UNCHANGED <<status, due>>
  /\ UNCHANGED <<rows, workers, outbox, bounds>>

(* Mutant: a status of its own, which broadcasts does not have.            *)
CancelToCancelled(q) ==
  /\ request[q].pc = "idle"
  /\ requested < MaxRequests
  /\ status \in {"scheduled", "sending"}
  /\ status' = "cancelled"
  /\ due' = FALSE
  /\ request' = [request EXCEPT ![q].pc = "remove"]
  /\ requested' = requested + 1
  /\ UNCHANGED <<rows, job, workers, outbox, resets, drift, faults>>

(* cancelScheduledCampaign: back to draft, then the wake is removed.       *)
Cancel(q) ==
  /\ request[q].pc = "idle"
  /\ requested < MaxRequests
  /\ status \in {"scheduled", "sending"}
  /\ status' = "draft"
  /\ due' = FALSE
  /\ request' = [request EXCEPT ![q].pc = "remove"]
  /\ requested' = requested + 1
  /\ UNCHANGED <<rows, job, workers, outbox, resets, drift, faults>>

RemoveWake(q) ==
  /\ request[q].pc = "remove"
  /\ request' = [request EXCEPT ![q] = IdleRequest]
  /\ \/ job' = RemoveJob(job) /\ UNCHANGED faults
     \/ UNCHANGED job /\ Fault
  /\ UNCHANGED <<status, due, rows, workers, outbox, bounds>>

(* softDeleteCampaign; the wake is left where it is.                       *)
Delete ==
  /\ requested < MaxRequests
  /\ status # "deleted"
  /\ status' = "deleted"
  /\ requested' = requested + 1
  /\ UNCHANGED <<due, rows, job, request, workers, outbox, resets, drift, faults>>

(* The web process dies between two statements of a request.               *)
RequestDies(q) ==
  /\ request[q].pc # "idle"
  /\ Fault
  /\ request' = [request EXCEPT ![q] = IdleRequest]
  /\ UNCHANGED <<status, due, rows, job, workers, outbox, bounds>>

UserRequest(q) ==
  \/ \E target \in {"draft", "sending", "scheduled"} : Check(q, target)
  \/ Cancel(q)

RequestStep(q) ==
  \/ RefreshAudience(q) \/ Launch(q) \/ LaunchRefused(q)
  \/ EnqueueLaunch(q) \/ RemoveWake(q)

-----------------------------------------------------------------------------
(* The queue, and time.                                                    *)
ScheduledAtComes ==
  /\ status = "scheduled"
  /\ ~due
  /\ due' = TRUE
  /\ UNCHANGED <<status, rows, job, request, workers, outbox, bounds, faults>>

RowsAge ==
  /\ ~aged
  /\ aged' = TRUE
  /\ UNCHANGED <<status, due, counters, recipient, edition, job, request,
                 workers, outbox, bounds, faults>>

PromoteDelayed ==
  /\ job = "delayed"
  /\ job' = "waiting"
  /\ UNCHANGED <<status, due, rows, request, workers, outbox, bounds, faults>>

TakeJob(e) ==
  /\ executor[e].pc = "idle"
  /\ job = "waiting"
  /\ job' = "active"
  /\ executor' = [executor EXCEPT ![e].pc = "loading", ![e].holds = TRUE]
  /\ UNCHANGED <<status, due, rows, request, cron, outbox, bounds, faults>>

(* An active job without a live holder is declared stalled.                *)
JobStalls ==
  /\ job = "active"
  /\ \A e \in Executors : ~executor[e].holds
  /\ job' \in {"waiting", "none"}
  /\ UNCHANGED <<status, due, rows, request, workers, outbox, bounds, faults>>

(* ... or one whose holder lives but let its job lock lapse.               *)
JobLockLost(e) ==
  /\ executor[e].holds
  /\ Fault
  /\ job' \in {"waiting", "none"}
  /\ executor' = [executor EXCEPT ![e].holds = FALSE]
  /\ UNCHANGED <<status, due, rows, request, cron, outbox, bounds>>

-----------------------------------------------------------------------------
(* executeCampaign in executor e.                                          *)
At(e, pc) == executor[e].pc = pc
Goto(e, pc) == executor' = [executor EXCEPT ![e].pc = pc]

(* #loadCampaignRow and the branches on the status it reads: a finished,   *)
(* draft or deleted campaign is left alone.                                *)
Load(e) ==
  /\ At(e, "loading")
  /\ \/ status \in {"draft", "sent", "failed", "deleted"} /\ Goto(e, "done")
     \/ status = "scheduled" /\ due /\ Goto(e, "starting")
     \/ status = "sending" /\ Goto(e, "preflight")
  /\ UNCHANGED <<status, due, rows, job, request, cron, outbox, bounds, faults>>

(* An early wake enqueues the delayed one again; a failure is swallowed.   *)
DeferEarlyWake(e) ==
  /\ At(e, "loading")
  /\ status = "scheduled"
  /\ ~due
  /\ EnqueueWake("delayed") \/ EnqueueWakeFails
  /\ Goto(e, "done")
  /\ UNCHANGED <<status, due, rows, request, cron, outbox, bounds>>

(* The conditional UPDATE from scheduled to sending; when it finds another *)
(* status the run goes on only if that is sending.                         *)
Start(e) ==
  /\ At(e, "starting")
  /\ status' = IF status = "scheduled" THEN "sending" ELSE status
  /\ Goto(e, IF status' = "sending" THEN "preflight" ELSE "done")
  /\ UNCHANGED <<due, rows, job, request, cron, outbox, bounds, faults>>

(* assertApprovedTemplate and assertConnectedWhatsappConfig; when they     *)
(* fail #failCampaign loads the row, which throws if it is deleted, ...    *)
Preflight(e) ==
  /\ At(e, "preflight")
  /\ \/ Goto(e, "claiming")
     \/ Goto(e, IF status = "deleted" THEN "done" ELSE "failing")
  /\ UNCHANGED <<status, due, rows, job, request, cron, outbox, bounds, faults>>

(* ... and then writes the status under no condition.                      *)
FailCampaign(e) ==
  /\ At(e, "failing")
  /\ status' = "failed"
  /\ Goto(e, "done")
  /\ UNCHANGED <<due, rows, job, request, cron, outbox, bounds, faults>>

(* Mutant: rows that another executor has claimed are claimed again.       *)
PendingOrSending == InStatus({"pending", "sending"})

(* #claimRecipientBatch: up to BatchSize pending rows become sending.  The *)
(* status of the campaign is not read again between batches.               *)
Pending == InStatus({"pending"})
Batches ==
  {b \in SUBSET Pending : \/ Cardinality(b) = BatchSize
                          \/ b = Pending /\ Cardinality(b) < BatchSize}
ClaimRecipientBatch(e) ==
  /\ At(e, "claiming")
  /\ \E batch \in Batches :
       /\ recipient' = [c \in Contacts |->
            IF c \in batch THEN [recipient[c] EXCEPT !.status = "sending"]
                           ELSE recipient[c]]
       /\ executor' = [executor EXCEPT
            ![e].pc = IF batch = {} THEN "counting" ELSE "fanout",
            ![e].batch = batch, ![e].edition = edition]
  /\ UNCHANGED <<status, due, counters, edition, aged, job, request, cron,
                 outbox, bounds, faults>>

(* #sendRecipient, first part: queueTemplate commits a message.  Its key   *)
(* campaign:<id>:recipient:<id> does not make it idempotent, because the   *)
(* unique index that would refuse a second one skips rows without a        *)
(* senderId, and a campaign send has none.                                 *)
QueueTemplate(e, c) ==
  /\ At(e, "fanout")
  /\ c \in executor[e].batch
  /\ \E m \in Messages :
       /\ \A k \in Messages : outbox[k].status = "none" <=> k >= m
       /\ outbox' = [outbox EXCEPT ![m] = [to |-> c, status |-> "queued", wamid |-> FALSE]]
       /\ executor' = [executor EXCEPT ![e].pc = "linking", ![e].contact = c,
                                       ![e].message = m]
  /\ UNCHANGED <<status, due, rows, job, request, cron, bounds, faults>>

(* The executor goes on with the rest of its batch, or the next batch.     *)
AfterRecipient(e, c) ==
  LET rest == executor[e].batch \ {c} IN
  executor' = [executor EXCEPT
    ![e].pc = IF rest = {} THEN "claiming" ELSE "fanout",
    ![e].batch = rest, ![e].contact = NoContact, ![e].message = NoMessage]

(* The executor's row of c: gone when the audience was replaced meanwhile. *)
UpdateClaimed(e, c, row) ==
  recipient' = IF executor[e].edition = edition
                 THEN [recipient EXCEPT ![c] = row] ELSE recipient

(* #markRecipientFailed                                                    *)
MarkRecipientFailed(e, c) ==
  /\ UpdateClaimed(e, c, [recipient[c] EXCEPT !.status = "failed"])
  /\ counters' = [counters EXCEPT !.failed = @ + 1]
  /\ NoteIncrement
  /\ AfterRecipient(e, c)
  /\ UNCHANGED <<status, due, edition, aged, job, request, cron, outbox, requested,
                 resets>>

(* #sendRecipient throws before it queues a message.                       *)
QueueTemplateFails(e, c) ==
  /\ At(e, "fanout")
  /\ c \in executor[e].batch
  /\ MarkRecipientFailed(e, c)
  /\ UNCHANGED faults

(* #sendRecipient, second part: the row learns its message.                *)
LinkRecipient(e) ==
  LET c == executor[e].contact IN
  /\ At(e, "linking")
  /\ UpdateClaimed(e, c, [recipient[c] EXCEPT !.status = "queued",
                                              !.message = executor[e].message])
  /\ AfterRecipient(e, c)
  /\ UNCHANGED <<status, due, counters, edition, aged, job, request, cron,
                 outbox, bounds, faults>>

(* ... or the update throws, after the message was queued.                 *)
LinkRecipientFails(e) ==
  /\ At(e, "linking")
  /\ Fault
  /\ MarkRecipientFailed(e, executor[e].contact)

(* Mutant: a queued recipient counts as resolved.                          *)
RemainingUnqueued == InStatus({"pending", "sending"})

(* #countPendingRecipients; a re-wake if rows became pending meanwhile.    *)
Remaining == InStatus(Unresolved)
CountRemaining(e) ==
  /\ At(e, "counting")
  /\ IF Remaining = {}
       THEN Goto(e, "finalizing") /\ UNCHANGED <<job, faults>>
       ELSE /\ Goto(e, "done")
            /\ IF Pending = {} THEN UNCHANGED <<job, faults>>
               ELSE EnqueueWake("waiting") \/ EnqueueWakeFails
  /\ UNCHANGED <<status, due, rows, request, cron, outbox, bounds>>

(* Mutant: the loaded status is not looked at.                             *)
FinalizeUnguarded(e) ==
  /\ At(e, "finalizing")
  /\ status' = IF counters.failed > 0 /\ counters.sent = 0 THEN "failed" ELSE "sent"
  /\ Goto(e, "done")
  /\ UNCHANGED <<due, rows, job, request, cron, outbox, bounds, faults>>

(* #finalizeCampaign, on the counters of a row just loaded.                *)
FinalizeCampaign(e) ==
  /\ At(e, "finalizing")
  /\ status' = IF status \notin {"sending", "scheduled"} THEN status
               ELSE IF counters.failed > 0 /\ counters.sent = 0
                 THEN "failed" ELSE "sent"
  /\ Goto(e, "done")
  /\ UNCHANGED <<due, rows, job, request, cron, outbox, bounds, faults>>

FinishJob(e) ==
  /\ At(e, "done")
  /\ job' = IF executor[e].holds THEN "none" ELSE job
  /\ executor' = [executor EXCEPT ![e] = IdleExecutor]
  /\ UNCHANGED <<status, due, rows, request, cron, outbox, bounds, faults>>

(* The worker process dies, or a statement throws out of the handler.      *)
ExecutorDies(e) ==
  /\ ~At(e, "idle")
  /\ Fault
  /\ job' \in {job} \cup IF executor[e].holds THEN {"none"} ELSE {}
  /\ executor' = [executor EXCEPT ![e] = IdleExecutor]
  /\ UNCHANGED <<status, due, rows, request, cron, outbox, bounds>>

ExecuteCampaign(e) ==
  \/ Load(e) \/ DeferEarlyWake(e) \/ Start(e) \/ Preflight(e) \/ FailCampaign(e)
  \/ ClaimRecipientBatch(e)
  \/ \E c \in Contacts : QueueTemplate(e, c) \/ QueueTemplateFails(e, c)
  \/ LinkRecipient(e) \/ LinkRecipientFails(e)
  \/ CountRemaining(e) \/ FinalizeCampaign(e) \/ FinishJob(e)

-----------------------------------------------------------------------------
(* recoverOverdueCampaigns, every minute, one statement after another.     *)
CronGoto(pc) == cron' = [IdleCron EXCEPT !.pc = pc]

(* Mutant: no claimed row is ever taken back.                              *)
ReclaimableNone == {}

(* First the rows that are sending without a message, and were created     *)
(* more than ten minutes ago, become pending: whatever the state of the    *)
(* campaign, and whether or not an executor is at work on them.            *)
Reclaimable ==
  {c \in InStatus({"sending"}) : aged /\ recipient[c].message = NoMessage}

(* Mutant: only campaigns that are sending are woken.                      *)
ListedForSending == IF status = "sending" THEN "recompute" ELSE "idle"

(* Then the campaign is listed or not, and what is done with it follows.   *)
ListedFor ==
  IF status = "sending" THEN "recompute"
  ELSE IF status = "scheduled" /\ due THEN "wake" ELSE "idle"

(* Both statements: nothing that changes the status touches the rows, so   *)
(* they are one step here.                                                 *)
ScanOverdue ==
  /\ cron.pc = "idle"
  /\ recipient' = [c \in Contacts |->
       IF c \in Reclaimable THEN [recipient[c] EXCEPT !.status = "pending"]
                            ELSE recipient[c]]
  /\ resets' = [c \in Contacts |->
                  IF c \in Reclaimable THEN resets[c] + 1 ELSE resets[c]]
  /\ CronGoto(ListedFor)
  /\ UNCHANGED <<status, due, counters, edition, aged, job, request, executor,
                 outbox, requested, drift, faults>>

(* recomputeCounters is one statement, but at READ COMMITTED its aggregate *)
(* is read from a snapshot, and written after any increment that commits   *)
(* while it waits for the row of the campaign.                             *)
RecomputeSnapshot ==
  /\ cron.pc = "recompute"
  /\ cron' = [pc |-> "overwrite", counted |-> CountsOfRows]
  /\ drift' = [drift EXCEPT !.taken = "none"]
  /\ UNCHANGED <<status, due, rows, job, request, executor, outbox, requested,
                 resets, faults>>

RecomputeOverwrite ==
  /\ cron.pc = "overwrite"
  /\ counters' = cron.counted
  /\ CronGoto("wake")
  /\ drift' = [shown |-> drift.taken, taken |-> "none"]
  /\ UNCHANGED <<status, due, recipient, edition, aged, job, request, executor,
                 outbox, requested, resets, faults>>

CronWake ==
  /\ cron.pc = "wake"
  /\ EnqueueWake("waiting") \/ EnqueueWakeFails
  /\ CronGoto("idle")
  /\ UNCHANGED <<status, due, rows, request, executor, outbox, bounds>>

CronDies ==
  /\ cron.pc # "idle"
  /\ Fault
  /\ CronGoto("idle")
  /\ UNCHANGED <<status, due, rows, job, request, executor, outbox, bounds>>

RecoverOverdueCampaigns ==
  \/ ScanOverdue \/ RecomputeSnapshot \/ RecomputeOverwrite \/ CronWake

-----------------------------------------------------------------------------
(* applyProviderReceipt, in the transaction that changes the message.      *)
RecipientsOf(m) == {c \in Contacts : recipient[c].message = m}
Bit(flag) == IF flag THEN 1 ELSE 0

(* mapRecipientStatusForRank; recipients keep no provider time, and 1      *)
(* stands for that of the receipt.                                         *)
RankOf(row) == IF row.status \in Unresolved THEN "queued" ELSE row.status
Advances(row, st) == ShouldApply(RankOf(row), Never, st, 1)

(* Mutant: a receipt stamps its own column only.                           *)
ReachedExactly(st) == {st}

(* #applySuccess: nothing unless it is the first stamp of some kind.       *)
Reached(st) == {k \in {"sent", "delivered", "read"} : StatusRank[k] <= StatusRank[st]}
Stamp(row, st) ==
  [row EXCEPT !.status = st,
              !.sentAt = @ \/ "sent" \in Reached(st),
              !.deliveredAt = @ \/ "delivered" \in Reached(st),
              !.readAt = @ \/ "read" \in Reached(st)]
IsFirstStamp(row, st) ==
  LET after == Stamp(row, st) IN
  <<row.sentAt, row.deliveredAt, row.readAt>> #
    <<after.sentAt, after.deliveredAt, after.readAt>>
(* Mutant: each receipt counts, not only the first stamp.                  *)
ApplySuccessEach(c, st) ==
  LET after == Stamp(recipient[c], st) IN
  IF Advances(recipient[c], st)
    THEN /\ recipient' = [recipient EXCEPT ![c] = after]
         /\ counters' = [counters EXCEPT !.sent = @ + Bit(after.sentAt),
                                         !.delivered = @ + Bit(after.deliveredAt),
                                         !.read = @ + Bit(after.readAt)]
    ELSE UNCHANGED <<recipient, counters>>

ApplySuccess(c, st) ==
  LET row == recipient[c]
      after == Stamp(row, st)
  IN IF Advances(row, st) /\ IsFirstStamp(row, st)
       THEN /\ recipient' = [recipient EXCEPT ![c] = after]
            /\ counters' = [counters EXCEPT
                 !.sent = @ + Bit(after.sentAt /\ ~row.sentAt),
                 !.delivered = @ + Bit(after.deliveredAt /\ ~row.deliveredAt),
                 !.read = @ + Bit(after.readAt /\ ~row.readAt)]
       ELSE UNCHANGED <<recipient, counters>>

(* #applyFailed: only an unresolved recipient fails.                       *)
ApplyFailed(c) ==
  IF recipient[c].status \in Unresolved
    THEN /\ recipient' = [recipient EXCEPT ![c].status = "failed"]
         /\ counters' = [counters EXCEPT !.failed = @ + 1]
    ELSE UNCHANGED <<recipient, counters>>

ApplyProviderReceipt(m, st) ==
  /\ \A c \in RecipientsOf(m) : IF st = "failed" THEN ApplyFailed(c) ELSE ApplySuccess(c, st)
  /\ RecipientsOf(m) = {} => UNCHANGED <<recipient, counters>>
  /\ NoteIncrement
  /\ UNCHANGED <<status, due, edition, aged, job, request, workers, requested, resets>>

(* The transactions that record a message as sent or given up.             *)
RecordSent(m) ==
  /\ ApplyProviderReceipt(m, "sent")
  /\ outbox' = [outbox EXCEPT ![m].status = "sent", ![m].wamid = TRUE]
RecordFailed(m) ==
  /\ ApplyProviderReceipt(m, "failed")
  /\ outbox' = [outbox EXCEPT ![m].status = IF @ = "queued" THEN "failed" ELSE @]

(* The outbound worker sends message m, or gives it up.                    *)
MessageSettles(m) ==
  /\ outbox[m].status = "queued"
  /\ RecordSent(m) \/ RecordFailed(m)
  /\ UNCHANGED faults

(* So does, later, a run that lost its lease to the one that settled it.   *)
MessageSettlesAgain(m) ==
  /\ outbox[m].status \notin {"none", "queued"}
  /\ Fault
  /\ RecordSent(m) \/ RecordFailed(m)

(* A webhook's receipt, found by the provider id of the message and later  *)
(* than what the message shows (1 and 2 stand for the times): also the     *)
(* same status again, or a failure.  A stale one changes nothing.          *)
WebhookReceipt(m, st) ==
  /\ st \in Reported
  /\ outbox[m].wamid
  /\ ShouldApply(outbox[m].status, 1, st, 2)
  /\ ApplyProviderReceipt(m, st)
  /\ outbox' = [outbox EXCEPT ![m].status = st]
  /\ UNCHANGED faults

-----------------------------------------------------------------------------
Next ==
  \/ \E q \in Requests : UserRequest(q) \/ RequestStep(q) \/ RequestDies(q)
  \/ Delete
  \/ ScheduledAtComes \/ RowsAge \/ PromoteDelayed \/ JobStalls
  \/ \E e \in Executors :
       TakeJob(e) \/ JobLockLost(e) \/ ExecuteCampaign(e) \/ ExecutorDies(e)
  \/ RecoverOverdueCampaigns \/ CronDies
  \/ \E m \in Messages :
       \/ MessageSettles(m) \/ MessageSettlesAgain(m)
       \/ \E st \in ProviderStatus : WebhookReceipt(m, st)

Spec == Init /\ [][Next]_vars

(***************************************************************************)
(* Fairness: a request or a worker that lives goes on, BullMQ hands out,   *)
(* promotes and stalls jobs, the cron fires every minute, time passes and  *)
(* the outbound worker settles a message (module OutboundDispatch).        *)
(* Nothing forces users, receipts or faults.                               *)
(***************************************************************************)
Fairness ==
  /\ \A q \in Requests : WF_vars(RequestStep(q))
  /\ WF_vars(ScheduledAtComes) /\ WF_vars(RowsAge)
  /\ WF_vars(PromoteDelayed) /\ WF_vars(JobStalls)
  /\ WF_vars(\E e \in Executors : TakeJob(e))
  /\ \A e \in Executors : WF_vars(ExecuteCampaign(e))
  /\ WF_vars(RecoverOverdueCampaigns)
  /\ \A m \in Messages : WF_vars(MessageSettles(m))

FairSpec == Spec /\ Fairness

-----------------------------------------------------------------------------
(* The counters of a campaign agree with its rows ("counters increment     *)
(* only on first stamp"), however receipts repeat, arrive out of order, or *)
(* are of a second message.  Two things part them, until the cron's next   *)
(* recomputation: a replacement of the audience, and an increment that     *)
(* commits while the cron overwrites the counters; the latter is missing   *)
(* from a counter, which never shows more than the rows.  Failures are     *)
(* counted right as long as no row was replaced or reclaimed under an      *)
(* executor at work.                                                       *)
Counted ==
  {"sent", "delivered", "read"} \cup
    (IF edition = 0 /\ \A c \in Contacts : resets[c] = 0 THEN {"failed"} ELSE {})
CountersAreRight ==
  \A k \in Counted :
    /\ drift.shown = "none" => counters[k] = CountsOfRows[k]
    /\ drift.shown = "late" => counters[k] <= CountsOfRows[k]

(* A recipient's stamps tell one story, in whatever order its receipts     *)
(* came and whichever message they were about: a read one was delivered, a *)
(* delivered one was sent, and a status of success bears its stamp.        *)
StampsAreOrdered ==
  \A c \in Contacts :
    LET row == recipient[c] IN
    /\ row.readAt => row.deliveredAt
    /\ row.deliveredAt => row.sentAt
    /\ row.status = "read" => row.readAt
    /\ row.status \in {"delivered", "read"} => row.deliveredAt
    /\ row.status \in Succeeded => row.sentAt

(* A contact gets a second message of the campaign only when its row was   *)
(* replaced, or reclaimed by the cron: concurrent executors, cancelled and *)
(* resumed sends, stalled jobs and crashes alone never send twice.         *)
MessagesTo(c) == {m \in Messages : outbox[m].to = c}
MessagesHaveACause ==
  \A c \in Contacts : Cardinality(MessagesTo(c)) <= 1 + edition + resets[c]

(* A finished campaign is never revived: no stale executor, late rollback  *)
(* of a failed launch, or request that checked an older status makes it    *)
(* draft, scheduled or sending again.                                      *)
Finished == status \in {"sent", "failed"}
FinishedIsFinal == [][Finished => Finished' \/ status' = "deleted"]_vars

(* A deleted campaign stays deleted ("Soft-delete a campaign"), whatever   *)
(* executors and requests hold an older status of it; only an executor     *)
(* that is about to record a failed preflight undoes the delete.           *)
DeletedStaysDeleted ==
  [][status = "deleted" /\ (\A e \in Executors : ~At(e, "failing"))
       => status' = "deleted"]_vars

(* A campaign reported as sent has resolved every recipient, if no row was *)
(* replaced or reclaimed under an executor at work.                        *)
SentIsResolved ==
  status = "sent" /\ edition = 0 /\ (\A c \in Contacts : resets[c] = 0)
    => InStatus(Unresolved) = {}

(* A scheduled campaign starts (or is cancelled or deleted) once its time  *)
(* has come, although its delayed wake may have been lost, removed or      *)
(* taken early.                                                            *)
DueCampaignStarts == status = "scheduled" /\ due ~> status # "scheduled"

(* A campaign that is sending goes through its recipients although its     *)
(* launch died before it enqueued the wake, a concurrent cancel removed    *)
(* that wake, or the wake came while another execution was active and was  *)
(* dropped.                                                                *)
LaunchedCampaignProceeds ==
  \A c \in Contacts :
    status = "sending" /\ recipient[c].status = "pending"
      ~> status # "sending" \/ recipient[c].status # "pending"

(* A claimed recipient does not stay in the hands of a dead executor.      *)
NoRecipientStuck ==
  \A c \in Contacts :
    recipient[c].status = "sending" ~> recipient[c].status # "sending"

(* Finished and deleted campaigns stay what they are (conditional updates  *)
(* of status in campaign_service and campaign_execution_service).          *)
EndsAreFinal == FinishedIsFinal /\ DeletedStaysDeleted

(* What was launched or scheduled proceeds (recoverOverdueCampaigns).      *)
LaunchesProceed == DueCampaignStarts /\ LaunchedCampaignProceeds

=============================================================================
