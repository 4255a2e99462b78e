--------------------------- MODULE Campaign_proofs ---------------------------
(***************************************************************************)
(* Proofs about Campaign, for any audience, any number of executors and    *)
(* requests, any batch size and either kind of audience.                   *)
(***************************************************************************)
EXTENDS Campaign, FiniteSetTheorems, TLAPS

-----------------------------------------------------------------------------
Rows == [status: RecipientStatus, message: Messages \cup {NoMessage},
         sentAt: BOOLEAN, deliveredAt: BOOLEAN, readAt: BOOLEAN]
RequestRows == [pc: {"idle", "checked", "ready", "enqueue", "remove"},
                target: {"draft", "sending", "scheduled"}, from: {"draft", "scheduled"}]
ExecutorRows == [pc: {"idle", "loading", "starting", "preflight", "failing", "claiming",
                      "fanout", "linking", "counting", "finalizing", "done"},
                 batch: SUBSET Contacts, contact: Contacts \cup {NoContact},
                 message: Messages \cup {NoMessage}, edition: Nat, holds: BOOLEAN]
CronRows == [pc: {"idle", "recompute", "overwrite", "wake"}, counted: CounterRecords]
OutboxRows == [to: Contacts \cup {NoContact}, wamid: BOOLEAN,
               status: {"none", "queued", "failed"} \cup Succeeded]
DriftRows == [shown: Causes, taken: Causes]

(* TypeOK with its records named.                                          *)
Typed ==
  /\ status \in CampaignStatus
  /\ due \in BOOLEAN
  /\ counters \in CounterRecords
  /\ recipient \in [Contacts -> Rows]
  /\ edition \in Nat
  /\ aged \in BOOLEAN
  /\ job \in JobStates
  /\ request \in [Requests -> RequestRows]
  /\ executor \in [Executors -> ExecutorRows]
  /\ cron \in CronRows
  /\ outbox \in [Messages -> OutboxRows]
  /\ requested \in Nat
  /\ resets \in [Contacts -> Nat]
  /\ drift \in DriftRows
  /\ faults \in Nat

(* An executor has a batch only while it fans out, and links a contact of  *)
(* its batch to the message it has queued.                                 *)
BatchesAreReal ==
  \A e \in Executors :
    /\ executor[e].batch # {} => executor[e].pc \in {"fanout", "linking"}
    /\ executor[e].pc = "linking" => executor[e].contact \in executor[e].batch

(* A row that is pending or claimed has no message, so no receipt finds it.*)
UnqueuedHaveNoMessage ==
  \A c \in Contacts : recipient[c].status \in {"pending", "sending"} =>
                        recipient[c].message = NoMessage

(* Each message to a contact was paid for by its row being made pending:   *)
(* at first, by a replacement of the audience or by the cron.  A row that  *)
(* is pending and an executor that is about to queue a message each hold a *)
(* right to one.                                                           *)
Claims(c) == {e \in Executors : /\ c \in executor[e].batch
                                /\ ~(executor[e].pc = "linking" /\ executor[e].contact = c)}
Right(c) == Bit(recipient[c].status = "pending")
MessagesArePaid ==
  \A c \in Contacts :
    Cardinality(MessagesTo(c)) + Cardinality(Claims(c)) + Right(c) <= 1 + edition + resets[c]

(* As long as no row was replaced or reclaimed, a row is claimed by one    *)
(* executor, and stays as it was claimed until that one is done with it.   *)
Undisturbed == edition = 0 /\ (\A c \in Contacts : resets[c] = 0)
ClaimsAreExclusive ==
  Undisturbed => \A e \in Executors : \A c \in executor[e].batch :
                   /\ recipient[c].status = "sending"
                   /\ \A d \in Executors \ {e} : c \notin executor[d].batch

(* ... so what an executor found resolved is resolved.                     *)
EndsAreResolved ==
  Undisturbed /\ (status = "sent" \/ \E e \in Executors : executor[e].pc = "finalizing")
    => InStatus(Unresolved) = {}

(* As long as no row was replaced, an executor's rows are the campaign's.  *)
EditionsAreReal == edition = 0 => \A e \in Executors : executor[e].edition = 0

(* The counters that are shown, and those that the cron is about to write, *)
(* agree with the rows but for the causes that are noted.                  *)
Agrees(counts, cause) ==
  \A k \in Counted : /\ cause = "none" => counts[k] = CountsOfRows[k]
                     /\ cause = "late" => counts[k] <= CountsOfRows[k]
CountsAgree ==
  /\ Agrees(counters, drift.shown)
  /\ cron.pc = "overwrite" => Agrees(cron.counted, drift.taken)

(* The inductive invariant.                                                *)
IInv ==
  /\ Typed /\ BatchesAreReal /\ UnqueuedHaveNoMessage /\ StampsAreOrdered
  /\ MessagesArePaid /\ ClaimsAreExclusive /\ EndsAreResolved
  /\ EditionsAreReal /\ CountsAgree

(* What most steps are to the rows, the batches and the messages: nothing. *)
Ending == status = "sent" \/ \E e \in Executors : executor[e].pc = "finalizing"
Calm ==
  /\ UNCHANGED <<recipient, outbox, edition, resets>>
  /\ \/ UNCHANGED <<counters, drift>> /\ (cron' = cron \/ cron'.pc # "overwrite")
     \/ RecomputeSnapshot \/ RecomputeOverwrite
  /\ \A e \in Executors : executor'[e].edition \in {0, executor[e].edition}
  /\ \A e \in Executors :
       \/ executor'[e].batch = {} /\ executor'[e].pc # "linking"
       \/ /\ executor'[e].batch = executor[e].batch
          /\ executor'[e].contact = executor[e].contact
          /\ executor[e].pc \in {"fanout", "linking"} => executor'[e].pc = executor[e].pc
          /\ executor'[e].pc = "linking" => executor[e].pc = "linking"
  /\ Ending' => Ending \/ InStatus(Unresolved) = {}

(* The other steps, apart from the handler's and the cron's own.           *)
Replaces ==
  /\ recipient' = [c \in Contacts |-> FreshRow]
  /\ edition' = edition + 1
  /\ NoteReplacement
  /\ UNCHANGED <<counters, outbox, resets, executor, cron, status>>
Receives(m, st) ==
  /\ ApplyProviderReceipt(m, st)
  /\ outbox' \in [Messages -> OutboxRows] /\ faults' \in Nat
  /\ \A k \in Messages : outbox'[k].to = outbox[k].to
Receipt == \E m \in Messages, st \in ProviderStatus : Receives(m, st)

-----------------------------------------------------------------------------
(* Any step is one of these.                                               *)
Works(e) ==
  \/ ClaimRecipientBatch(e)
  \/ \E c \in Contacts : QueueTemplate(e, c) \/ QueueTemplateFails(e, c)
  \/ LinkRecipient(e) \/ LinkRecipientFails(e)
Effect == \/ Calm \/ Replaces \/ Receipt \/ ScanOverdue
          \/ \E e \in Executors : Works(e)

(* An executor that moves on outside the fan-out disturbs nothing.         *)
LEMMA GotoIsCalm ==
  ASSUME IInv, NEW e \in Executors, NEW pc, Goto(e, pc),
         executor[e].pc \notin {"fanout", "linking"}, pc # "linking",
         pc = "finalizing" => InStatus(Unresolved) = {},
         UNCHANGED <<status, recipient, outbox, edition, resets, counters, drift, cron>>
  PROVE  Calm
<1>1. executor[e].batch = {}
  BY DEF IInv, BatchesAreReal
<1>2. /\ executor'[e].pc = pc /\ executor'[e].batch = {}
      /\ executor'[e].edition = executor[e].edition
      /\ \A d \in Executors \ {e} : executor'[d] = executor[d]
  BY <1>1 DEF Goto, IInv, Typed, ExecutorRows
<1>3. Ending' => Ending \/ InStatus(Unresolved) = {}
  BY <1>2 DEF Ending
<1> QED
  BY <1>2, <1>3 DEF Calm

(* Types that several steps keep in the same way.                          *)
LEMMA GotoKeepsType ==
  ASSUME Typed, NEW e \in Executors, NEW pc, Goto(e, pc),
         pc \in {"idle", "loading", "starting", "preflight", "failing", "claiming",
                 "fanout", "linking", "counting", "finalizing", "done"}
  PROVE  executor' \in [Executors -> ExecutorRows]
<1>1. executor[e] \in ExecutorRows
  BY DEF Typed
<1>2. [executor[e] EXCEPT !.pc = pc] \in ExecutorRows
  BY <1>1 DEF ExecutorRows
<1> QED
  BY <1>2 DEF Typed, Goto

(* The cron moves on.                                                      *)
LEMMA CronGotoKeepsType ==
  ASSUME NEW pc \in {"idle", "recompute", "overwrite", "wake"}, CronGoto(pc)
  PROVE  cron' \in CronRows
<1>1. ZeroCounters \in CounterRecords
  BY DEF ZeroCounters, CounterRecords
<1> QED
  BY <1>1 DEF CronGoto, IdleCron, CronRows

(* Enqueueing a wake, or failing to.                                       *)
LEMMA WakeKeepsType ==
  ASSUME Typed, NEW wake \in {"waiting", "delayed"}, EnqueueWake(wake) \/ EnqueueWakeFails
  PROVE  job' \in JobStates /\ faults' \in Nat
BY DEF Typed, EnqueueWake, EnqueueWakeFails, Fault, JobStates, EnqueueJob, AddJob, RemoveJob,
       EnqueueFailure

(* An executor is done with a recipient.                                   *)
LEMMA AfterRecipientKeepsType ==
  ASSUME Typed, NEW e \in Executors, NEW c, AfterRecipient(e, c)
  PROVE  executor' \in [Executors -> ExecutorRows]
<1> DEFINE rest == executor[e].batch \ {c}
           pc == IF rest = {} THEN "claiming" ELSE "fanout"
           row == [executor[e] EXCEPT !.pc = pc, !.batch = rest, !.contact = NoContact,
                                      !.message = NoMessage]
<1>1. executor[e] \in ExecutorRows
  BY DEF Typed
<1>2. rest \in SUBSET Contacts /\ pc \in {"claiming", "fanout"}
  BY <1>1 DEF ExecutorRows
<1>3. row \in ExecutorRows
  <2> HIDE DEF rest, pc
  <2> QED BY <1>1, <1>2 DEF ExecutorRows
<1>4. executor' = [executor EXCEPT ![e] = row]
  BY <1>1 DEF AfterRecipient, Typed, ExecutorRows
<1> HIDE DEF row
<1> QED
  BY <1>3, <1>4 DEF Typed

(* The update of a claimed row.                                            *)
LEMMA UpdateClaimedKeepsType ==
  ASSUME Typed, NEW e \in Executors, NEW c, NEW row, UpdateClaimed(e, c, row),
         c \in Contacts => row \in Rows
  PROVE  recipient' \in [Contacts -> Rows]
BY DEF Typed, UpdateClaimed

(* What is noted of increments and replacements is a cause.                *)
LEMMA NotesKeepType ==
  ASSUME Typed, NoteIncrement \/ NoteReplacement
  PROVE  drift' \in DriftRows
BY DEF Typed, NoteIncrement, NoteReplacement, DriftRows, Causes

(* A recipient is marked failed.                                           *)
LEMMA MarkRecipientFailedKeepsType ==
  ASSUME Typed, NEW e \in Executors, NEW c \in Contacts, MarkRecipientFailed(e, c)
  PROVE  /\ executor' \in [Executors -> ExecutorRows]
         /\ recipient' \in [Contacts -> Rows] /\ counters' \in CounterRecords
         /\ drift' \in DriftRows
<1>1. recipient[c] \in Rows
  BY DEF Typed
<1>2. [recipient[c] EXCEPT !.status = "failed"] \in Rows
  BY <1>1 DEF Rows, RecipientStatus
<1> QED
  BY <1>2, AfterRecipientKeepsType, UpdateClaimedKeepsType, NotesKeepType
     DEF MarkRecipientFailed, Typed, CounterRecords

(* What a receipt of success does to the stamps of a row.                  *)
LEMMA StampKeepsType ==
  ASSUME NEW row \in Rows, NEW st \in {"sent", "delivered", "read"}
  PROVE  /\ Stamp(row, st) \in Rows
         /\ Stamp(row, st).status = st /\ Stamp(row, st).message = row.message
         /\ Stamp(row, st).sentAt
         /\ Stamp(row, st).deliveredAt = (row.deliveredAt \/ st # "sent")
         /\ Stamp(row, st).readAt = (row.readAt \/ st = "read")
<1> DEFINE sent == row.sentAt \/ "sent" \in Reached(st)
           delivered == row.deliveredAt \/ "delivered" \in Reached(st)
           read == row.readAt \/ "read" \in Reached(st)
<1>1. sent \in BOOLEAN /\ delivered \in BOOLEAN /\ read \in BOOLEAN
  OBVIOUS
<1>2. Stamp(row, st) = [row EXCEPT !.status = st, !.sentAt = sent,
                                   !.deliveredAt = delivered, !.readAt = read]
  BY DEF Stamp, Rows
<1>3. /\ sent = TRUE
      /\ delivered = (row.deliveredAt \/ st # "sent")
      /\ read = (row.readAt \/ st = "read")
  BY DEF Reached, StatusRank, Rows
<1> HIDE DEF sent, delivered, read
<1> QED
  BY <1>1, <1>2, <1>3 DEF Rows, RecipientStatus, Succeeded

(* A receipt changes nothing but its message, or the row of one recipient. *)
LEMMA ReceiptMovesOne ==
  ASSUME Typed, NEW m \in Messages, NEW st \in ProviderStatus, ApplyProviderReceipt(m, st)
  PROVE  \/ UNCHANGED <<recipient, counters>>
         \/ \E c \in Contacts :
              /\ recipient[c].message = m
              /\ \/ st \in {"sent", "delivered", "read"} /\ ApplySuccess(c, st)
                 \/ st = "failed" /\ ApplyFailed(c)
BY DEF ApplyProviderReceipt, RecipientsOf, ProviderStatus

(* Whoever applies a receipt changes the status of its message.            *)
LEMMA ReceiptsAreReceived ==
  ASSUME Typed, NEW m \in Messages,
         \/ MessageSettles(m) \/ MessageSettlesAgain(m)
         \/ \E st \in ProviderStatus : WebhookReceipt(m, st)
  PROVE  \E st \in ProviderStatus : Receives(m, st)
<1>1. /\ {"sent", "failed"} \subseteq ProviderStatus
      /\ ProviderStatus \subseteq {"none", "queued", "failed"} \cup Succeeded
      /\ outbox \in [Messages -> OutboxRows]
  BY DEF ProviderStatus, Succeeded, Typed
<1>2. faults' \in Nat
  BY DEF MessageSettles, MessageSettlesAgain, WebhookReceipt, Fault, Typed
<1>3. ASSUME RecordSent(m) PROVE Receives(m, "sent")
  BY <1>1, <1>2, <1>3 DEF RecordSent, Receives, OutboxRows
<1>4. ASSUME RecordFailed(m) PROVE Receives(m, "failed")
  BY <1>1, <1>2, <1>4 DEF RecordFailed, Receives, OutboxRows
<1>5. ASSUME NEW st \in ProviderStatus, WebhookReceipt(m, st) PROVE Receives(m, st)
  BY <1>1, <1>2, <1>5 DEF WebhookReceipt, Receives, OutboxRows
<1> QED
  BY <1>1, <1>3, <1>4, <1>5 DEF MessageSettles, MessageSettlesAgain

(* A receipt keeps rows and counters what they are.                        *)
LEMMA ReceiptKeepsType ==
  ASSUME Typed, NEW m \in Messages, NEW st \in ProviderStatus, ApplyProviderReceipt(m, st)
  PROVE  /\ recipient' \in [Contacts -> Rows] /\ counters' \in CounterRecords
<1>1. ASSUME NEW c \in Contacts, st \in {"sent", "delivered", "read"}, ApplySuccess(c, st)
      PROVE  recipient' \in [Contacts -> Rows] /\ counters' \in CounterRecords
  <2> DEFINE after == Stamp(recipient[c], st)
             a == counters.sent + Bit(after.sentAt /\ ~recipient[c].sentAt)
             b == counters.delivered + Bit(after.deliveredAt /\ ~recipient[c].deliveredAt)
             d == counters.read + Bit(after.readAt /\ ~recipient[c].readAt)
  <2>1. after \in Rows
    BY <1>1, StampKeepsType DEF Typed
  <2>2. \/ UNCHANGED <<recipient, counters>>
        \/ /\ recipient' = [recipient EXCEPT ![c] = after]
           /\ counters' = [counters EXCEPT !.sent = a, !.delivered = b, !.read = d]
    BY <1>1 DEF ApplySuccess, Typed, CounterRecords
  <2>3. a \in Nat /\ b \in Nat /\ d \in Nat
    BY DEF Typed, CounterRecords, Bit
  <2> HIDE DEF after, a, b, d
  <2> QED BY <2>1, <2>2, <2>3 DEF Typed, CounterRecords
<1>2. ASSUME NEW c \in Contacts, ApplyFailed(c)
      PROVE  recipient' \in [Contacts -> Rows] /\ counters' \in CounterRecords
  <2>1. recipient[c] \in Rows
    BY DEF Typed
  <2>2. [recipient[c] EXCEPT !.status = "failed"] \in Rows
    BY <2>1 DEF Rows, RecipientStatus
  <2> QED BY <1>2, <2>2 DEF ApplyFailed, Typed, CounterRecords
<1> QED
  BY <1>1, <1>2, ReceiptMovesOne DEF Typed

(* Stamped rows can be counted: the audience is finite.                    *)
LEMMA CountsAreNumbers == CountsOfRows \in CounterRecords /\ CountsOfRows' \in CounterRecords
<1>1. ASSUME NEW set \in SUBSET Contacts PROVE Cardinality(set) \in Nat
  BY CampaignConstants, FS_Subset, FS_CardinalityType
<1>2. CountsOfRows \in CounterRecords
  <2>1. \A field : Stamped(field) \in Nat
    BY <1>1 DEF Stamped
  <2>2. Cardinality(InStatus({"failed"})) \in Nat
    BY <1>1 DEF InStatus
  <2> QED BY <2>1, <2>2 DEF CountsOfRows, CounterRecords
<1>3. CountsOfRows' \in CounterRecords
  <2>1. \A field : Stamped(field)' \in Nat
    BY <1>1 DEF Stamped
  <2>2. Cardinality(InStatus({"failed"})') \in Nat
    BY <1>1 DEF InStatus
  <2> QED BY <2>1, <2>2 DEF CountsOfRows, CounterRecords
<1> QED
  BY <1>2, <1>3

-----------------------------------------------------------------------------
(* Every step keeps Typed.                                                 *)
LEMMA TypedStep ==
  ASSUME IInv, [Next]_vars
  PROVE  Typed'
<1>1. ASSUME NEW q \in Requests, NEW target \in {"draft", "sending", "scheduled"}, Check(q, target)
      PROVE Typed'
  BY <1>1 DEF Check, LaunchableFrom, EligibleFor, IInv, Typed, rows, workers, RequestRows
<1>2. ASSUME NEW q \in Requests, Cancel(q) PROVE Typed'
  <2>1. request' \in [Requests -> RequestRows]
    BY <1>2 DEF Cancel, IInv, Typed, RequestRows
  <2>2. status' \in CampaignStatus /\ due' \in BOOLEAN /\ requested' \in Nat
    <3>1. status' = "draft" /\ due' = FALSE /\ requested' = requested + 1
      BY <1>2 DEF Cancel
    <3>2. requested' \in Nat
      BY <3>1 DEF IInv, Typed
    <3> QED BY <3>1, <3>2 DEF CampaignStatus
  <2>3. UNCHANGED <<counters, recipient, edition, aged, job, executor, cron, outbox, resets, drift,
                    faults>>
    BY <1>2 DEF Cancel, rows, workers, bounds
  <2> QED BY <2>1, <2>2, <2>3 DEF IInv, Typed
<1>3. ASSUME NEW q \in Requests, RefreshAudience(q) PROVE Typed'
  <2>1. request' \in [Requests -> RequestRows]
    BY <1>3 DEF RefreshAudience, IInv, Typed, RequestRows, IdleRequest
  <2>2. recipient' \in [Contacts -> Rows] /\ edition' \in Nat /\ aged' \in BOOLEAN
    <3>1. FreshRow \in Rows
      BY DEF FreshRow, Rows, RecipientStatus, Unresolved
    <3>2. \/ /\ recipient' = [c \in Contacts |-> FreshRow] /\ edition' = edition + 1
             /\ aged' = FALSE
          \/ UNCHANGED <<recipient, edition, aged>>
      BY <1>3 DEF RefreshAudience
    <3>3. recipient' \in [Contacts -> Rows] /\ edition' \in Nat
      BY <3>1, <3>2 DEF IInv, Typed
    <3>4. aged' \in BOOLEAN
      BY <3>2 DEF IInv, Typed
    <3> QED BY <3>3, <3>4
  <2>3. UNCHANGED <<status, due, counters, job, executor, cron, outbox, requested, resets, faults>>
    BY <1>3 DEF RefreshAudience, rows, workers, bounds
  <2>4. drift' \in DriftRows
    BY <1>3, NotesKeepType DEF RefreshAudience, IInv
  <2> QED BY <2>1, <2>2, <2>3, <2>4 DEF IInv, Typed
<1>4. ASSUME NEW q \in Requests, Launch(q) PROVE Typed'
  <2>1. request' \in [Requests -> RequestRows] /\ request[q].target \in CampaignStatus
    BY <1>4 DEF Launch, IInv, Typed, RequestRows, IdleRequest, CampaignStatus
  <2> QED BY <1>4, <2>1 DEF Launch, rows, workers, bounds, IInv, Typed
<1>5. ASSUME NEW q \in Requests, LaunchRefused(q) PROVE Typed'
  BY <1>5 DEF LaunchRefused, IInv, Typed, rows, workers, bounds, RequestRows, IdleRequest
<1>6. ASSUME NEW q \in Requests, EnqueueLaunch(q) PROVE Typed'
  <2>1. request' \in [Requests -> RequestRows] /\ request[q].from \in CampaignStatus
    BY <1>6 DEF EnqueueLaunch, IInv, Typed, RequestRows, IdleRequest, CampaignStatus
  <2>2. job' \in JobStates /\ faults' \in Nat
    BY <1>6, WakeKeepsType DEF EnqueueLaunch, IInv
  <2> QED BY <1>6, <2>1, <2>2 DEF EnqueueLaunch, rows, workers, bounds, IInv, Typed
<1>7. ASSUME NEW q \in Requests, RemoveWake(q) PROVE Typed'
  BY <1>7
     DEF RemoveWake, Fault, IInv, Typed, rows, workers, bounds, JobStates, RemoveJob,
         RequestRows, IdleRequest
<1>8. ASSUME NEW q \in Requests, RequestDies(q) PROVE Typed'
  BY <1>8
     DEF RequestDies, Fault, IInv, Typed, rows, workers, bounds, RequestRows, IdleRequest
<1>9. CASE Delete
  BY <1>9 DEF Delete, IInv, Typed, rows, workers, CampaignStatus
<1>10. CASE ScheduledAtComes
  BY <1>10 DEF ScheduledAtComes, IInv, Typed, rows, workers, bounds
<1>11. CASE RowsAge
  BY <1>11 DEF RowsAge, IInv, Typed, workers, bounds
<1>12. CASE PromoteDelayed
  BY <1>12 DEF PromoteDelayed, IInv, Typed, rows, workers, bounds, JobStates
<1>13. CASE JobStalls
  BY <1>13 DEF JobStalls, IInv, Typed, rows, workers, bounds, JobStates
<1>14. ASSUME NEW e \in Executors, TakeJob(e) PROVE Typed'
  <2>1. executor' \in [Executors -> ExecutorRows]
    <3> DEFINE row == [executor[e] EXCEPT !.pc = "loading", !.holds = TRUE]
    <3>1. executor[e] \in ExecutorRows
      BY DEF IInv, Typed
    <3>2. row \in ExecutorRows
      BY <3>1 DEF ExecutorRows
    <3>3. executor' = [executor EXCEPT ![e] = row]
      BY <1>14, <3>1 DEF TakeJob, IInv, Typed, ExecutorRows
    <3> HIDE DEF row
    <3> QED BY <3>2, <3>3 DEF IInv, Typed
  <2> QED BY <1>14, <2>1 DEF TakeJob, rows, workers, bounds, IInv, Typed, JobStates
<1>15. ASSUME NEW e \in Executors, JobLockLost(e) PROVE Typed'
  <2>1. executor' \in [Executors -> ExecutorRows]
    <3> DEFINE row == [executor[e] EXCEPT !.holds = FALSE]
    <3>1. executor[e] \in ExecutorRows /\ executor \in [Executors -> ExecutorRows]
      BY DEF IInv, Typed
    <3>2. row \in ExecutorRows
      BY <3>1 DEF ExecutorRows
    <3>3. executor' = [executor EXCEPT ![e] = row]
      BY <1>15 DEF JobLockLost
    <3> HIDE DEF row
    <3> QED BY <3>1, <3>2, <3>3
  <2> QED
    BY <1>15, <2>1
       DEF JobLockLost, rows, workers, bounds, IInv, Typed, JobStates, Fault
<1>16. ASSUME NEW e \in Executors, Load(e) PROVE Typed'
  <2>1. executor' \in [Executors -> ExecutorRows]
    BY <1>16, GotoKeepsType DEF Load, At, IInv
  <2> QED BY <1>16, <2>1 DEF Load, rows, workers, bounds, IInv, Typed, CampaignStatus
<1>17. ASSUME NEW e \in Executors, DeferEarlyWake(e) PROVE Typed'
  <2>1. executor' \in [Executors -> ExecutorRows]
    BY <1>17, GotoKeepsType DEF DeferEarlyWake, IInv
  <2>2. job' \in JobStates /\ faults' \in Nat
    BY <1>17, WakeKeepsType DEF DeferEarlyWake, IInv, Typed
  <2> QED BY <1>17, <2>1, <2>2 DEF DeferEarlyWake, rows, workers, bounds, IInv, Typed
<1>18. ASSUME NEW e \in Executors, Start(e) PROVE Typed'
  <2>1. executor' \in [Executors -> ExecutorRows]
    BY <1>18, GotoKeepsType DEF Start, At, IInv
  <2> QED BY <1>18, <2>1 DEF Start, rows, workers, bounds, IInv, Typed, CampaignStatus
<1>19. ASSUME NEW e \in Executors, Preflight(e) PROVE Typed'
  <2>1. executor' \in [Executors -> ExecutorRows]
    BY <1>19, GotoKeepsType DEF Preflight, At, IInv
  <2> QED BY <1>19, <2>1 DEF Preflight, rows, workers, bounds, IInv, Typed, CampaignStatus
<1>20. ASSUME NEW e \in Executors, FailCampaign(e) PROVE Typed'
  <2>1. executor' \in [Executors -> ExecutorRows]
    BY <1>20, GotoKeepsType DEF FailCampaign, At, IInv
  <2> QED
    BY <1>20, <2>1
       DEF FailCampaign, rows, workers, bounds, IInv, Typed, CampaignStatus
<1>21. ASSUME NEW e \in Executors, ClaimRecipientBatch(e) PROVE Typed'
  <2>1. PICK batch \in Batches :
          /\ recipient' = [c \in Contacts |->
               IF c \in batch THEN [recipient[c] EXCEPT !.status = "sending"]
                              ELSE recipient[c]]
          /\ executor' = [executor EXCEPT
               ![e].pc = IF batch = {} THEN "counting" ELSE "fanout",
               ![e].batch = batch, ![e].edition = edition]
    BY <1>21 DEF ClaimRecipientBatch
  <2>2. recipient' \in [Contacts -> Rows]
    <3>1. \A c \in Contacts : /\ recipient[c] \in Rows
                              /\ [recipient[c] EXCEPT !.status = "sending"] \in Rows
      BY DEF IInv, Typed, Rows, RecipientStatus, Unresolved
    <3> QED BY <2>1, <3>1
  <2>3. executor' \in [Executors -> ExecutorRows]
    <3> DEFINE pc == IF batch = {} THEN "counting" ELSE "fanout"
               row == [executor[e] EXCEPT !.pc = pc, !.batch = batch, !.edition = edition]
    <3>1. executor[e] \in ExecutorRows /\ edition \in Nat
      BY DEF IInv, Typed
    <3>2. batch \in SUBSET Contacts /\ pc \in {"counting", "fanout"}
      BY DEF Batches, Pending, InStatus
    <3>3. row \in ExecutorRows
      <4> HIDE DEF pc
      <4> QED BY <3>1, <3>2 DEF ExecutorRows
    <3>4. executor' = [executor EXCEPT ![e] = row]
      BY <2>1, <3>1 DEF IInv, Typed, ExecutorRows
    <3> HIDE DEF row
    <3> QED BY <3>3, <3>4 DEF IInv, Typed
  <2>4. UNCHANGED <<status, due, counters, edition, aged, job, request, cron, outbox, requested,
                    resets, drift, faults>>
    BY <1>21 DEF ClaimRecipientBatch, bounds
  <2> QED BY <2>2, <2>3, <2>4 DEF IInv, Typed
<1>22. ASSUME NEW e \in Executors, NEW c \in Contacts, QueueTemplate(e, c) PROVE Typed'
  <2>1. PICK m \in Messages :
             /\ outbox' = [outbox EXCEPT ![m] = [to |-> c, status |-> "queued", wamid |-> FALSE]]
             /\ executor' = [executor EXCEPT ![e].pc = "linking", ![e].contact = c,
                                             ![e].message = m]
    BY <1>22 DEF QueueTemplate
  <2>2. executor' \in [Executors -> ExecutorRows]
    <3> DEFINE row == [executor[e] EXCEPT !.pc = "linking", !.contact = c, !.message = m]
    <3>1. executor[e] \in ExecutorRows
      BY DEF IInv, Typed
    <3>2. row \in ExecutorRows
      BY <3>1 DEF ExecutorRows
    <3>3. executor' = [executor EXCEPT ![e] = row]
      BY <2>1, <3>1 DEF IInv, Typed, ExecutorRows
    <3> HIDE DEF row
    <3> QED BY <3>2, <3>3 DEF IInv, Typed
  <2>3. outbox' \in [Messages -> OutboxRows]
    BY <2>1 DEF IInv, Typed, OutboxRows
  <2> QED BY <1>22, <2>2, <2>3 DEF QueueTemplate, rows, workers, bounds, IInv, Typed
<1>23. ASSUME NEW e \in Executors, NEW c \in Contacts, QueueTemplateFails(e, c) PROVE Typed'
  <2>1. /\ executor' \in [Executors -> ExecutorRows]
        /\ recipient' \in [Contacts -> Rows] /\ counters' \in CounterRecords
        /\ drift' \in DriftRows
    BY <1>23, MarkRecipientFailedKeepsType DEF QueueTemplateFails, IInv
  <2> QED
    BY <1>23, <2>1
       DEF QueueTemplateFails, rows, workers, bounds, IInv, Typed, MarkRecipientFailed
<1>24. ASSUME NEW e \in Executors, LinkRecipient(e) PROVE Typed'
  <2>1. executor[e].contact \in Contacts
    BY <1>24 DEF LinkRecipient, At, IInv, BatchesAreReal, Typed, ExecutorRows
  <2>2. executor' \in [Executors -> ExecutorRows]
    BY <1>24, AfterRecipientKeepsType DEF LinkRecipient, IInv
  <2>3. recipient' \in [Contacts -> Rows]
    <3>1. recipient[executor[e].contact] \in Rows /\ executor[e].message \in Messages \cup {NoMessage}
      BY <2>1 DEF IInv, Typed, ExecutorRows
    <3>2. [recipient[executor[e].contact] EXCEPT !.status = "queued", !.message = executor[e].message]
            \in Rows
      BY <3>1 DEF Rows, RecipientStatus, Unresolved
    <3> QED BY <1>24, <3>2, UpdateClaimedKeepsType DEF LinkRecipient, IInv
  <2> QED BY <1>24, <2>1, <2>2, <2>3 DEF LinkRecipient, rows, workers, bounds, IInv, Typed
<1>25. ASSUME NEW e \in Executors, LinkRecipientFails(e) PROVE Typed'
  <2>1. executor[e].contact \in Contacts
    BY <1>25 DEF LinkRecipientFails, At, IInv, BatchesAreReal, Typed, ExecutorRows
  <2>2. /\ executor' \in [Executors -> ExecutorRows]
        /\ recipient' \in [Contacts -> Rows] /\ counters' \in CounterRecords
        /\ drift' \in DriftRows
    BY <1>25, <2>1, MarkRecipientFailedKeepsType DEF LinkRecipientFails, IInv
  <2> QED
    BY <1>25, <2>1, <2>2
       DEF LinkRecipientFails, rows, workers, bounds, IInv, Typed, MarkRecipientFailed,
           Fault
<1>26. ASSUME NEW e \in Executors, CountRemaining(e) PROVE Typed'
  <2>1. executor' \in [Executors -> ExecutorRows]
    BY <1>26, GotoKeepsType DEF CountRemaining, IInv
  <2>2. job' \in JobStates /\ faults' \in Nat
    BY <1>26, WakeKeepsType DEF CountRemaining, IInv, Typed
  <2> QED BY <1>26, <2>1, <2>2 DEF CountRemaining, rows, workers, bounds, IInv, Typed
<1>27. ASSUME NEW e \in Executors, FinalizeCampaign(e) PROVE Typed'
  <2>1. executor' \in [Executors -> ExecutorRows]
    BY <1>27, GotoKeepsType DEF FinalizeCampaign, At, IInv
  <2> QED
    BY <1>27, <2>1
       DEF FinalizeCampaign, rows, workers, bounds, IInv, Typed, CampaignStatus
<1>28. ASSUME NEW e \in Executors, FinishJob(e) PROVE Typed'
  BY <1>28 DEF FinishJob, IInv, Typed, rows, bounds, JobStates, ExecutorRows, IdleExecutor
<1>29. ASSUME NEW e \in Executors, ExecutorDies(e) PROVE Typed'
  BY <1>29
     DEF ExecutorDies, Fault, IInv, Typed, rows, bounds, JobStates, ExecutorRows,
         IdleExecutor
<1>30. CASE ScanOverdue
  <2>1. cron' \in CronRows
    BY <1>30, CronGotoKeepsType DEF ScanOverdue, ListedFor
  <2>2. recipient' \in [Contacts -> Rows]
    <3>1. \A c \in Contacts : [recipient[c] EXCEPT !.status = "pending"] \in Rows
      BY DEF IInv, Typed, Rows, RecipientStatus, Unresolved
    <3> QED BY <1>30, <3>1 DEF ScanOverdue, IInv, Typed
  <2>3. resets' \in [Contacts -> Nat]
    BY <1>30 DEF ScanOverdue, IInv, Typed
  <2> QED BY <1>30, <2>1, <2>2, <2>3 DEF ScanOverdue, rows, workers, bounds, IInv, Typed
<1>31. CASE RecomputeSnapshot
  <2>1. cron' \in CronRows
    BY <1>31, CountsAreNumbers DEF RecomputeSnapshot, CronRows
  <2>2. drift' \in DriftRows
    BY <1>31 DEF RecomputeSnapshot, IInv, Typed, DriftRows, Causes
  <2> QED BY <1>31, <2>1, <2>2 DEF RecomputeSnapshot, rows, workers, bounds, IInv, Typed
<1>32. CASE RecomputeOverwrite
  <2>1. cron' \in CronRows
    BY <1>32, CronGotoKeepsType DEF RecomputeOverwrite
  <2>2. counters' \in CounterRecords
    BY <1>32 DEF RecomputeOverwrite, IInv, Typed, CronRows
  <2>3. drift' \in DriftRows
    BY <1>32 DEF RecomputeOverwrite, IInv, Typed, DriftRows, Causes
  <2> QED BY <1>32, <2>1, <2>2, <2>3 DEF RecomputeOverwrite, rows, workers, bounds, IInv, Typed
<1>33. CASE CronWake
  <2>1. cron' \in CronRows
    BY <1>33, CronGotoKeepsType DEF CronWake
  <2>2. job' \in JobStates /\ faults' \in Nat
    BY <1>33, WakeKeepsType DEF CronWake, IInv
  <2> QED BY <1>33, <2>1, <2>2 DEF CronWake, rows, workers, bounds, IInv, Typed
<1>34. CASE CronDies
  <2>1. cron' \in CronRows
    BY <1>34, CronGotoKeepsType DEF CronDies
  <2> QED BY <1>34, <2>1 DEF CronDies, rows, workers, bounds, IInv, Typed, Fault
<1>35. ASSUME NEW m \in Messages,
              \/ MessageSettles(m) \/ MessageSettlesAgain(m)
              \/ \E st \in ProviderStatus : WebhookReceipt(m, st)
       PROVE Typed'
  <2>1. PICK st \in ProviderStatus : Receives(m, st)
    BY <1>35, ReceiptsAreReceived DEF IInv
  <2>2. /\ recipient' \in [Contacts -> Rows] /\ counters' \in CounterRecords
        /\ drift' \in DriftRows
    BY <2>1, ReceiptKeepsType, NotesKeepType DEF Receives, ApplyProviderReceipt, IInv
  <2> QED
    BY <2>1, <2>2 DEF Receives, workers, IInv, Typed, ApplyProviderReceipt
<1>36. CASE UNCHANGED vars
  BY <1>36 DEF vars, IInv, Typed
<1> QED
  BY <1>1, <1>2, <1>3, <1>4, <1>5, <1>6, <1>7, <1>8, <1>9, <1>10, <1>11, <1>12, <1>13,
     <1>14, <1>15, <1>16, <1>17, <1>18, <1>19, <1>20, <1>21, <1>22, <1>23, <1>24, <1>25,
     <1>26, <1>27, <1>28, <1>29, <1>30, <1>31, <1>32, <1>33, <1>34, <1>35, <1>36
     DEF Next, UserRequest, RequestStep, ExecuteCampaign, RecoverOverdueCampaigns

(* Every step has one of the effects.                                      *)
LEMMA Effects ==
  ASSUME IInv, [Next]_vars
  PROVE  Effect
<1>1. ASSUME NEW q \in Requests, NEW target \in {"draft", "sending", "scheduled"}, Check(q, target)
      PROVE Effect
  BY <1>1 DEF Check, rows, workers, Effect, Calm, Ending
<1>2. ASSUME NEW q \in Requests, Cancel(q) PROVE Effect
  BY <1>2 DEF Cancel, rows, workers, Effect, Calm, Ending
<1>3. ASSUME NEW q \in Requests, RefreshAudience(q) PROVE Effect
  <2>1. CASE TagAudience \/ request[q].target = "draft"
    BY <1>3, <2>1 DEF RefreshAudience, Replaces, workers, bounds, Effect
  <2>2. CASE ~(TagAudience \/ request[q].target = "draft")
    <3>1. UNCHANGED <<recipient, edition>> /\ NoteReplacement
      BY <1>3, <2>2 DEF RefreshAudience
    <3>2. UNCHANGED drift
      BY <3>1 DEF NoteReplacement, CountsOfRows, Stamped, InStatus
    <3> QED BY <1>3, <3>1, <3>2 DEF RefreshAudience, Calm, Ending, workers, Effect
  <2> QED BY <2>1, <2>2
<1>4. ASSUME NEW q \in Requests, Launch(q) PROVE Effect
  BY <1>4 DEF Launch, IInv, Typed, rows, workers, bounds, RequestRows, Effect, Calm, Ending
<1>5. ASSUME NEW q \in Requests, LaunchRefused(q) PROVE Effect
  BY <1>5 DEF LaunchRefused, rows, workers, bounds, Effect, Calm, Ending
<1>6. ASSUME NEW q \in Requests, EnqueueLaunch(q) PROVE Effect
  BY <1>6
     DEF EnqueueLaunch, IInv, Typed, rows, workers, bounds, RequestRows, Effect, Calm,
         Ending
<1>7. ASSUME NEW q \in Requests, RemoveWake(q) PROVE Effect
  BY <1>7 DEF RemoveWake, rows, workers, bounds, Effect, Calm, Ending
<1>8. ASSUME NEW q \in Requests, RequestDies(q) PROVE Effect
  BY <1>8 DEF RequestDies, rows, workers, bounds, Effect, Calm, Ending
<1>9. CASE Delete
  BY <1>9 DEF Delete, rows, workers, Effect, Calm, Ending
<1>10. CASE ScheduledAtComes
  BY <1>10 DEF ScheduledAtComes, rows, workers, bounds, Effect, Calm, Ending
<1>11. CASE RowsAge
  BY <1>11 DEF RowsAge, workers, bounds, Effect, Calm, Ending
<1>12. CASE PromoteDelayed
  BY <1>12 DEF PromoteDelayed, rows, workers, bounds, Effect, Calm, Ending
<1>13. CASE JobStalls
  BY <1>13 DEF JobStalls, rows, workers, bounds, Effect, Calm, Ending
<1>14. ASSUME NEW e \in Executors, TakeJob(e) PROVE Effect
  BY <1>14 DEF TakeJob, IInv, Typed, rows, bounds, Effect, Calm, Ending
<1>15. ASSUME NEW e \in Executors, JobLockLost(e) PROVE Effect
  BY <1>15 DEF JobLockLost, rows, bounds, Effect, Calm, Ending
<1>16. ASSUME NEW e \in Executors, Load(e) PROVE Effect
  <2>1. PICK pc : Goto(e, pc) /\ pc \in {"done", "starting", "preflight"}
    BY <1>16 DEF Load
  <2> QED BY <1>16, <2>1, GotoIsCalm DEF Load, At, rows, bounds, Effect
<1>17. ASSUME NEW e \in Executors, DeferEarlyWake(e) PROVE Effect
  BY <1>17 DEF DeferEarlyWake, At, Goto, rows, bounds, Effect, Calm, Ending
<1>18. ASSUME NEW e \in Executors, Start(e) PROVE Effect
  BY <1>18 DEF Start, At, Goto, rows, bounds, Effect, Calm, Ending
<1>19. ASSUME NEW e \in Executors, Preflight(e) PROVE Effect
  <2>1. PICK pc : Goto(e, pc) /\ pc \in {"claiming", "done", "failing"}
    BY <1>19 DEF Preflight
  <2> QED BY <1>19, <2>1, GotoIsCalm DEF Preflight, At, rows, bounds, Effect
<1>20. ASSUME NEW e \in Executors, FailCampaign(e) PROVE Effect
  BY <1>20 DEF FailCampaign, At, Goto, rows, bounds, Effect, Calm, Ending
<1>21. ASSUME NEW e \in Executors, ClaimRecipientBatch(e) PROVE Effect
  BY <1>21 DEF Effect, Works
<1>22. ASSUME NEW e \in Executors, NEW c \in Contacts, QueueTemplate(e, c) PROVE Effect
  BY <1>22 DEF Effect, Works
<1>23. ASSUME NEW e \in Executors, NEW c \in Contacts, QueueTemplateFails(e, c) PROVE Effect
  BY <1>23 DEF Effect, Works
<1>24. ASSUME NEW e \in Executors, LinkRecipient(e) PROVE Effect
  BY <1>24 DEF Effect, Works
<1>25. ASSUME NEW e \in Executors, LinkRecipientFails(e) PROVE Effect
  BY <1>25 DEF Effect, Works
<1>26. ASSUME NEW e \in Executors, CountRemaining(e) PROVE Effect
  <2>1. PICK pc : /\ Goto(e, pc) /\ pc \in {"finalizing", "done"}
                  /\ pc = "finalizing" => InStatus(Unresolved) = {}
    BY <1>26 DEF CountRemaining, Remaining
  <2> QED BY <1>26, <2>1, GotoIsCalm DEF CountRemaining, At, rows, bounds, Effect
<1>27. ASSUME NEW e \in Executors, FinalizeCampaign(e) PROVE Effect
  BY <1>27 DEF FinalizeCampaign, At, Goto, rows, bounds, Effect, Calm, Ending
<1>28. ASSUME NEW e \in Executors, FinishJob(e) PROVE Effect
  BY <1>28 DEF FinishJob, rows, bounds, IdleExecutor, Effect, Calm, Ending
<1>29. ASSUME NEW e \in Executors, ExecutorDies(e) PROVE Effect
  BY <1>29 DEF ExecutorDies, rows, bounds, IdleExecutor, Effect, Calm, Ending
<1>30. CASE ScanOverdue
  BY <1>30 DEF Effect
<1>31. CASE RecomputeSnapshot
  BY <1>31 DEF RecomputeSnapshot, rows, bounds, Effect, Calm, Ending
<1>32. CASE RecomputeOverwrite
  BY <1>32 DEF RecomputeOverwrite, bounds, Effect, Calm, Ending
<1>33. CASE CronWake
  BY <1>33 DEF CronWake, CronGoto, IdleCron, rows, bounds, Effect, Calm, Ending
<1>34. CASE CronDies
  BY <1>34 DEF CronDies, CronGoto, IdleCron, rows, bounds, Effect, Calm, Ending
<1>35. ASSUME NEW m \in Messages,
              \/ MessageSettles(m) \/ MessageSettlesAgain(m)
              \/ \E st \in ProviderStatus : WebhookReceipt(m, st)
       PROVE Effect
  BY <1>35, ReceiptsAreReceived DEF IInv, Effect, Receipt
<1>36. CASE UNCHANGED vars
  BY <1>36 DEF vars, Effect, Calm, Ending
<1> QED
  BY <1>1, <1>2, <1>3, <1>4, <1>5, <1>6, <1>7, <1>8, <1>9, <1>10, <1>11, <1>12, <1>13,
     <1>14, <1>15, <1>16, <1>17, <1>18, <1>19, <1>20, <1>21, <1>22, <1>23, <1>24, <1>25,
     <1>26, <1>27, <1>28, <1>29, <1>30, <1>31, <1>32, <1>33, <1>34, <1>35, <1>36
     DEF Next, UserRequest, RequestStep, ExecuteCampaign, RecoverOverdueCampaigns

-----------------------------------------------------------------------------
(* What the steps of the handler do to the rows and the batches.           *)
Claimed(e, batch) ==
  /\ executor[e].batch = {} /\ executor[e].pc = "claiming"
  /\ executor'[e].batch = batch /\ executor'[e].pc \in {"counting", "fanout"}
  /\ executor'[e].edition = edition
  /\ batch # {} => executor'[e].pc = "fanout"
  /\ \A d \in Executors \ {e} : executor'[d] = executor[d]
  /\ \A c \in batch :
       /\ recipient[c].status = "pending" /\ recipient'[c].status = "sending"
       /\ recipient'[c].message = recipient[c].message
       /\ recipient'[c].sentAt = recipient[c].sentAt
       /\ recipient'[c].deliveredAt = recipient[c].deliveredAt
       /\ recipient'[c].readAt = recipient[c].readAt
  /\ \A c \in Contacts \ batch : recipient'[c] = recipient[c]
  /\ UNCHANGED <<status, counters, edition, outbox, resets>>

Queued(e, c, m) ==
  /\ executor[e].pc = "fanout" /\ c \in executor[e].batch
  /\ executor'[e].pc = "linking" /\ executor'[e].contact = c
  /\ executor'[e].batch = executor[e].batch /\ executor'[e].edition = executor[e].edition
  /\ \A d \in Executors \ {e} : executor'[d] = executor[d]
  /\ outbox' = [outbox EXCEPT ![m] = [to |-> c, status |-> "queued", wamid |-> FALSE]]
  /\ UNCHANGED <<status, counters, recipient, edition, resets>>

Leaves(e, c) ==
  /\ executor[e].pc \in {"fanout", "linking"} /\ c \in executor[e].batch
  /\ executor[e].pc = "linking" => executor[e].contact = c
  /\ executor'[e].pc \in {"claiming", "fanout"}
  /\ executor'[e].batch = executor[e].batch \ {c}
  /\ executor'[e].edition = executor[e].edition
  /\ executor'[e].batch # {} => executor'[e].pc = "fanout"
  /\ \A d \in Executors \ {e} : executor'[d] = executor[d]
  /\ \/ recipient'[c] = recipient[c]
     \/ /\ recipient'[c].status \in {"failed", "queued"}
        /\ recipient'[c].sentAt = recipient[c].sentAt
        /\ recipient'[c].deliveredAt = recipient[c].deliveredAt
        /\ recipient'[c].readAt = recipient[c].readAt
  /\ \A d \in Contacts \ {c} : recipient'[d] = recipient[d]
  /\ UNCHANGED <<status, edition, outbox, resets>>

(* claimRecipientBatch claims a batch of pending rows.                     *)
LEMMA ClaimEffect ==
  ASSUME IInv, NEW e \in Executors, ClaimRecipientBatch(e)
  PROVE  \E batch \in SUBSET Contacts : Claimed(e, batch)
<1>1. PICK batch \in Batches :
        /\ recipient' = [c \in Contacts |->
             IF c \in batch THEN [recipient[c] EXCEPT !.status = "sending"]
                            ELSE recipient[c]]
        /\ executor' = [executor EXCEPT
             ![e].pc = IF batch = {} THEN "counting" ELSE "fanout",
             ![e].batch = batch, ![e].edition = edition]
  BY DEF ClaimRecipientBatch
<1>2. batch \in SUBSET Contacts /\ \A c \in batch : recipient[c].status = "pending"
  BY DEF Batches, Pending, InStatus
<1>3. executor[e].pc = "claiming" /\ executor[e].batch = {}
  BY DEF ClaimRecipientBatch, At, IInv, BatchesAreReal
<1>4. /\ executor'[e].batch = batch /\ executor'[e].edition = edition
      /\ executor'[e].pc = IF batch = {} THEN "counting" ELSE "fanout"
      /\ \A d \in Executors \ {e} : executor'[d] = executor[d]
  <2>1. executor[e] \in ExecutorRows
    BY DEF IInv, Typed
  <2> QED BY <1>1, <2>1 DEF IInv, Typed, ExecutorRows
<1>5. ASSUME NEW c \in batch
      PROVE  /\ recipient'[c].status = "sending"
             /\ recipient'[c].message = recipient[c].message
             /\ recipient'[c].sentAt = recipient[c].sentAt
             /\ recipient'[c].deliveredAt = recipient[c].deliveredAt
             /\ recipient'[c].readAt = recipient[c].readAt
  <2>1. recipient[c] \in Rows
    BY <1>2 DEF IInv, Typed
  <2>2. recipient'[c] = [recipient[c] EXCEPT !.status = "sending"]
    BY <1>1, <1>2
  <2> QED BY <2>1, <2>2 DEF Rows
<1>6. \A c \in Contacts \ batch : recipient'[c] = recipient[c]
  BY <1>1
<1>7. UNCHANGED <<status, counters, edition, outbox, resets>>
  BY DEF ClaimRecipientBatch, bounds
<1>8. Claimed(e, batch)
  BY <1>2, <1>3, <1>4, <1>5, <1>6, <1>7 DEF Claimed
<1> QED
  BY <1>2, <1>8

(* queueTemplate spends the right that its claim held.                     *)
LEMMA QueueEffect ==
  ASSUME IInv, NEW e \in Executors, NEW c \in Contacts, QueueTemplate(e, c)
  PROVE  \E m \in Messages : Queued(e, c, m)
<1>1. PICK m \in Messages :
        /\ outbox' = [outbox EXCEPT ![m] = [to |-> c, status |-> "queued", wamid |-> FALSE]]
        /\ executor' = [executor EXCEPT ![e].pc = "linking", ![e].contact = c,
                                        ![e].message = m]
  BY DEF QueueTemplate
<1>2. /\ executor'[e].pc = "linking" /\ executor'[e].contact = c
      /\ executor'[e].batch = executor[e].batch /\ executor'[e].edition = executor[e].edition
      /\ \A d \in Executors \ {e} : executor'[d] = executor[d]
  <2>1. executor[e] \in ExecutorRows
    BY DEF IInv, Typed
  <2> QED BY <1>1, <2>1 DEF IInv, Typed, ExecutorRows
<1>3. /\ executor[e].pc = "fanout" /\ c \in executor[e].batch
      /\ UNCHANGED <<status, counters, recipient, edition, resets>>
  BY DEF QueueTemplate, At, rows, bounds
<1> QED
  BY <1>1, <1>2, <1>3 DEF Queued

(* A recipient that is queued or failed leaves the batch.                  *)
LEMMA LeaveEffect ==
  ASSUME IInv, NEW e \in Executors, NEW c \in executor[e].batch, AfterRecipient(e, c),
         executor[e].pc \in {"fanout", "linking"},
         executor[e].pc = "linking" => executor[e].contact = c,
         NEW row, UpdateClaimed(e, c, row), row.status \in {"failed", "queued"},
         row.sentAt = recipient[c].sentAt, row.deliveredAt = recipient[c].deliveredAt,
         row.readAt = recipient[c].readAt,
         UNCHANGED <<status, edition, outbox, resets>>
  PROVE  Leaves(e, c)
<1>1. executor[e] \in ExecutorRows /\ c \in Contacts
  BY DEF IInv, Typed, ExecutorRows
<1>2. /\ executor'[e].batch = executor[e].batch \ {c}
      /\ executor'[e].edition = executor[e].edition
      /\ executor'[e].pc \in {"claiming", "fanout"}
      /\ executor'[e].batch # {} => executor'[e].pc = "fanout"
      /\ \A d \in Executors \ {e} : executor'[d] = executor[d]
  BY <1>1 DEF AfterRecipient, IInv, Typed, ExecutorRows
<1>3. /\ recipient'[c] = recipient[c] \/ recipient'[c] = row
      /\ \A d \in Contacts \ {c} : recipient'[d] = recipient[d]
  BY <1>1 DEF UpdateClaimed, IInv, Typed
<1> QED
  BY <1>2, <1>3 DEF Leaves

(* So does one whose message could not be queued,                          *)
LEMMA FailEffect ==
  ASSUME IInv, NEW e \in Executors, NEW c \in executor[e].batch, MarkRecipientFailed(e, c),
         executor[e].pc \in {"fanout", "linking"},
         executor[e].pc = "linking" => executor[e].contact = c
  PROVE  Leaves(e, c)
<1> DEFINE row == [recipient[c] EXCEPT !.status = "failed"]
<1>1. recipient[c] \in Rows
  BY DEF IInv, Typed, ExecutorRows
<1>2. /\ row.status = "failed" /\ row.sentAt = recipient[c].sentAt
      /\ row.deliveredAt = recipient[c].deliveredAt /\ row.readAt = recipient[c].readAt
  BY <1>1 DEF Rows
<1>3. /\ AfterRecipient(e, c) /\ UpdateClaimed(e, c, row)
      /\ UNCHANGED <<status, edition, outbox, resets>>
  BY DEF MarkRecipientFailed
<1> HIDE DEF row
<1> QED
  BY <1>2, <1>3, LeaveEffect

(* and one that is linked to its message.                                  *)
LEMMA LinkEffect ==
  ASSUME IInv, NEW e \in Executors, LinkRecipient(e)
  PROVE  Leaves(e, executor[e].contact)
<1> DEFINE c == executor[e].contact
           row == [recipient[c] EXCEPT !.status = "queued", !.message = executor[e].message]
<1>1. executor[e].pc = "linking" /\ c \in executor[e].batch
  BY DEF LinkRecipient, At, IInv, BatchesAreReal
<1>2. recipient[c] \in Rows
  BY <1>1 DEF IInv, Typed, ExecutorRows
<1>3. /\ row.status = "queued" /\ row.sentAt = recipient[c].sentAt
      /\ row.deliveredAt = recipient[c].deliveredAt /\ row.readAt = recipient[c].readAt
  BY <1>2 DEF Rows
<1>4. /\ AfterRecipient(e, c) /\ UpdateClaimed(e, c, row)
      /\ UNCHANGED <<status, counters, edition, outbox, resets>>
  BY DEF LinkRecipient, bounds
<1> HIDE DEF row, c
<1>5. Leaves(e, c)
  BY <1>1, <1>3, <1>4, LeaveEffect DEF c
<1> QED
  BY <1>5 DEF c

(* What an executor does in the fan-out.                                   *)
LEMMA WorkEffect ==
  ASSUME IInv, NEW e \in Executors, Works(e)
  PROVE  \/ \E batch \in SUBSET Contacts : Claimed(e, batch)
         \/ \E c \in Contacts, m \in Messages : Queued(e, c, m)
         \/ \E c \in Contacts : Leaves(e, c)
<1>1. CASE ClaimRecipientBatch(e)
  BY <1>1, ClaimEffect
<1>2. ASSUME NEW c \in Contacts, QueueTemplate(e, c)
      PROVE \E m \in Messages : Queued(e, c, m)
  BY <1>2, QueueEffect
<1>3. ASSUME NEW c \in Contacts, QueueTemplateFails(e, c) PROVE Leaves(e, c)
  BY <1>3, FailEffect DEF QueueTemplateFails, At
<1>4. CASE LinkRecipient(e)
  <2>1. executor[e].contact \in Contacts
    BY <1>4 DEF LinkRecipient, At, IInv, BatchesAreReal, Typed, ExecutorRows
  <2> QED BY <1>4, <2>1, LinkEffect
<1>5. CASE LinkRecipientFails(e)
  <2>1. /\ executor[e].pc = "linking" /\ executor[e].contact \in executor[e].batch
        /\ executor[e].contact \in Contacts
    BY <1>5 DEF LinkRecipientFails, At, IInv, BatchesAreReal, Typed, ExecutorRows
  <2>2. Leaves(e, executor[e].contact)
    BY <1>5, <2>1, FailEffect DEF LinkRecipientFails
  <2> QED BY <2>1, <2>2
<1> QED
  BY <1>1, <1>2, <1>3, <1>4, <1>5 DEF Works

(* What a receipt and a scan of the cron do to the rows.                   *)
SameStamps(c) ==
  /\ recipient'[c].sentAt = recipient[c].sentAt
  /\ recipient'[c].deliveredAt = recipient[c].deliveredAt
  /\ recipient'[c].readAt = recipient[c].readAt
Reports(c, st) ==
  /\ st \in {"sent", "delivered", "read"} /\ recipient'[c].status = st
  /\ recipient'[c].sentAt
  /\ recipient'[c].deliveredAt = (recipient[c].deliveredAt \/ st # "sent")
  /\ recipient'[c].readAt = (recipient[c].readAt \/ st = "read")

(* A receipt reaches only the row of its message.                          *)
LEMMA ReceiptEffect ==
  ASSUME IInv, NEW m \in Messages, NEW st \in ProviderStatus, Receives(m, st)
  PROVE  /\ \A c \in Contacts :
              \/ recipient'[c] = recipient[c]
              \/ /\ recipient[c].message = m
                 /\ Reports(c, st) \/ (recipient'[c].status = "failed" /\ SameStamps(c))
         /\ \A k \in Messages : outbox'[k].to = outbox[k].to
         /\ UNCHANGED <<status, executor, cron, edition, resets>>
<1>1. \A k \in Messages : outbox'[k].to = outbox[k].to
  BY DEF Receives
<1>2. UNCHANGED <<status, executor, cron, edition, resets>> /\ ApplyProviderReceipt(m, st)
  BY DEF Receives, ApplyProviderReceipt, workers
<1>3. ASSUME NEW d \in Contacts, recipient[d].message = m,
             st \in {"sent", "delivered", "read"}, ApplySuccess(d, st), NEW c \in Contacts
      PROVE  recipient'[c] = recipient[c] \/ (recipient[c].message = m /\ Reports(c, st))
  <2>1. \/ UNCHANGED recipient
        \/ recipient' = [recipient EXCEPT ![d] = Stamp(recipient[d], st)]
    BY <1>3 DEF ApplySuccess
  <2>2. recipient[d] \in Rows
    BY DEF IInv, Typed
  <2> QED BY <1>3, <2>1, <2>2, StampKeepsType DEF Reports, IInv, Typed
<1>4. ASSUME NEW d \in Contacts, recipient[d].message = m, ApplyFailed(d), NEW c \in Contacts
      PROVE  \/ recipient'[c] = recipient[c]
             \/ recipient[c].message = m /\ recipient'[c].status = "failed" /\ SameStamps(c)
  BY <1>4 DEF ApplyFailed, SameStamps, IInv, Typed, Rows
<1> QED
  BY <1>1, <1>2, <1>3, <1>4, ReceiptMovesOne DEF IInv

(* The cron makes claimed rows pending again and counts it.                *)
LEMMA ScanEffect ==
  ASSUME IInv, ScanOverdue
  PROVE  /\ \A c \in Contacts :
              \/ recipient'[c] = recipient[c] /\ resets'[c] = resets[c]
              \/ /\ recipient[c].status = "sending" /\ recipient'[c].status = "pending"
                 /\ recipient[c].message = NoMessage /\ recipient'[c].message = NoMessage
                 /\ SameStamps(c) /\ resets'[c] = resets[c] + 1
         /\ UNCHANGED <<status, counters, executor, edition, outbox>>
<1>1. UNCHANGED <<status, counters, executor, edition, outbox>>
  BY DEF ScanOverdue
<1>2. ASSUME NEW c \in Contacts, c \in Reclaimable
      PROVE  /\ recipient[c].status = "sending" /\ recipient'[c].status = "pending"
             /\ recipient[c].message = NoMessage /\ recipient'[c].message = NoMessage
             /\ SameStamps(c) /\ resets'[c] = resets[c] + 1
  <2>1. /\ recipient'[c] = [recipient[c] EXCEPT !.status = "pending"]
        /\ resets'[c] = resets[c] + 1
    BY <1>2 DEF ScanOverdue
  <2>2. recipient[c] \in Rows
    BY DEF IInv, Typed
  <2>3. recipient[c].status = "sending" /\ recipient[c].message = NoMessage
    BY <1>2 DEF Reclaimable, InStatus
  <2> QED BY <2>1, <2>2, <2>3 DEF SameStamps, Rows
<1>3. ASSUME NEW c \in Contacts, c \notin Reclaimable
      PROVE  recipient'[c] = recipient[c] /\ resets'[c] = resets[c]
  BY <1>3 DEF ScanOverdue
<1> QED
  BY <1>1, <1>2, <1>3

-----------------------------------------------------------------------------
(* Every step keeps BatchesAreReal.                                        *)
LEMMA BatchesAreRealStep ==
  ASSUME IInv, [Next]_vars
  PROVE  BatchesAreReal'
<1>1. CASE Calm
  BY <1>1 DEF Calm, IInv, BatchesAreReal
<1>2. CASE UNCHANGED executor
  BY <1>2 DEF IInv, BatchesAreReal
<1>3. ASSUME NEW e \in Executors, NEW batch \in SUBSET Contacts, Claimed(e, batch)
      PROVE  BatchesAreReal'
  BY <1>3 DEF Claimed, IInv, BatchesAreReal
<1>4. ASSUME NEW e \in Executors, NEW c \in Contacts, NEW m \in Messages, Queued(e, c, m)
      PROVE  BatchesAreReal'
  BY <1>4 DEF Queued, IInv, BatchesAreReal
<1>5. ASSUME NEW e \in Executors, NEW c \in Contacts, Leaves(e, c) PROVE BatchesAreReal'
  BY <1>5 DEF Leaves, IInv, BatchesAreReal
<1> QED
  BY <1>1, <1>2, <1>3, <1>4, <1>5, Effects, WorkEffect, ReceiptEffect, ScanEffect
     DEF Effect, Receipt, Replaces

(* Every step keeps UnqueuedHaveNoMessage.                                 *)
LEMMA UnqueuedHaveNoMessageStep ==
  ASSUME IInv, [Next]_vars
  PROVE  UnqueuedHaveNoMessage'
<1>1. CASE UNCHANGED recipient
  BY <1>1 DEF IInv, UnqueuedHaveNoMessage
<1>2. CASE Replaces
  BY <1>2 DEF Replaces, UnqueuedHaveNoMessage, FreshRow
<1>3. ASSUME NEW m \in Messages, NEW st \in ProviderStatus, Receives(m, st)
      PROVE  UnqueuedHaveNoMessage'
  BY <1>3, ReceiptEffect DEF IInv, UnqueuedHaveNoMessage, Reports
<1>4. CASE ScanOverdue
  BY <1>4, ScanEffect DEF IInv, UnqueuedHaveNoMessage
<1>5. ASSUME NEW e \in Executors, NEW batch \in SUBSET Contacts, Claimed(e, batch)
      PROVE  UnqueuedHaveNoMessage'
  BY <1>5 DEF Claimed, IInv, UnqueuedHaveNoMessage
<1>6. ASSUME NEW e \in Executors, NEW c \in Contacts, Leaves(e, c)
      PROVE  UnqueuedHaveNoMessage'
  BY <1>6 DEF Leaves, IInv, UnqueuedHaveNoMessage
<1> QED
  BY <1>1, <1>2, <1>3, <1>4, <1>5, <1>6, Effects, WorkEffect
     DEF Effect, Receipt, Calm, Queued

(* Every step keeps StampsAreOrdered.                                      *)
LEMMA StampsAreOrderedStep ==
  ASSUME IInv, [Next]_vars
  PROVE  StampsAreOrdered'
<1>1. CASE UNCHANGED recipient
  BY <1>1 DEF IInv, StampsAreOrdered
<1>2. CASE Replaces
  BY <1>2 DEF Replaces, StampsAreOrdered, FreshRow, Succeeded
<1>3. ASSUME NEW m \in Messages, NEW st \in ProviderStatus, Receives(m, st)
      PROVE  StampsAreOrdered'
  <2> SUFFICES ASSUME NEW c \in Contacts
               PROVE  /\ recipient'[c].readAt => recipient'[c].deliveredAt
                      /\ recipient'[c].deliveredAt => recipient'[c].sentAt
                      /\ recipient'[c].status = "read" => recipient'[c].readAt
                      /\ recipient'[c].status \in {"delivered", "read"} =>
                           recipient'[c].deliveredAt
                      /\ recipient'[c].status \in Succeeded => recipient'[c].sentAt
    BY DEF StampsAreOrdered
  <2>1. CASE recipient'[c] = recipient[c]
    BY <2>1 DEF IInv, StampsAreOrdered
  <2>2. CASE Reports(c, st)
    BY <2>2 DEF Reports, IInv, StampsAreOrdered, Succeeded
  <2>3. CASE recipient'[c].status = "failed" /\ SameStamps(c)
    BY <2>3 DEF SameStamps, IInv, StampsAreOrdered, Succeeded
  <2> QED BY <1>3, <2>1, <2>2, <2>3, ReceiptEffect
<1>4. CASE ScanOverdue
  BY <1>4, ScanEffect DEF IInv, StampsAreOrdered, SameStamps, Succeeded
<1>5. ASSUME NEW e \in Executors, NEW batch \in SUBSET Contacts, Claimed(e, batch)
      PROVE  StampsAreOrdered'
  BY <1>5 DEF Claimed, IInv, StampsAreOrdered, Succeeded
<1>6. ASSUME NEW e \in Executors, NEW c \in Contacts, Leaves(e, c)
      PROVE  StampsAreOrdered'
  BY <1>6 DEF Leaves, IInv, StampsAreOrdered, Succeeded
<1> QED
  BY <1>1, <1>2, <1>3, <1>4, <1>5, <1>6, Effects, WorkEffect
     DEF Effect, Receipt, Calm, Queued

-----------------------------------------------------------------------------
(* The rights to send.                                                     *)
LEMMA SetsAreFinite ==
  /\ \A set \in SUBSET Messages : IsFiniteSet(set) /\ Cardinality(set) \in Nat
  /\ \A set \in SUBSET Executors : IsFiniteSet(set) /\ Cardinality(set) \in Nat
<1>1. IsFiniteSet(Messages)
  BY CampaignConstants, FS_Interval DEF Messages
<1> QED
  BY <1>1, CampaignConstants, FS_Subset, FS_CardinalityType

Paid(c) ==
  Cardinality(MessagesTo(c)) + Cardinality(Claims(c)) + Right(c) <= 1 + edition + resets[c]

(* A step that adds no message or claim and no unpaid right keeps them     *)
(* paid.                                                                   *)
LEMMA PaidStays ==
  ASSUME IInv, Typed', NEW c \in Contacts, Claims(c)' \subseteq Claims(c),
         MessagesTo(c)' = MessagesTo(c),
         Right(c)' + edition + resets[c] <= Right(c) + edition' + resets'[c]
  PROVE  Paid(c)'
<1>1. Paid(c)
  BY DEF IInv, MessagesArePaid, Paid
<1>2. /\ MessagesTo(c) \in SUBSET Messages
      /\ Claims(c) \in SUBSET Executors /\ Claims(c)' \in SUBSET Executors
  BY DEF MessagesTo, Claims
<1>3. Cardinality(Claims(c)') <= Cardinality(Claims(c))
  BY <1>2, SetsAreFinite, FS_Subset
<1>4. /\ Cardinality(MessagesTo(c)) \in Nat /\ Cardinality(Claims(c)) \in Nat
      /\ Cardinality(Claims(c)') \in Nat
  BY <1>2, SetsAreFinite
<1>5. /\ Right(c) \in Nat /\ Right(c)' \in Nat
      /\ edition \in Nat /\ edition' \in Nat /\ resets[c] \in Nat /\ resets'[c] \in Nat
  BY DEF Right, Bit, IInv, Typed
<1> QED
  BY <1>1, <1>3, <1>4, <1>5 DEF Paid

(* Every step keeps MessagesArePaid.                                       *)
LEMMA MessagesArePaidStep ==
  ASSUME IInv, [Next]_vars
  PROVE  MessagesArePaid'
<1> SUFFICES ASSUME NEW c \in Contacts PROVE Paid(c)'
  BY DEF MessagesArePaid, Paid
<1>1. Typed'
  BY TypedStep
<1>2. /\ edition \in Nat /\ resets[c] \in Nat /\ Right(c) \in {0, 1}
      /\ Right(c)' \in {0, 1}
  BY DEF IInv, Typed, Right, Bit
<1>3. CASE Calm
  <2>1. Claims(c)' \subseteq Claims(c)
    BY <1>3 DEF Calm, Claims, IInv, BatchesAreReal
  <2>2. MessagesTo(c)' = MessagesTo(c) /\ Right(c)' = Right(c)
    BY <1>3 DEF Calm, MessagesTo, Right
  <2>3. Right(c)' + edition + resets[c] <= Right(c) + edition' + resets'[c]
    BY <1>2, <1>3, <2>2 DEF Calm
  <2> QED BY <1>1, <2>1, <2>2, <2>3, PaidStays
<1>4. CASE Replaces
  <2>1. Claims(c)' = Claims(c) /\ MessagesTo(c)' = MessagesTo(c)
    BY <1>4 DEF Replaces, Claims, MessagesTo
  <2>2. Right(c)' + edition + resets[c] <= Right(c) + edition' + resets'[c]
    BY <1>2, <1>4 DEF Replaces
  <2> QED BY <1>1, <2>1, <2>2, PaidStays
<1>5. ASSUME NEW m \in Messages, NEW st \in ProviderStatus, Receives(m, st)
      PROVE  Paid(c)'
  <2>1. Claims(c)' = Claims(c) /\ MessagesTo(c)' = MessagesTo(c)
    BY <1>5, ReceiptEffect DEF Claims, MessagesTo
  <2>2. recipient'[c].status = "pending" => recipient[c].status = "pending"
    BY <1>5, ReceiptEffect DEF Reports
  <2>3. Right(c)' <= Right(c)
    BY <2>2 DEF Right, Bit
  <2>4. Right(c)' + edition + resets[c] <= Right(c) + edition' + resets'[c]
    BY <1>2, <1>5, <2>3, ReceiptEffect
  <2> QED BY <1>1, <2>1, <2>4, PaidStays
<1>6. CASE ScanOverdue
  <2>1. Claims(c)' = Claims(c) /\ MessagesTo(c)' = MessagesTo(c)
    BY <1>6, ScanEffect DEF Claims, MessagesTo
  <2>2. \/ recipient'[c] = recipient[c] /\ resets'[c] = resets[c] /\ edition' = edition
        \/ resets'[c] = resets[c] + 1 /\ edition' = edition
    BY <1>6, ScanEffect
  <2>3. recipient'[c] = recipient[c] => Right(c)' = Right(c)
    BY DEF Right
  <2>4. Right(c)' + edition + resets[c] <= Right(c) + edition' + resets'[c]
    BY <1>2, <2>2, <2>3
  <2> QED BY <1>1, <2>1, <2>4, PaidStays
<1>7. ASSUME NEW e \in Executors, NEW batch \in SUBSET Contacts, Claimed(e, batch)
      PROVE  Paid(c)'
  <2>1. MessagesTo(c)' = MessagesTo(c) /\ edition' = edition /\ resets' = resets
    BY <1>7 DEF Claimed, MessagesTo
  <2>2. CASE c \notin batch
    <3>1. Claims(c)' \subseteq Claims(c)
      BY <1>7, <2>2 DEF Claimed, Claims
    <3>2. Right(c)' = Right(c)
      BY <1>7, <2>2 DEF Claimed, Right
    <3>3. Right(c)' + edition + resets[c] <= Right(c) + edition' + resets'[c]
      BY <1>2, <2>1, <3>2
    <3> QED BY <1>1, <2>1, <3>1, <3>3, PaidStays
  <2>3. CASE c \in batch
    <3>1. Claims(c)' = Claims(c) \cup {e} /\ e \notin Claims(c)
      BY <1>7, <2>3 DEF Claimed, Claims
    <3>2. Right(c) = 1 /\ Right(c)' = 0
      BY <1>7, <2>3 DEF Claimed, Right, Bit
    <3>3. Claims(c) \in SUBSET Executors /\ MessagesTo(c) \in SUBSET Messages
      BY DEF Claims, MessagesTo
    <3>4. Cardinality(Claims(c)') = Cardinality(Claims(c)) + 1
      BY <3>1, <3>3, SetsAreFinite, FS_AddElement
    <3>5. Cardinality(Claims(c)) \in Nat /\ Cardinality(MessagesTo(c)) \in Nat
      BY <3>3, SetsAreFinite
    <3>6. Paid(c)
      BY DEF IInv, MessagesArePaid, Paid
    <3> QED BY <1>2, <2>1, <3>2, <3>4, <3>5, <3>6 DEF Paid
  <2> QED BY <2>2, <2>3
<1>8. ASSUME NEW e \in Executors, NEW d \in Contacts, NEW m \in Messages, Queued(e, d, m)
      PROVE  Paid(c)'
  <2>1. edition' = edition /\ resets' = resets /\ Right(c)' = Right(c)
    BY <1>8 DEF Queued, Right
  <2>2. \A k \in Messages : outbox'[k].to = IF k = m THEN d ELSE outbox[k].to
    BY <1>8 DEF Queued, IInv, Typed, OutboxRows
  <2>3. Paid(c)
    BY DEF IInv, MessagesArePaid, Paid
  <2>4. /\ Claims(c) \in SUBSET Executors /\ Claims(c)' \in SUBSET Executors
        /\ MessagesTo(c) \in SUBSET Messages /\ MessagesTo(c)' \in SUBSET Messages
    BY DEF Claims, MessagesTo
  <2>5. /\ Cardinality(Claims(c)) \in Nat /\ Cardinality(Claims(c)') \in Nat
        /\ Cardinality(MessagesTo(c)) \in Nat /\ Cardinality(MessagesTo(c)') \in Nat
    BY <2>4, SetsAreFinite
  <2>6. CASE c # d
    <3>1. MessagesTo(c)' \subseteq MessagesTo(c)
      BY <2>2, <2>6 DEF MessagesTo
    <3>2. Claims(c)' \subseteq Claims(c)
      BY <1>8, <2>6 DEF Queued, Claims
    <3>3. /\ Cardinality(MessagesTo(c)') <= Cardinality(MessagesTo(c))
          /\ Cardinality(Claims(c)') <= Cardinality(Claims(c))
      BY <2>4, <3>1, <3>2, SetsAreFinite, FS_Subset
    <3> QED BY <1>2, <2>1, <2>3, <2>5, <3>3 DEF Paid
  <2>7. CASE c = d
    <3>1. MessagesTo(c)' \subseteq MessagesTo(c) \cup {m}
      BY <2>2, <2>7 DEF MessagesTo
    <3>2. Claims(c)' \subseteq Claims(c) \ {e} /\ e \in Claims(c)
      BY <1>8, <2>7 DEF Queued, Claims
    <3>3. Cardinality(MessagesTo(c)') <= Cardinality(MessagesTo(c)) + 1
      <4>1. MessagesTo(c) \cup {m} \in SUBSET Messages
        BY <2>4
      <4>2. Cardinality(MessagesTo(c)') <= Cardinality(MessagesTo(c) \cup {m})
        BY <3>1, <4>1, SetsAreFinite, FS_Subset
      <4>3. Cardinality(MessagesTo(c) \cup {m}) <= Cardinality(MessagesTo(c)) + 1
        <5> DEFINE old == MessagesTo(c)
        <5>1. IsFiniteSet(old) /\ Cardinality(old) \in Nat
          BY <2>4, SetsAreFinite
        <5> HIDE DEF old
        <5>2. Cardinality(old \cup {m}) =
                IF m \in old THEN Cardinality(old) ELSE Cardinality(old) + 1
          BY <5>1, FS_AddElement
        <5>3. Cardinality(old \cup {m}) <= Cardinality(old) + 1
          BY <5>1, <5>2
        <5> QED BY <5>3 DEF old
      <4>4. Cardinality(MessagesTo(c) \cup {m}) \in Nat
        BY <4>1, SetsAreFinite
      <4> QED BY <2>5, <4>2, <4>3, <4>4
    <3>4. Cardinality(Claims(c)') <= Cardinality(Claims(c)) - 1
      <4>1. Cardinality(Claims(c) \ {e}) = Cardinality(Claims(c)) - 1
        BY <2>4, <3>2, SetsAreFinite, FS_RemoveElement
      <4>2. Cardinality(Claims(c)') <= Cardinality(Claims(c) \ {e})
        BY <2>4, <3>2, SetsAreFinite, FS_Subset
      <4> QED BY <4>1, <4>2
    <3> QED BY <1>2, <2>1, <2>3, <2>5, <3>3, <3>4 DEF Paid
  <2> QED BY <2>6, <2>7
<1>9. ASSUME NEW e \in Executors, NEW d \in Contacts, Leaves(e, d)
      PROVE  Paid(c)'
  <2>1. MessagesTo(c)' = MessagesTo(c) /\ edition' = edition /\ resets' = resets
    BY <1>9 DEF Leaves, MessagesTo
  <2>2. Claims(c)' \subseteq Claims(c)
    BY <1>9 DEF Leaves, Claims
  <2>3. recipient'[c].status = "pending" => recipient[c].status = "pending"
    BY <1>9 DEF Leaves
  <2>4. Right(c)' <= Right(c)
    BY <2>3 DEF Right, Bit
  <2>5. Right(c)' + edition + resets[c] <= Right(c) + edition' + resets'[c]
    BY <1>2, <2>1, <2>4
  <2> QED BY <1>1, <2>1, <2>2, <2>5, PaidStays
<1> QED
  BY <1>3, <1>4, <1>5, <1>6, <1>7, <1>8, <1>9, Effects, WorkEffect DEF Effect, Receipt

-----------------------------------------------------------------------------
(* If no row was replaced or reset by now, none was before.                *)
LEMMA UndisturbedBefore ==
  ASSUME IInv, Undisturbed'
  PROVE  /\ ~Replaces
         /\ edition' = edition /\ resets' = resets => Undisturbed
         /\ ScanOverdue => Undisturbed /\ recipient' = recipient
<1>1. ~Replaces
  BY DEF Replaces, Undisturbed, IInv, Typed
<1>2. ASSUME ScanOverdue
      PROVE  Undisturbed /\ recipient' = recipient
  <2>1. \A c \in Contacts : recipient'[c] = recipient[c] /\ resets'[c] = resets[c]
    <3> TAKE c \in Contacts
    <3>1. resets[c] \in Nat /\ resets'[c] = 0
      BY DEF IInv, Typed, Undisturbed
    <3> QED BY <1>2, <3>1, ScanEffect
  <2>2. recipient' \in [Contacts -> Rows] /\ recipient \in [Contacts -> Rows]
    <3>1. [Next]_vars
      BY <1>2 DEF Next, RecoverOverdueCampaigns
    <3> QED BY <3>1, TypedStep DEF IInv, Typed
  <2> QED BY <1>2, <2>1, <2>2, ScanEffect DEF Undisturbed
<1>3. edition' = edition /\ resets' = resets => Undisturbed
  BY DEF Undisturbed
<1> QED
  BY <1>1, <1>2, <1>3

(* Every step keeps ClaimsAreExclusive.                                    *)
LEMMA ClaimsAreExclusiveStep ==
  ASSUME IInv, [Next]_vars
  PROVE  ClaimsAreExclusive'
<1> SUFFICES ASSUME Undisturbed', NEW x \in Executors, NEW c \in executor'[x].batch
             PROVE  /\ recipient'[c].status = "sending"
                    /\ \A y \in Executors \ {x} : c \notin executor'[y].batch
  BY DEF ClaimsAreExclusive
<1>1. c \in Contacts
  BY TypedStep DEF Typed, ExecutorRows
<1>2. ASSUME Undisturbed, NEW z \in Executors, c \in executor[z].batch
      PROVE  /\ recipient[c].status = "sending"
             /\ \A y \in Executors \ {z} : c \notin executor[y].batch
  BY <1>2 DEF IInv, ClaimsAreExclusive
<1>3. CASE Calm
  <2>1. Undisturbed
    BY <1>3, UndisturbedBefore DEF Calm
  <2>2. recipient' = recipient
    BY <1>3 DEF Calm
  <2>3. \A y \in Executors : executor'[y].batch \subseteq executor[y].batch
    BY <1>3 DEF Calm
  <2> QED BY <1>2, <2>1, <2>2, <2>3
<1>4. ASSUME NEW m \in Messages, NEW st \in ProviderStatus, Receives(m, st)
      PROVE  /\ recipient'[c].status = "sending"
             /\ \A y \in Executors \ {x} : c \notin executor'[y].batch
  <2>1. Undisturbed /\ executor' = executor
    BY <1>4, ReceiptEffect, UndisturbedBefore
  <2>2. recipient[c].message # m
    BY <1>1, <1>2, <2>1 DEF IInv, UnqueuedHaveNoMessage, NoMessage, Messages
  <2>3. recipient'[c] = recipient[c]
    BY <1>1, <1>4, <2>2, ReceiptEffect
  <2> QED BY <1>2, <2>1, <2>3
<1>5. CASE ScanOverdue
  <2>1. Undisturbed /\ recipient' = recipient /\ executor' = executor
    BY <1>5, ScanEffect, UndisturbedBefore
  <2> QED BY <1>2, <2>1
<1>6. ASSUME NEW e \in Executors, NEW batch \in SUBSET Contacts, Claimed(e, batch)
      PROVE  /\ recipient'[c].status = "sending"
             /\ \A y \in Executors \ {x} : c \notin executor'[y].batch
  <2>1. Undisturbed
    BY <1>6, UndisturbedBefore DEF Claimed
  <2>2. CASE c \in batch
    <3>1. recipient[c].status = "pending" /\ recipient'[c].status = "sending"
      BY <1>6, <2>2 DEF Claimed
    <3>2. \A y \in Executors : c \notin executor[y].batch
      BY <1>2, <2>1, <3>1
    <3>3. \A y \in Executors \ {e} : executor'[y] = executor[y]
      BY <1>6 DEF Claimed
    <3> QED BY <3>1, <3>2, <3>3
  <2>3. CASE c \notin batch
    <3>1. x # e /\ executor'[x] = executor[x] /\ recipient'[c] = recipient[c]
      BY <1>1, <1>6, <2>3 DEF Claimed
    <3>2. executor'[e].batch = batch /\ \A y \in Executors \ {e} : executor'[y] = executor[y]
      BY <1>6 DEF Claimed
    <3> QED BY <1>2, <2>1, <2>3, <3>1, <3>2
  <2> QED BY <2>2, <2>3
<1>7. ASSUME NEW e \in Executors, NEW d \in Contacts, NEW m \in Messages, Queued(e, d, m)
      PROVE  /\ recipient'[c].status = "sending"
             /\ \A y \in Executors \ {x} : c \notin executor'[y].batch
  <2>1. Undisturbed /\ recipient' = recipient
    BY <1>7, UndisturbedBefore DEF Queued
  <2>2. \A y \in Executors : executor'[y].batch = executor[y].batch
    BY <1>7 DEF Queued
  <2> QED BY <1>2, <2>1, <2>2
<1>8. ASSUME NEW e \in Executors, NEW d \in Contacts, Leaves(e, d)
      PROVE  /\ recipient'[c].status = "sending"
             /\ \A y \in Executors \ {x} : c \notin executor'[y].batch
  <2>1. Undisturbed
    BY <1>8, UndisturbedBefore DEF Leaves
  <2>2. \A y \in Executors : executor'[y].batch \subseteq executor[y].batch
    BY <1>8 DEF Leaves
  <2>3. c # d
    <3>1. d \in executor[e].batch /\ d \notin executor'[e].batch
      BY <1>8 DEF Leaves
    <3> QED BY <1>2, <2>1, <2>2, <3>1
  <2>4. recipient'[c] = recipient[c]
    BY <1>1, <1>8, <2>3 DEF Leaves
  <2> QED BY <1>2, <2>1, <2>2, <2>4
<1> QED
  BY <1>3, <1>4, <1>5, <1>6, <1>7, <1>8, Effects, WorkEffect, UndisturbedBefore
     DEF Effect, Receipt

(* Every step keeps EndsAreResolved.                                       *)
LEMMA EndsAreResolvedStep ==
  ASSUME IInv, [Next]_vars
  PROVE  EndsAreResolved'
<1> SUFFICES ASSUME Undisturbed', Ending' PROVE InStatus(Unresolved)' = {}
  BY DEF EndsAreResolved, Ending
<1>1. ASSUME Undisturbed, Ending PROVE InStatus(Unresolved) = {}
  BY <1>1 DEF IInv, EndsAreResolved, Ending
<1>2. recipient' = recipient => InStatus(Unresolved)' = InStatus(Unresolved)
  BY DEF InStatus
<1>3. UNCHANGED <<status, executor>> => Ending
  BY DEF Ending
<1>4. CASE Calm
  BY <1>1, <1>2, <1>4, UndisturbedBefore DEF Calm
<1>5. ASSUME NEW m \in Messages, NEW st \in ProviderStatus, Receives(m, st)
      PROVE  InStatus(Unresolved)' = {}
  <2>1. InStatus(Unresolved) = {}
    BY <1>1, <1>3, <1>5, ReceiptEffect, UndisturbedBefore
  <2> QED BY <1>5, <2>1, ReceiptEffect DEF InStatus, Reports, Unresolved
<1>6. CASE ScanOverdue
  BY <1>1, <1>2, <1>3, <1>6, ScanEffect, UndisturbedBefore
<1>7. ASSUME NEW e \in Executors, NEW batch \in SUBSET Contacts, Claimed(e, batch)
      PROVE  InStatus(Unresolved)' = {}
  <2>1. Undisturbed
    BY <1>7, UndisturbedBefore DEF Claimed
  <2>2. Ending
    BY <1>7 DEF Claimed, Ending
  <2>3. InStatus(Unresolved) = {}
    BY <1>1, <2>1, <2>2
  <2>4. batch = {}
    BY <1>7, <2>3 DEF Claimed, InStatus, Unresolved
  <2> QED BY <1>7, <2>3, <2>4 DEF Claimed, InStatus
<1>8. ASSUME NEW e \in Executors, NEW c \in Contacts, NEW m \in Messages, Queued(e, c, m)
      PROVE  InStatus(Unresolved)' = {}
  <2>1. Undisturbed /\ recipient' = recipient
    BY <1>8, UndisturbedBefore DEF Queued
  <2>2. Ending
    BY <1>8 DEF Queued, Ending
  <2> QED BY <1>1, <1>2, <2>1, <2>2
<1>9. ASSUME NEW e \in Executors, NEW c \in Contacts, Leaves(e, c)
      PROVE  InStatus(Unresolved)' = {}
  <2>1. Undisturbed
    BY <1>9, UndisturbedBefore DEF Leaves
  <2>2. Ending
    BY <1>9 DEF Leaves, Ending
  <2>3. InStatus(Unresolved) = {}
    BY <1>1, <2>1, <2>2
  <2>4. recipient[c].status = "sending"
    BY <1>9, <2>1 DEF Leaves, IInv, ClaimsAreExclusive
  <2> QED BY <2>3, <2>4 DEF InStatus, Unresolved
<1> QED
  BY <1>4, <1>5, <1>6, <1>7, <1>8, <1>9, Effects, WorkEffect, UndisturbedBefore
     DEF Effect, Receipt


-----------------------------------------------------------------------------
(* Every step keeps EditionsAreReal.                                       *)
LEMMA EditionsAreRealStep ==
  ASSUME IInv, [Next]_vars
  PROVE  EditionsAreReal'
<1>1. CASE Calm
  BY <1>1 DEF Calm, IInv, EditionsAreReal
<1>2. CASE Replaces
  BY <1>2 DEF Replaces, IInv, Typed, EditionsAreReal
<1>3. CASE UNCHANGED <<executor, edition>>
  BY <1>3 DEF IInv, EditionsAreReal
<1>4. ASSUME NEW e \in Executors, NEW batch \in SUBSET Contacts, Claimed(e, batch)
      PROVE  EditionsAreReal'
  BY <1>4 DEF Claimed, IInv, EditionsAreReal
<1>5. ASSUME NEW e \in Executors, NEW c \in Contacts, NEW m \in Messages, Queued(e, c, m)
      PROVE  EditionsAreReal'
  BY <1>5 DEF Queued, IInv, EditionsAreReal
<1>6. ASSUME NEW e \in Executors, NEW c \in Contacts, Leaves(e, c) PROVE EditionsAreReal'
  BY <1>6 DEF Leaves, IInv, EditionsAreReal
<1> QED
  BY <1>1, <1>2, <1>3, <1>4, <1>5, <1>6, Effects, WorkEffect, ReceiptEffect, ScanEffect
     DEF Effect, Receipt

-----------------------------------------------------------------------------
(* The counters.                                                           *)
StampedSet(field) == {c \in Contacts : recipient[c][field]}

(* A set that gains a contact grows by its first stamp.                    *)
LEMMA StampCounts ==
  ASSUME NEW c \in Contacts, NEW set \in SUBSET Contacts, NEW after,
         NEW before \in BOOLEAN, NEW flag \in BOOLEAN,
         c \in set <=> before, before => flag,
         after = IF flag THEN set \cup {c} ELSE set
  PROVE  Cardinality(after) = Cardinality(set) + Bit(flag /\ ~before)
<1>1. IsFiniteSet(set) /\ Cardinality(set) \in Nat
  BY CampaignConstants, FS_Subset, FS_CardinalityType
<1>2. Cardinality(set \cup {c}) = IF c \in set THEN Cardinality(set) ELSE Cardinality(set) + 1
  BY <1>1, FS_AddElement
<1> QED
  BY <1>1, <1>2 DEF Bit

(* What is counted are the stamped rows.                                   *)
LEMMA CountsAreOfStamps ==
  /\ /\ CountsOfRows["sent"] = Cardinality(StampedSet("sentAt"))
     /\ CountsOfRows["delivered"] = Cardinality(StampedSet("deliveredAt"))
     /\ CountsOfRows["read"] = Cardinality(StampedSet("readAt"))
  /\ /\ CountsOfRows'["sent"] = Cardinality(StampedSet("sentAt")')
     /\ CountsOfRows'["delivered"] = Cardinality(StampedSet("deliveredAt")')
     /\ CountsOfRows'["read"] = Cardinality(StampedSet("readAt")')
<1>1. /\ CountsOfRows["sent"] = Stamped("sentAt")
      /\ CountsOfRows["delivered"] = Stamped("deliveredAt")
      /\ CountsOfRows["read"] = Stamped("readAt")
  BY DEF CountsOfRows
<1>2. /\ CountsOfRows'["sent"] = Stamped("sentAt")'
      /\ CountsOfRows'["delivered"] = Stamped("deliveredAt")'
      /\ CountsOfRows'["read"] = Stamped("readAt")'
  BY DEF CountsOfRows
<1> QED
  BY <1>1, <1>2 DEF Stamped, StampedSet

(* Rows with the same stamps, and with the same failures, count the same.  *)
LEMMA SameStampsCount ==
  ASSUME \A c \in Contacts : recipient'[c] = recipient[c] \/ SameStamps(c)
  PROVE  \A k \in {"sent", "delivered", "read"} : CountsOfRows'[k] = CountsOfRows[k]
<1>1. /\ StampedSet("sentAt")' = StampedSet("sentAt")
      /\ StampedSet("deliveredAt")' = StampedSet("deliveredAt")
      /\ StampedSet("readAt")' = StampedSet("readAt")
  BY DEF StampedSet, SameStamps
<1> QED
  BY <1>1, CountsAreOfStamps

(* ... failures,                                                           *)
LEMMA SameFailuresCount ==
  ASSUME \A c \in Contacts : recipient'[c].status = "failed" <=> recipient[c].status = "failed"
  PROVE  CountsOfRows'["failed"] = CountsOfRows["failed"]
<1>1. InStatus({"failed"})' = InStatus({"failed"})
  BY DEF InStatus
<1> QED
  BY <1>1 DEF CountsOfRows

(* and a row that fails counts as one more.                                *)
LEMMA OneFailureCounts ==
  ASSUME NEW c \in Contacts, recipient[c].status # "failed", recipient'[c].status = "failed",
         \A d \in Contacts \ {c} : recipient'[d] = recipient[d]
  PROVE  CountsOfRows'["failed"] = CountsOfRows["failed"] + 1
<1> DEFINE set == InStatus({"failed"})
<1>1. set' = set \cup {c} /\ c \notin set /\ set \in SUBSET Contacts
  BY DEF InStatus
<1>2. IsFiniteSet(set)
  BY <1>1, CampaignConstants, FS_Subset
<1>3. Cardinality(set') = Cardinality(set) + 1
  BY <1>1, <1>2, FS_AddElement
<1> QED
  BY <1>3 DEF CountsOfRows

(* A step raises the counters by what the rows count more.                 *)
Kinds == {"sent", "delivered", "read", "failed"}
Raised(k) == /\ counters'[k] + CountsOfRows[k] = counters[k] + CountsOfRows'[k]
             /\ CountsOfRows[k] <= CountsOfRows'[k]

(* All of these are numbers.                                               *)
LEMMA CountersAreNumbers ==
  ASSUME Typed, Typed', NEW k \in Kinds
  PROVE  /\ counters[k] \in Nat /\ counters'[k] \in Nat /\ cron.counted[k] \in Nat
         /\ CountsOfRows[k] \in Nat /\ CountsOfRows'[k] \in Nat
<1>1. /\ counters \in CounterRecords /\ counters' \in CounterRecords
      /\ cron.counted \in CounterRecords
  BY DEF Typed, CronRows
<1>2. ASSUME NEW r \in CounterRecords PROVE r[k] \in Nat
  BY DEF CounterRecords, Kinds
<1> QED
  BY <1>1, <1>2, CountsAreNumbers

(* Where neither rows nor counters count more, they go on agreeing,        *)
LEMMA StillAgree ==
  ASSUME IInv, UNCHANGED <<counters, drift>>, cron' = cron \/ cron'.pc # "overwrite",
         Counted' \subseteq Counted, \A k \in Counted' : CountsOfRows'[k] = CountsOfRows[k]
  PROVE  CountsAgree'
BY DEF IInv, CountsAgree, Agrees

(* and where both count more, with a note of it if the cron would lose it. *)
LEMMA RaisedAgree ==
  ASSUME IInv, Typed', NoteIncrement, cron' = cron, Counted' \subseteq Counted,
         \A k \in Counted' : Raised(k)
  PROVE  CountsAgree'
<1> SUFFICES ASSUME NEW k \in Counted'
             PROVE  /\ drift'.shown = "none" => counters'[k] = CountsOfRows'[k]
                    /\ drift'.shown = "late" => counters'[k] <= CountsOfRows'[k]
                    /\ cron.pc = "overwrite" =>
                         /\ drift'.taken = "none" => cron.counted[k] = CountsOfRows'[k]
                         /\ drift'.taken = "late" => cron.counted[k] <= CountsOfRows'[k]
  BY DEF CountsAgree, Agrees
<1>1. k \in Counted /\ k \in Kinds
  BY DEF Counted, Kinds
<1>2. /\ counters[k] \in Nat /\ counters'[k] \in Nat /\ cron.counted[k] \in Nat
      /\ CountsOfRows[k] \in Nat /\ CountsOfRows'[k] \in Nat
  BY <1>1, CountersAreNumbers DEF IInv
<1>3. /\ counters'[k] + CountsOfRows[k] = counters[k] + CountsOfRows'[k]
      /\ CountsOfRows[k] <= CountsOfRows'[k]
  BY DEF Raised
<1>4. /\ drift.shown = "none" => counters[k] = CountsOfRows[k]
      /\ drift.shown = "late" => counters[k] <= CountsOfRows[k]
      /\ cron.pc = "overwrite" =>
           /\ drift.taken = "none" => cron.counted[k] = CountsOfRows[k]
           /\ drift.taken = "late" => cron.counted[k] <= CountsOfRows[k]
  BY <1>1 DEF IInv, CountsAgree, Agrees
<1>5. /\ drift'.shown = drift.shown
      /\ \/ drift'.taken = drift.taken
         \/ drift.taken = "none" /\ drift'.taken = "late"
      /\ cron.pc = "overwrite" /\ drift'.taken = "none" => counters'[k] = counters[k]
      /\ drift'.taken = "none" => drift.taken = "none"
  BY DEF NoteIncrement, IInv, Typed, DriftRows
<1> QED
  BY <1>2, <1>3, <1>4, <1>5

(* A receipt of success counts the first stamps that it sets.              *)
LEMMA OneStampRaises ==
  ASSUME Typed, Typed', NEW c \in Contacts, NEW st \in {"sent", "delivered", "read"},
         ApplySuccess(c, st)
  PROVE  \A k \in Kinds : Raised(k)
<1> DEFINE row == recipient[c]
           after == Stamp(row, st)
<1>1. CASE UNCHANGED <<recipient, counters>>
  <2>1. \A k \in Kinds : CountsOfRows'[k] = CountsOfRows[k]
    BY <1>1, SameStampsCount, SameFailuresCount DEF Kinds
  <2> QED BY <1>1, <2>1, CountersAreNumbers DEF Raised
<1>2. CASE /\ Advances(row, st)
           /\ recipient' = [recipient EXCEPT ![c] = after]
           /\ counters' = [counters EXCEPT
                !.sent = @ + Bit(after.sentAt /\ ~row.sentAt),
                !.delivered = @ + Bit(after.deliveredAt /\ ~row.deliveredAt),
                !.read = @ + Bit(after.readAt /\ ~row.readAt)]
  <2>1. row \in Rows /\ counters \in CounterRecords
    BY DEF Typed
  <2>2. /\ counters'.sent = counters.sent + Bit(after.sentAt /\ ~row.sentAt)
        /\ counters'.delivered = counters.delivered + Bit(after.deliveredAt /\ ~row.deliveredAt)
        /\ counters'.read = counters.read + Bit(after.readAt /\ ~row.readAt)
        /\ counters'.failed = counters.failed
    BY <1>2, <2>1 DEF CounterRecords
  <2>3. recipient'[c] = after /\ \A d \in Contacts \ {c} : recipient'[d] = recipient[d]
    BY <1>2 DEF Typed
  <2>4. /\ after.sentAt \in BOOLEAN /\ row.sentAt \in BOOLEAN /\ (row.sentAt => after.sentAt)
        /\ after.deliveredAt \in BOOLEAN /\ row.deliveredAt \in BOOLEAN
        /\ row.deliveredAt => after.deliveredAt
        /\ after.readAt \in BOOLEAN /\ row.readAt \in BOOLEAN /\ (row.readAt => after.readAt)
    BY <2>1, StampKeepsType DEF Rows
  <2>5. /\ StampedSet("sentAt") \in SUBSET Contacts
        /\ StampedSet("deliveredAt") \in SUBSET Contacts
        /\ StampedSet("readAt") \in SUBSET Contacts
    BY DEF StampedSet
  <2>6. /\ c \in StampedSet("sentAt") <=> row.sentAt
        /\ StampedSet("sentAt")' =
             IF after.sentAt THEN StampedSet("sentAt") \cup {c} ELSE StampedSet("sentAt")
    <3> HIDE DEF after
    <3> QED BY <2>3, <2>4 DEF StampedSet
  <2>7. /\ c \in StampedSet("deliveredAt") <=> row.deliveredAt
        /\ StampedSet("deliveredAt")' =
             IF after.deliveredAt THEN StampedSet("deliveredAt") \cup {c}
                                  ELSE StampedSet("deliveredAt")
    <3> HIDE DEF after
    <3> QED BY <2>3, <2>4 DEF StampedSet
  <2>8. /\ c \in StampedSet("readAt") <=> row.readAt
        /\ StampedSet("readAt")' =
             IF after.readAt THEN StampedSet("readAt") \cup {c} ELSE StampedSet("readAt")
    <3> HIDE DEF after
    <3> QED BY <2>3, <2>4 DEF StampedSet
  <2>9. CountsOfRows'["failed"] = CountsOfRows["failed"]
    <3>1. row.status # "failed"
      BY <1>2, <2>1
         DEF Advances, RankOf, ShouldApply, Unresolved, RankedStatus, ProviderStatus, StatusRank
    <3>2. after.status # "failed"
      BY <2>1, StampKeepsType
    <3> QED BY <2>3, <3>1, <3>2, SameFailuresCount
  <2> HIDE DEF row, after
  <2>10. /\ CountsOfRows'["sent"] = CountsOfRows["sent"] + Bit(after.sentAt /\ ~row.sentAt)
         /\ CountsOfRows'["delivered"] =
              CountsOfRows["delivered"] + Bit(after.deliveredAt /\ ~row.deliveredAt)
         /\ CountsOfRows'["read"] = CountsOfRows["read"] + Bit(after.readAt /\ ~row.readAt)
    <3>1. Cardinality(StampedSet("sentAt")') =
            Cardinality(StampedSet("sentAt")) + Bit(after.sentAt /\ ~row.sentAt)
      BY <2>4, <2>5, <2>6, StampCounts
    <3>2. Cardinality(StampedSet("deliveredAt")') =
            Cardinality(StampedSet("deliveredAt")) + Bit(after.deliveredAt /\ ~row.deliveredAt)
      BY <2>4, <2>5, <2>7, StampCounts
    <3>3. Cardinality(StampedSet("readAt")') =
            Cardinality(StampedSet("readAt")) + Bit(after.readAt /\ ~row.readAt)
      BY <2>4, <2>5, <2>8, StampCounts
    <3> QED BY <3>1, <3>2, <3>3, CountsAreOfStamps
  <2>11. \A flag : Bit(flag) \in Nat
    BY DEF Bit
  <2> SUFFICES ASSUME NEW k \in Kinds PROVE Raised(k)
    OBVIOUS
  <2>12. /\ counters[k] \in Nat /\ counters'[k] \in Nat
         /\ CountsOfRows[k] \in Nat /\ CountsOfRows'[k] \in Nat
    BY CountersAreNumbers
  <2>13. CASE k = "failed"
    BY <2>2, <2>9, <2>12, <2>13 DEF Raised
  <2>14. CASE k = "sent"
    BY <2>2, <2>10, <2>11, <2>12, <2>14 DEF Raised
  <2>15. CASE k = "delivered"
    BY <2>2, <2>10, <2>11, <2>12, <2>15 DEF Raised
  <2>16. CASE k = "read"
    BY <2>2, <2>10, <2>11, <2>12, <2>16 DEF Raised
  <2> QED BY <2>13, <2>14, <2>15, <2>16 DEF Kinds
<1> QED
  BY <1>1, <1>2 DEF ApplySuccess

(* A row that fails for the first time is counted once.                    *)
LEMMA OneFailureRaises ==
  ASSUME Typed, Typed', NEW c \in Contacts, recipient[c].status # "failed",
         recipient' = [recipient EXCEPT ![c].status = "failed"],
         counters' = [counters EXCEPT !.failed = @ + 1]
  PROVE  \A k \in Kinds : Raised(k)
<1>1. recipient[c] \in Rows /\ counters \in CounterRecords
  BY DEF Typed
<1>2. /\ recipient'[c].status = "failed" /\ SameStamps(c)
      /\ \A d \in Contacts \ {c} : recipient'[d] = recipient[d]
  BY <1>1 DEF Typed, Rows, SameStamps
<1>3. CountsOfRows'["failed"] = CountsOfRows["failed"] + 1
  BY <1>2, OneFailureCounts
<1>4. \A k \in {"sent", "delivered", "read"} : CountsOfRows'[k] = CountsOfRows[k]
  BY <1>2, SameStampsCount
<1>5. /\ counters'["failed"] = counters["failed"] + 1
      /\ \A k \in {"sent", "delivered", "read"} : counters'[k] = counters[k]
  BY <1>1 DEF CounterRecords
<1> SUFFICES ASSUME NEW k \in Kinds PROVE Raised(k)
  OBVIOUS
<1>6. /\ counters[k] \in Nat /\ counters'[k] \in Nat
      /\ CountsOfRows[k] \in Nat /\ CountsOfRows'[k] \in Nat
  BY CountersAreNumbers
<1>7. CASE k = "failed"
  BY <1>3, <1>5, <1>6, <1>7 DEF Raised
<1>8. CASE k \in {"sent", "delivered", "read"}
  <2>1. CountsOfRows'[k] = CountsOfRows[k] /\ counters'[k] = counters[k]
    BY <1>4, <1>5, <1>8
  <2> QED BY <1>6, <2>1 DEF Raised
<1> QED
  BY <1>7, <1>8 DEF Kinds

(* An executor that marks a recipient failed counts it, and is right to if *)
(* the row is the one it has claimed.                                      *)
LEMMA MarkedIsRaised ==
  ASSUME IInv, Typed', NEW e \in Executors, NEW c \in executor[e].batch, c \in Contacts,
         MarkRecipientFailed(e, c), NEW k \in Counted'
  PROVE  Raised(k)
<1> DEFINE row == [recipient[c] EXCEPT !.status = "failed"]
<1>1. /\ counters' = [counters EXCEPT !.failed = @ + 1] /\ UpdateClaimed(e, c, row)
      /\ UNCHANGED <<edition, resets>>
  BY DEF MarkRecipientFailed
<1>2. CASE k = "failed"
  <2>1. Undisturbed
    BY <1>1, <1>2 DEF Counted, Undisturbed
  <2>2. recipient[c].status = "sending" /\ executor[e].edition = edition
    BY <2>1 DEF IInv, ClaimsAreExclusive, EditionsAreReal, Undisturbed
  <2>3. recipient' = [recipient EXCEPT ![c].status = "failed"]
    BY <1>1, <2>2 DEF UpdateClaimed, IInv, Typed
  <2> QED BY <1>1, <1>2, <2>2, <2>3, OneFailureRaises DEF IInv, Kinds
<1>3. CASE k # "failed"
  <2>1. k \in {"sent", "delivered", "read"} /\ k \in Kinds
    BY <1>3 DEF Counted, Kinds
  <2>2. counters'[k] = counters[k]
    BY <1>1, <2>1 DEF IInv, Typed, CounterRecords
  <2>3. recipient[c] \in Rows
    BY DEF IInv, Typed
  <2>4. \A d \in Contacts : recipient'[d] = recipient[d] \/ SameStamps(d)
    BY <1>1, <2>3 DEF UpdateClaimed, SameStamps, IInv, Typed, Rows
  <2>5. CountsOfRows'[k] = CountsOfRows[k]
    BY <2>1, <2>4, SameStampsCount
  <2> QED BY <2>1, <2>2, <2>5, CountersAreNumbers DEF Raised, IInv
<1> QED
  BY <1>2, <1>3

(* No step makes a kind counted that was not.                              *)
LEMMA CountedBefore ==
  ASSUME IInv, [Next]_vars
  PROVE  Counted' \subseteq Counted
<1>1. ASSUME Undisturbed' PROVE Undisturbed
  <2>1. CASE edition' = edition /\ resets' = resets
    BY <1>1, <2>1, UndisturbedBefore
  <2>2. CASE ScanOverdue
    BY <1>1, <2>2, UndisturbedBefore
  <2>3. ~Replaces
    BY <1>1, UndisturbedBefore
  <2>4. ASSUME NEW e \in Executors, Works(e) PROVE edition' = edition /\ resets' = resets
    BY <2>4, WorkEffect DEF Claimed, Queued, Leaves
  <2>5. ASSUME Receipt PROVE edition' = edition /\ resets' = resets
    BY <2>5, ReceiptEffect DEF Receipt
  <2> QED BY <2>1, <2>2, <2>3, <2>4, <2>5, Effects DEF Effect, Calm
<1>2. Counted = {"sent", "delivered", "read"} \cup (IF Undisturbed THEN {"failed"} ELSE {})
  BY DEF Counted, Undisturbed
<1>3. Counted' = {"sent", "delivered", "read"} \cup (IF Undisturbed' THEN {"failed"} ELSE {})
  BY DEF Counted, Undisturbed
<1> QED
  BY <1>1, <1>2, <1>3

(* Every step keeps CountsAgree.                                           *)
LEMMA CountsAgreeStep ==
  ASSUME IInv, [Next]_vars
  PROVE  CountsAgree'
<1>1. Typed' /\ Counted' \subseteq Counted /\ Counted' \subseteq Kinds
  BY TypedStep, CountedBefore DEF Counted, Kinds
<1>2. CASE Calm
  <2>1. UNCHANGED <<recipient, edition, resets>>
    BY <1>2 DEF Calm
  <2>2. CountsOfRows' = CountsOfRows /\ Counted' = Counted
    BY <2>1 DEF CountsOfRows, Stamped, InStatus, Counted
  <2>3. CASE UNCHANGED <<counters, drift>> /\ (cron' = cron \/ cron'.pc # "overwrite")
    BY <1>1, <2>2, <2>3, StillAgree
  <2>4. CASE RecomputeSnapshot
    <3>1. /\ UNCHANGED counters /\ cron'.counted = CountsOfRows
          /\ drift'.shown = drift.shown /\ drift'.taken = "none"
      BY <2>4 DEF RecomputeSnapshot, rows, IInv, Typed, DriftRows
    <3> QED BY <2>2, <3>1 DEF IInv, CountsAgree, Agrees
  <2>5. CASE RecomputeOverwrite
    <3>1. /\ cron.pc = "overwrite" /\ counters' = cron.counted /\ cron'.pc = "wake"
          /\ drift'.shown = drift.taken
      BY <2>5 DEF RecomputeOverwrite, CronGoto, IdleCron
    <3> QED BY <2>2, <3>1 DEF IInv, CountsAgree, Agrees
  <2> QED BY <1>2, <2>3, <2>4, <2>5 DEF Calm
<1>3. CASE Replaces
  <2>1. NoteReplacement /\ UNCHANGED <<counters, cron>>
    BY <1>3 DEF Replaces
  <2>2. CASE CountsOfRows' = CountsOfRows
    <3>1. UNCHANGED drift
      BY <2>1, <2>2 DEF NoteReplacement
    <3> QED BY <1>1, <2>1, <2>2, <3>1, StillAgree
  <2>3. CASE CountsOfRows' # CountsOfRows
    <3>1. /\ drift'.shown = "replaced"
          /\ cron'.pc = "overwrite" => drift'.taken = "replaced"
      BY <2>1, <2>3 DEF NoteReplacement
    <3> QED BY <3>1 DEF CountsAgree, Agrees
  <2> QED BY <2>2, <2>3
<1>4. ASSUME NEW m \in Messages, NEW st \in ProviderStatus, Receives(m, st)
      PROVE  CountsAgree'
  <2>1. /\ ApplyProviderReceipt(m, st) /\ NoteIncrement /\ cron' = cron
    BY <1>4 DEF Receives, ApplyProviderReceipt, workers
  <2>2. CASE UNCHANGED <<recipient, counters>>
    <3>1. \A k \in Kinds : CountsOfRows'[k] = CountsOfRows[k]
      BY <2>2, SameStampsCount, SameFailuresCount DEF Kinds
    <3>2. \A k \in Kinds : Raised(k)
      BY <1>1, <2>2, <3>1, CountersAreNumbers DEF Raised, IInv
    <3> QED BY <1>1, <2>1, <3>2, RaisedAgree
  <2>3. ASSUME NEW c \in Contacts, st \in {"sent", "delivered", "read"}, ApplySuccess(c, st)
        PROVE  CountsAgree'
    <3>1. \A k \in Kinds : Raised(k)
      BY <1>1, <2>3, OneStampRaises DEF IInv
    <3> QED BY <1>1, <2>1, <3>1, RaisedAgree
  <2>4. ASSUME NEW c \in Contacts, ApplyFailed(c), ~UNCHANGED <<recipient, counters>>
        PROVE  CountsAgree'
    <3>1. /\ recipient[c].status # "failed"
          /\ recipient' = [recipient EXCEPT ![c].status = "failed"]
          /\ counters' = [counters EXCEPT !.failed = @ + 1]
      BY <2>4 DEF ApplyFailed, Unresolved
    <3>2. \A k \in Kinds : Raised(k)
      BY <1>1, <3>1, OneFailureRaises DEF IInv
    <3> QED BY <1>1, <2>1, <3>2, RaisedAgree
  <2> QED BY <2>1, <2>2, <2>3, <2>4, ReceiptMovesOne DEF IInv
<1>5. CASE ScanOverdue
  <2>1. /\ UNCHANGED <<counters, drift>> /\ cron'.pc # "overwrite"
    BY <1>5 DEF ScanOverdue, CronGoto, IdleCron, ListedFor
  <2>2. \A k \in Kinds : CountsOfRows'[k] = CountsOfRows[k]
    BY <1>5, ScanEffect, SameStampsCount, SameFailuresCount DEF Kinds
  <2> QED BY <1>1, <2>1, <2>2, StillAgree
<1>6. ASSUME NEW e \in Executors, ClaimRecipientBatch(e) PROVE CountsAgree'
  <2>1. PICK batch \in SUBSET Contacts : Claimed(e, batch)
    BY <1>6, ClaimEffect
  <2>2. UNCHANGED <<counters, drift, cron>>
    BY <1>6 DEF ClaimRecipientBatch, bounds
  <2>3. \A k \in Kinds : CountsOfRows'[k] = CountsOfRows[k]
    BY <2>1, SameStampsCount, SameFailuresCount DEF Kinds, Claimed, SameStamps
  <2> QED BY <1>1, <2>2, <2>3, StillAgree
<1>7. ASSUME NEW e \in Executors, NEW c \in Contacts, QueueTemplate(e, c) PROVE CountsAgree'
  <2>1. UNCHANGED <<counters, drift, cron, recipient>>
    BY <1>7 DEF QueueTemplate, rows, bounds
  <2>2. \A k \in Kinds : CountsOfRows'[k] = CountsOfRows[k]
    BY <2>1, SameStampsCount, SameFailuresCount DEF Kinds
  <2> QED BY <1>1, <2>1, <2>2, StillAgree
<1>8. ASSUME NEW e \in Executors, LinkRecipient(e) PROVE CountsAgree'
  <2> DEFINE c == executor[e].contact
             row == [recipient[c] EXCEPT !.status = "queued", !.message = executor[e].message]
  <2>1. /\ UNCHANGED <<counters, drift, cron, edition, resets>> /\ UpdateClaimed(e, c, row)
    BY <1>8 DEF LinkRecipient, bounds
  <2>2. c \in executor[e].batch /\ c \in Contacts /\ recipient[c] \in Rows
    BY <1>8 DEF LinkRecipient, At, IInv, BatchesAreReal, Typed, ExecutorRows
  <2>3. /\ row.status = "queued" /\ row.sentAt = recipient[c].sentAt
        /\ row.deliveredAt = recipient[c].deliveredAt /\ row.readAt = recipient[c].readAt
    BY <2>2 DEF Rows
  <2> HIDE DEF row
  <2>4. \A d \in Contacts : \/ recipient'[d] = recipient[d]
                            \/ d = c /\ recipient'[d] = row
    BY <2>1, <2>2 DEF UpdateClaimed, IInv, Typed
  <2>5. \A k \in {"sent", "delivered", "read"} : CountsOfRows'[k] = CountsOfRows[k]
    BY <2>3, <2>4, SameStampsCount DEF SameStamps
  <2>6. ASSUME "failed" \in Counted' PROVE CountsOfRows'["failed"] = CountsOfRows["failed"]
    <3>1. Undisturbed
      BY <2>1, <2>6 DEF Counted, Undisturbed
    <3>2. recipient[c].status = "sending"
      BY <2>2, <3>1 DEF IInv, ClaimsAreExclusive
    <3> QED BY <2>3, <2>4, <3>2, SameFailuresCount
  <2>7. \A k \in Counted' : CountsOfRows'[k] = CountsOfRows[k]
    BY <1>1, <2>5, <2>6 DEF Kinds
  <2> QED BY <1>1, <2>1, <2>7, StillAgree
<1>9. ASSUME NEW e \in Executors, NEW c \in executor[e].batch, c \in Contacts,
             MarkRecipientFailed(e, c)
      PROVE  CountsAgree'
  <2>1. NoteIncrement /\ cron' = cron
    BY <1>9 DEF MarkRecipientFailed
  <2>2. \A k \in Counted' : Raised(k)
    BY <1>1, <1>9, MarkedIsRaised
  <2> QED BY <1>1, <2>1, <2>2, RaisedAgree
<1>10. ASSUME NEW e \in Executors, Works(e) PROVE CountsAgree'
  <2>1. CASE LinkRecipientFails(e)
    <3>1. executor[e].contact \in executor[e].batch /\ executor[e].contact \in Contacts
      BY <2>1 DEF LinkRecipientFails, At, IInv, BatchesAreReal, Typed, ExecutorRows
    <3> QED BY <1>9, <2>1, <3>1 DEF LinkRecipientFails
  <2>2. ASSUME NEW c \in Contacts, QueueTemplateFails(e, c) PROVE CountsAgree'
    BY <1>9, <2>2 DEF QueueTemplateFails
  <2> QED BY <1>6, <1>7, <1>8, <1>10, <2>1, <2>2 DEF Works
<1> QED
  BY <1>2, <1>3, <1>4, <1>5, <1>10, Effects DEF Effect, Receipt

-----------------------------------------------------------------------------
(* The inductive invariant holds.                                          *)
LEMMA InitInv == Init => IInv
<1> SUFFICES ASSUME Init PROVE IInv
  OBVIOUS
<1>1. Typed
  <2>1. /\ request \in [Requests -> RequestRows] /\ executor \in [Executors -> ExecutorRows]
        /\ recipient \in [Contacts -> Rows] /\ outbox \in [Messages -> OutboxRows]
    BY DEF Init, RequestRows, ExecutorRows, Rows, OutboxRows, IdleRequest, IdleExecutor,
           FreshRow, RecipientStatus, Unresolved, NoMessage, NoMessageRow
  <2>2. counters \in CounterRecords /\ cron \in CronRows
    BY DEF Init, ZeroCounters, CounterRecords, IdleCron, CronRows
  <2>3. drift \in DriftRows
    BY DEF Init, DriftRows, Causes
  <2> QED BY <2>1, <2>2, <2>3 DEF Init, Typed, CampaignStatus, JobStates
<1>2. BatchesAreReal /\ ClaimsAreExclusive /\ EndsAreResolved
  BY DEF Init, BatchesAreReal, ClaimsAreExclusive, EndsAreResolved, IdleExecutor
<1>3. UnqueuedHaveNoMessage /\ StampsAreOrdered
  BY DEF Init, UnqueuedHaveNoMessage, StampsAreOrdered, FreshRow, Succeeded
<1>4. MessagesArePaid
  <2> SUFFICES ASSUME NEW c \in Contacts PROVE Paid(c)
    BY DEF MessagesArePaid, Paid
  <2>1. MessagesTo(c) = {}
    BY CampaignConstants DEF Init, MessagesTo, NoMessageRow
  <2>2. Claims(c) = {}
    BY DEF Init, Claims, IdleExecutor
  <2>3. Right(c) = 1
    BY DEF Init, Right, Bit, FreshRow
  <2> QED BY <2>1, <2>2, <2>3, FS_EmptySet DEF Init, Paid
<1>5. EditionsAreReal
  BY DEF Init, EditionsAreReal, IdleExecutor
<1>6. CountsAgree
  <2>1. \A c \in Contacts : recipient[c] = FreshRow
    BY DEF Init
  <2>2. /\ {c \in Contacts : recipient[c]["sentAt"]} = {}
        /\ {c \in Contacts : recipient[c]["deliveredAt"]} = {}
        /\ {c \in Contacts : recipient[c]["readAt"]} = {} /\ InStatus({"failed"}) = {}
    BY <2>1 DEF FreshRow, InStatus
  <2>3. CountsOfRows = ZeroCounters
    BY <2>2, FS_EmptySet DEF CountsOfRows, Stamped, ZeroCounters
  <2> QED BY <2>3 DEF Init, CountsAgree, Agrees, IdleCron
<1> QED
  BY <1>1, <1>2, <1>3, <1>4, <1>5, <1>6 DEF IInv

(* Every step keeps the inductive invariant.                               *)
LEMMA InvStep == IInv /\ [Next]_vars => IInv'
BY TypedStep, BatchesAreRealStep, UnqueuedHaveNoMessageStep, StampsAreOrderedStep,
   MessagesArePaidStep, ClaimsAreExclusiveStep, EndsAreResolvedStep, EditionsAreRealStep,
   CountsAgreeStep DEF IInv

(* The inductive invariant holds always.                                   *)
LEMMA InvHolds == Spec => []IInv
BY InitInv, InvStep, PTL DEF Spec

(* Whatever requests, executors, crons and receipts do, the rows and the   *)
(* processes stay in the states they are declared to have.                 *)
THEOREM TypeCorrect == Spec => []TypeOK
<1>1. IInv => TypeOK
  BY DEF IInv, Typed, TypeOK, Rows, RequestRows, ExecutorRows, CronRows, OutboxRows,
     DriftRows
<1> QED
  BY <1>1, InvHolds, PTL

(* A recipient's stamps tell one story, for any audience and any order of  *)
(* receipts (Stamp, #applySuccess).                                        *)
THEOREM StampsAreAlwaysOrdered == Spec => []StampsAreOrdered
<1>1. IInv => StampsAreOrdered
  BY DEF IInv
<1> QED
  BY <1>1, InvHolds, PTL

(* No contact gets a message that its row's creation, a replacement of the *)
(* audience or the cron's reclaim did not pay for, with any number of      *)
(* executors and in whatever way they crash, stall and overlap.            *)
THEOREM MessagesAlwaysHaveACause == Spec => []MessagesHaveACause
<1>1. ASSUME IInv, NEW c \in Contacts
      PROVE  Cardinality(MessagesTo(c)) <= 1 + edition + resets[c]
  <2>1. Paid(c)
    BY <1>1 DEF IInv, MessagesArePaid, Paid
  <2>2. MessagesTo(c) \in SUBSET Messages /\ Claims(c) \in SUBSET Executors
    BY DEF MessagesTo, Claims
  <2>3. Cardinality(MessagesTo(c)) \in Nat /\ Cardinality(Claims(c)) \in Nat
    BY <2>2, SetsAreFinite
  <2>4. Right(c) \in Nat /\ edition \in Nat /\ resets[c] \in Nat
    BY <1>1 DEF Right, Bit, IInv, Typed
  <2> QED BY <2>1, <2>3, <2>4 DEF Paid
<1>2. IInv => MessagesHaveACause
  BY <1>1 DEF MessagesHaveACause
<1> QED
  BY <1>2, InvHolds, PTL

(* A campaign reported as sent has no unresolved recipient, unless rows    *)
(* were replaced or reclaimed under an executor at work.                   *)
THEOREM SentIsAlwaysResolved == Spec => []SentIsResolved
<1>1. IInv => SentIsResolved
  BY DEF IInv, EndsAreResolved, SentIsResolved, Undisturbed
<1> QED
  BY <1>1, InvHolds, PTL

(* The counters of a campaign agree with its rows, however receipts repeat *)
(* or arrive out of order, whoever fails and whatever the cron recomputes, *)
(* but for a replacement of the audience and increments that the cron      *)
(* overwrote (#applySuccess, #applyFailed, recomputeCounters).             *)
THEOREM CountersAreAlwaysRight == Spec => []CountersAreRight
<1>1. IInv => CountersAreRight
  BY DEF IInv, CountsAgree, Agrees, CountersAreRight
<1> QED
  BY <1>1, InvHolds, PTL

-----------------------------------------------------------------------------
(* The status.                                                             *)
LEMMA EndsAreLeftBy ==
  ASSUME Typed, [Next]_vars
  PROVE  \/ status' = status
         \/ status \notin {"sent", "failed", "deleted"}
         \/ status' = "deleted"
         \/ \E e \in Executors : At(e, "failing") /\ status' = "failed"
<1>1. ASSUME NEW q \in Requests, RequestStep(q) \/ UserRequest(q) \/ RequestDies(q)
      PROVE  status' = status \/ status \notin {"sent", "failed", "deleted"}
  <2>1. ASSUME Launch(q) PROVE status' = status \/ status \in {"draft", "scheduled"}
    BY <2>1 DEF Launch, LaunchableFrom
  <2>2. ASSUME EnqueueLaunch(q)
        PROVE  status' = status \/ status \in {"draft", "sending", "scheduled"}
    BY <2>2 DEF EnqueueLaunch, Typed, RequestRows
  <2> QED
    BY <1>1, <2>1, <2>2 DEF RequestStep, UserRequest, RequestDies, Check, Cancel,
       RefreshAudience, LaunchRefused, RemoveWake
<1>2. CASE Delete
  BY <1>2 DEF Delete
<1>3. CASE ScheduledAtComes \/ RowsAge \/ PromoteDelayed \/ JobStalls
  BY <1>3 DEF ScheduledAtComes, RowsAge, PromoteDelayed, JobStalls
<1>4. ASSUME NEW e \in Executors, ExecuteCampaign(e)
      PROVE  \/ status' = status \/ status \notin {"sent", "failed", "deleted"}
             \/ At(e, "failing") /\ status' = "failed"
  <2>1. CASE \E c \in Contacts : QueueTemplate(e, c) \/ QueueTemplateFails(e, c)
    BY <2>1 DEF QueueTemplate, QueueTemplateFails, MarkRecipientFailed
  <2>2. CASE LinkRecipient(e) \/ LinkRecipientFails(e)
    BY <2>2 DEF LinkRecipient, LinkRecipientFails, MarkRecipientFailed
  <2>3. CASE FailCampaign(e)
    BY <2>3 DEF FailCampaign
  <2>4. CASE Start(e) \/ FinalizeCampaign(e)
    BY <2>4 DEF Start, FinalizeCampaign
  <2>5. CASE Load(e) \/ DeferEarlyWake(e) \/ Preflight(e) \/ ClaimRecipientBatch(e)
             \/ CountRemaining(e) \/ FinishJob(e)
    BY <2>5
       DEF Load, DeferEarlyWake, Preflight, ClaimRecipientBatch, CountRemaining, FinishJob
  <2> QED BY <1>4, <2>1, <2>2, <2>3, <2>4, <2>5 DEF ExecuteCampaign
<1>5. ASSUME NEW e \in Executors, TakeJob(e) \/ JobLockLost(e) \/ ExecutorDies(e)
      PROVE  status' = status
  BY <1>5 DEF TakeJob, JobLockLost, ExecutorDies
<1>6. CASE RecoverOverdueCampaigns \/ CronDies
  BY <1>6 DEF RecoverOverdueCampaigns, ScanOverdue, RecomputeSnapshot, RecomputeOverwrite,
     CronWake, CronDies
<1>7. ASSUME NEW m \in Messages,
             \/ MessageSettles(m) \/ MessageSettlesAgain(m)
             \/ \E st \in ProviderStatus : WebhookReceipt(m, st)
      PROVE  status' = status
  BY <1>7, ReceiptsAreReceived DEF Receives, ApplyProviderReceipt
<1> QED
  BY <1>1, <1>2, <1>3, <1>4, <1>5, <1>6, <1>7 DEF Next, vars

(* No stale executor, late rollback or request that checked an older       *)
(* status revives a finished or a deleted campaign (the conditional        *)
(* updates of status); only a failed preflight undoes a delete.            *)
THEOREM EndsAreAlwaysFinal == Spec => EndsAreFinal
<1>1. ASSUME IInv, [Next]_vars
      PROVE  /\ Finished => Finished' \/ status' = "deleted"
             /\ status = "deleted" /\ (\A e \in Executors : ~At(e, "failing"))
                  => status' = "deleted"
  BY <1>1, EndsAreLeftBy DEF IInv, Finished
<1> QED
  BY <1>1, InvHolds, PTL DEF Spec, EndsAreFinal, FinishedIsFinal, DeletedStaysDeleted
=============================================================================
