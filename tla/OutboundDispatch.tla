--------------------------- MODULE OutboundDispatch ---------------------------
(***************************************************************************)
(* The life of an outbound WhatsApp message: the pair of rows              *)
(* messages / outbound_dispatches, the singleton wake job of the dispatch, *)
(* the worker handlers that run executeDispatch, the one-minute recovery   *)
(* cron and the delivery receipts (whatsapp_outbound_service.ts,           *)
(* whatsapp_outbound_repository.ts, bullmq_driver.ts).                     *)
(*                                                                         *)
(* A step of a run is one database transaction or one call to Meta; other  *)
(* runs, the cron, crashes and the passage of time interleave between      *)
(* them.  Times are abstracted to what the code compares: a row is due or  *)
(* not (nextAttemptAt), a lease is live or expired (lockExpiresAt).        *)
(***************************************************************************)
EXTENDS Naturals, FiniteSets, JobQueue

CONSTANTS
  Dispatches,          \* outbound_dispatches rows (each with its message)
  CampaignDispatches,  \* those whose message is a campaign send
  Runs,                \* concurrent executions of the dispatch handler
  NoDispatch,          \* the dispatch of an idle run
  MaxAttempts,         \* OUTBOUND_MAX_ATTEMPTS
  MaxFaults            \* bound on failures of the environment, for TLC

ASSUME ConstantsAssumption ==
  /\ CampaignDispatches \subseteq Dispatches
  /\ NoDispatch \notin Dispatches
  /\ IsFiniteSet(Runs)
  /\ MaxAttempts \in Nat \ {0}
  /\ MaxFaults \in Nat

VARIABLES
  dispatch,  \* the row: status, attempts, due, lease
  message,   \* messages.status, "none" before the row exists
  job,       \* the state of the wake job under singletonKey = dispatch id
  posting,   \* dispatches committed by a request that has not yet woken them
  sweep,     \* dispatches the recovery cron has listed and not yet woken
  run,       \* what each handler execution is doing
  ledger,    \* history: calls made to Meta, accepted ones, and the reasons
             \* for which one dispatch may be worked on more than once
  faults     \* environment failures so far

vars == <<dispatch, message, job, posting, sweep, run, ledger, faults>>

-----------------------------------------------------------------------------
Unsettled == {"pending", "processing", "retry_scheduled"}
DispatchStatus == {"none", "sent", "failed"} \cup Unsettled
Delivered == {"sent", "delivered", "read"}
MessageStatus == {"none", "queued", "failed"} \cup Delivered

NoRow == [status |-> "none", attempts |-> 0, due |-> TRUE, lease |-> "none"]
IdleRun == [pc |-> "idle", d |-> NoDispatch, n |-> 0,
            terminal |-> FALSE, holds |-> FALSE]
EmptyLedger == [calls |-> 0, accepted |-> 0, reclaims |-> 0,
                lost |-> 0, deferrals |-> 0]

(* "taken": job received, row not claimed yet; "claimed": row in hand;     *)
(* "accepted": Meta returned a wamid that is not persisted; "failing": an  *)
(* error is about to be recorded; "waking": the retry is committed, its    *)
(* wake not enqueued; "done": executeDispatch returned.                    *)
Steps == {"idle", "taken", "claimed", "accepted", "failing", "waking", "done"}

Row == [status: DispatchStatus, attempts: Nat,
        due: BOOLEAN, lease: {"none", "live", "expired"}]
RunState == [pc: Steps, d: Dispatches \cup {NoDispatch}, n: Nat,
             terminal: BOOLEAN, holds: BOOLEAN]
Entries == [calls: Nat, accepted: Nat, reclaims: Nat, lost: Nat, deferrals: Nat]

TypeOK ==
  /\ dispatch \in [Dispatches -> Row]
  /\ message \in [Dispatches -> MessageStatus]
  /\ job \in [Dispatches -> JobStates]
  /\ posting \subseteq Dispatches
  /\ sweep \subseteq Dispatches
  /\ run \in [Runs -> RunState]
  /\ \A r \in Runs : run[r].pc # "idle" => run[r].d \in Dispatches
  /\ ledger \in [Dispatches -> Entries]
  /\ faults \in Nat

Init ==
  /\ dispatch = [d \in Dispatches |-> NoRow]
  /\ message = [d \in Dispatches |-> "none"]
  /\ job = [d \in Dispatches |-> "none"]
  /\ posting = {}
  /\ sweep = {}
  /\ run = [r \in Runs |-> IdleRun]
  /\ ledger = [d \in Dispatches |-> EmptyLedger]
  /\ faults = 0

-----------------------------------------------------------------------------
(* The environment fails at most MaxFaults times in a behaviour.           *)
Fault == faults < MaxFaults /\ faults' = faults + 1

(* #enqueueDispatchWake logs an enqueue failure and swallows it.           *)
EnqueueDispatchWake(d, wake) ==
  \/ job' = [job EXCEPT ![d] = EnqueueJob(@, wake)] /\ UNCHANGED faults
  \/ \E state \in EnqueueFailure(job[d]) :
       job' = [job EXCEPT ![d] = state] /\ Fault

At(r, pc) == run[r].pc = pc
Goto(r, pc) == run' = [run EXCEPT ![r].pc = pc]

(* Runs at work under the latest claim of d.                               *)
LeaseHolders(d) ==
  {r \in Runs : /\ run[r].pc \in {"claimed", "accepted", "failing"}
                /\ run[r].d = d
                /\ run[r].n = dispatch[d].attempts}

(* Mutant: already_sent is not told apart from a claimable row.            *)
ClaimableAlsoSent(d) ==
  \/ dispatch[d].status \in {"pending", "retry_scheduled", "sent"} /\ dispatch[d].due
  \/ dispatch[d].status = "processing" /\ dispatch[d].lease = "expired"

(* Mutant: a row whose lease expired is not eligible.                      *)
ClaimableNotExpired(d) ==
  dispatch[d].status \in {"pending", "retry_scheduled"} /\ dispatch[d].due

(* listRecoverableDispatches and the WHERE clause of claimDispatch.        *)
Claimable(d) ==
  \/ dispatch[d].status \in {"pending", "retry_scheduled"} /\ dispatch[d].due
  \/ dispatch[d].status = "processing" /\ dispatch[d].lease = "expired"

-----------------------------------------------------------------------------
(* queueText, queueMedia, queueInteractive, queueTemplate: one transaction *)
(* inserts the queued message and its pending dispatch.                    *)
QueueOutbound(d) ==
  /\ dispatch[d].status = "none"
  /\ dispatch' = [dispatch EXCEPT ![d].status = "pending"]
  /\ message' = [message EXCEPT ![d] = "queued"]
  /\ posting' = posting \cup {d}
  /\ UNCHANGED <<job, sweep, run, ledger, faults>>

(* ... and, after the commit, the wake is enqueued; a web process that     *)
(* dies here leaves the same state as an enqueue that failed.              *)
WakeQueued(d) ==
  /\ d \in posting
  /\ posting' = posting \ {d}
  /\ EnqueueDispatchWake(d, "waiting")
  /\ UNCHANGED <<dispatch, message, sweep, run, ledger>>

(* BullMQ moves a delayed job to the waiting list.  Its delay is counted   *)
(* by Redis, the row's nextAttemptAt by the worker's clock: no guard       *)
(* relates the two.                                                        *)
PromoteDelayed(d) ==
  /\ job[d] = "delayed"
  /\ job' = [job EXCEPT ![d] = "waiting"]
  /\ UNCHANGED <<dispatch, message, posting, sweep, run, ledger, faults>>

(* A worker takes the job and calls the handler.                           *)
TakeJob(r, d) ==
  /\ At(r, "idle")
  /\ job[d] = "waiting"
  /\ job' = [job EXCEPT ![d] = "active"]
  /\ run' = [run EXCEPT ![r] = [IdleRun EXCEPT !.pc = "taken", !.d = d,
                                               !.holds = TRUE]]
  /\ UNCHANGED <<dispatch, message, posting, sweep, ledger, faults>>

(* The job of a dead run is declared stalled: it goes back to the waiting  *)
(* list, or is failed when it stalled before.                              *)
JobHolders(d) == {r \in Runs : run[r].d = d /\ run[r].holds}
JobStalls(d) ==
  /\ job[d] = "active"
  /\ JobHolders(d) = {}
  /\ \E state \in {"waiting", "none"} : job' = [job EXCEPT ![d] = state]
  /\ UNCHANGED <<dispatch, message, posting, sweep, run, ledger, faults>>

(* The same happens to a run that lives but did not renew its job lock; it *)
(* goes on without owning the job.                                         *)
JobLockLost(d) ==
  /\ job[d] = "active"
  /\ JobHolders(d) # {}
  /\ Fault
  /\ \E state \in {"waiting", "none"} : job' = [job EXCEPT ![d] = state]
  /\ run' = [r \in Runs |-> IF r \in JobHolders(d)
                              THEN [run[r] EXCEPT !.holds = FALSE] ELSE run[r]]
  /\ UNCHANGED <<dispatch, message, posting, sweep, ledger>>

(* The attempt number of a claim.                                          *)
NextAttempt(d) == dispatch[d].attempts + 1

(* claimDispatch: pending or due retry, or a processing row whose lease    *)
(* expired.                                                                *)
ClaimDispatch(r) ==
  LET d == run[r].d IN
  /\ At(r, "taken")
  /\ Claimable(d)
  /\ dispatch' = [dispatch EXCEPT ![d] = [status |-> "processing",
                                          attempts |-> NextAttempt(d),
                                          due |-> TRUE, lease |-> "live"]]
  /\ run' = [run EXCEPT ![r].pc = "claimed", ![r].n = NextAttempt(d)]
  /\ IF dispatch[d].status = "processing"
       THEN ledger' = [ledger EXCEPT ![d].reclaims = @ + 1] ELSE UNCHANGED ledger
  /\ UNCHANGED <<message, job, posting, sweep, faults>>

(* claimDispatch finds no eligible row (already_sent, not_claimed), or the *)
(* row is locked by a transaction of another run and SKIP LOCKED skips it. *)
ClaimNothing(r) ==
  LET d == run[r].d IN
  /\ At(r, "taken")
  /\ \/ ~Claimable(d)
     \/ \E s \in Runs \ {r} : run[s].d = d /\ ~At(s, "idle")
  /\ Goto(r, "done")
  /\ UNCHANGED <<dispatch, message, job, posting, sweep, ledger, faults>>

(* #revalidateBeforeSend throws: the conversation, window, template or     *)
(* media asset is no longer fit; forceTerminal.                            *)
RevalidateFails(r) ==
  /\ At(r, "claimed")
  /\ run' = [run EXCEPT ![r].pc = "failing", ![r].terminal = TRUE]
  /\ UNCHANGED <<dispatch, message, job, posting, sweep, ledger, faults>>

(* Mutant: the lease columns are not cleared.                              *)
MarkRetryScheduledLeased(d) ==
  dispatch' = [dispatch EXCEPT ![d] =
                 IF @.status \in Unsettled
                   THEN [@ EXCEPT !.status = "retry_scheduled", !.due = FALSE]
                   ELSE @]

(* Mutant: the update does not look at the status.                         *)
MarkRetryScheduledUnguarded(d) ==
  dispatch' = [dispatch EXCEPT ![d] = [@ EXCEPT !.status = "retry_scheduled",
                                                !.due = FALSE, !.lease = "none"]]

(* markRetryScheduled, on the row of d.                                    *)
MarkRetryScheduled(d) ==
  dispatch' = [dispatch EXCEPT ![d] =
                 IF @.status \in Unsettled
                   THEN [@ EXCEPT !.status = "retry_scheduled",
                                  !.due = FALSE, !.lease = "none"]
                   ELSE @]

(* #deferCampaignDispatchRateLimit: the window of the second is used up,   *)
(* or Redis is down.                                                       *)
DeferForRateLimit(r) ==
  LET d == run[r].d IN
  /\ At(r, "claimed")
  /\ d \in CampaignDispatches
  /\ Fault
  /\ MarkRetryScheduled(d)
  /\ Goto(r, "waking")
  /\ ledger' = [ledger EXCEPT ![d].deferrals = @ + 1]
  /\ UNCHANGED <<message, job, posting, sweep>>

(* #sendToMeta returns the wamid.                                          *)
MetaAccepts(r) ==
  LET d == run[r].d IN
  /\ At(r, "claimed")
  /\ Goto(r, "accepted")
  /\ ledger' = [ledger EXCEPT ![d].calls = @ + 1, ![d].accepted = @ + 1]
  /\ UNCHANGED <<dispatch, message, job, posting, sweep, faults>>

(* Mutant: one attempt too many.                                           *)
IsTerminalOffByOne(attempts, retryable) ==
  ~retryable \/ attempts > MaxAttempts

(* isTerminalOutboundFailure                                               *)
IsTerminalOutboundFailure(attempts, retryable) ==
  ~retryable \/ attempts >= MaxAttempts

(* Mutant: an error response is taken for an accepted message.             *)
MetaRefusesSwallowed(r) ==
  /\ At(r, "claimed")
  /\ Goto(r, "accepted")
  /\ ledger' = [ledger EXCEPT ![run[r].d].calls = @ + 1]
  /\ UNCHANGED <<dispatch, message, job, posting, sweep, faults>>

(* #sendToMeta throws, and Meta did not take the message.                  *)
MetaRefuses(r) ==
  /\ At(r, "claimed")
  /\ \E retryable \in BOOLEAN :
       run' = [run EXCEPT ![r].pc = "failing",
                          ![r].terminal = IsTerminalOutboundFailure(run[r].n, retryable)]
  /\ ledger' = [ledger EXCEPT ![run[r].d].calls = @ + 1]
  /\ UNCHANGED <<dispatch, message, job, posting, sweep, faults>>

(* #sendToMeta throws a timeout or a reset after Meta took the message.    *)
MetaAnswerLost(r) ==
  LET d == run[r].d IN
  /\ At(r, "claimed")
  /\ Fault
  /\ run' = [run EXCEPT ![r].pc = "failing",
                        ![r].terminal = IsTerminalOutboundFailure(run[r].n, TRUE)]
  /\ ledger' = [ledger EXCEPT ![d].calls = @ + 1, ![d].accepted = @ + 1,
                              ![d].lost = @ + 1]
  /\ UNCHANGED <<dispatch, message, job, posting, sweep>>

(* Mutant: the status of an early receipt is written to both rows.         *)
MarkSentBothRows(r) ==
  LET d == run[r].d IN
  /\ At(r, "accepted")
  /\ \E status \in Delivered \cup {"failed"} :
       /\ message' = [message EXCEPT ![d] = status]
       /\ dispatch' = [dispatch EXCEPT ![d] = [@ EXCEPT !.status = status,
                                                        !.due = TRUE, !.lease = "none"]]
  /\ Goto(r, "done")
  /\ UNCHANGED <<job, posting, sweep, ledger, faults>>

(* markSentAndReconcile commits.  It checks neither the status nor the     *)
(* owner of the row.  A receipt that came before the wamid was stored is   *)
(* applied in the same transaction, so the message may already be further. *)
MarkSentAndReconcile(r) ==
  LET d == run[r].d IN
  /\ At(r, "accepted")
  /\ \E status \in Delivered \cup {"failed"} :
       message' = [message EXCEPT ![d] = status]
  /\ dispatch' = [dispatch EXCEPT ![d] = [@ EXCEPT !.status = "sent",
                                                   !.due = TRUE, !.lease = "none"]]
  /\ Goto(r, "done")
  /\ UNCHANGED <<job, posting, sweep, ledger, faults>>

(* The transaction of markSentAndReconcile throws: the wamid is forgotten  *)
(* and the error handled like an error of the call itself.                 *)
PersistFails(r) ==
  /\ At(r, "accepted")
  /\ Fault
  /\ \E retryable \in BOOLEAN :
       run' = [run EXCEPT ![r].pc = "failing",
                          ![r].terminal = IsTerminalOutboundFailure(run[r].n, retryable)]
  /\ ledger' = [ledger EXCEPT ![run[r].d].lost = @ + 1]
  /\ UNCHANGED <<dispatch, message, job, posting, sweep>>

(* Mutant: the dispatch is failed whatever its status.                     *)
MarkFailedUnguarded(d) ==
  /\ message' = [message EXCEPT ![d] = IF @ = "queued" THEN "failed" ELSE @]
  /\ dispatch' = [dispatch EXCEPT ![d] = [@ EXCEPT !.status = "failed", !.due = TRUE,
                                                   !.lease = "none"]]

(* markFailed: the message only while queued, the row only while unsettled *)
MarkFailed(d) ==
  /\ message' = [message EXCEPT ![d] = IF @ = "queued" THEN "failed" ELSE @]
  /\ dispatch' = [dispatch EXCEPT ![d] =
                    IF @.status \in Unsettled
                      THEN [@ EXCEPT !.status = "failed", !.due = TRUE,
                                     !.lease = "none"]
                      ELSE @]

(* #handleSendFailure, terminal branch.                                    *)
FailTerminally(r) ==
  /\ At(r, "failing")
  /\ run[r].terminal
  /\ MarkFailed(run[r].d)
  /\ Goto(r, "done")
  /\ UNCHANGED <<job, posting, sweep, ledger, faults>>

(* #handleSendFailure, retry branch.                                       *)
ScheduleRetry(r) ==
  /\ At(r, "failing")
  /\ ~run[r].terminal
  /\ MarkRetryScheduled(run[r].d)
  /\ Goto(r, "waking")
  /\ UNCHANGED <<message, job, posting, sweep, ledger, faults>>

(* ... and its wake, enqueued from inside the running job of the same key. *)
EnqueueRetryWake(r) ==
  /\ At(r, "waking")
  /\ EnqueueDispatchWake(run[r].d, "delayed")
  /\ Goto(r, "done")
  /\ UNCHANGED <<dispatch, message, posting, sweep, ledger>>

(* The handler returns; BullMQ completes the job if this run still owns it *)
FinishJob(r) ==
  LET d == run[r].d IN
  /\ At(r, "done")
  /\ job' = [job EXCEPT ![d] = IF run[r].holds THEN "none" ELSE @]
  /\ run' = [run EXCEPT ![r] = IdleRun]
  /\ UNCHANGED <<dispatch, message, posting, sweep, ledger, faults>>

(* The worker process dies (the job stays active until it is declared      *)
(* stalled), or a transaction outside the try blocks throws out of the     *)
(* handler (the job is failed; attempts is 1, so it is not retried).       *)
RunDies(r) ==
  LET d == run[r].d IN
  /\ ~At(r, "idle")
  /\ Fault
  /\ \/ UNCHANGED job
     \/ run[r].holds /\ job' = [job EXCEPT ![d] = "none"]
  /\ run' = [run EXCEPT ![r] = IdleRun]
  /\ UNCHANGED <<dispatch, message, posting, sweep, ledger>>

-----------------------------------------------------------------------------
(* Five minutes pass after a claim whose run is gone (or is done with it)  *)
LeaseIsLive(d) == dispatch[d].status = "processing" /\ dispatch[d].lease = "live"
LeaseExpires(d) ==
  /\ LeaseIsLive(d)
  /\ LeaseHolders(d) = {}
  /\ dispatch' = [dispatch EXCEPT ![d].lease = "expired"]
  /\ UNCHANGED <<message, job, posting, sweep, run, ledger, faults>>

(* ... or whose run is still at work: the lease is never renewed.          *)
LeaseOverrun(d) ==
  /\ LeaseIsLive(d)
  /\ LeaseHolders(d) # {}
  /\ Fault
  /\ dispatch' = [dispatch EXCEPT ![d].lease = "expired"]
  /\ UNCHANGED <<message, job, posting, sweep, run, ledger>>

(* Time reaches nextAttemptAt.                                             *)
BecomesDue(d) ==
  /\ ~dispatch[d].due
  /\ dispatch' = [dispatch EXCEPT ![d].due = TRUE]
  /\ UNCHANGED <<message, job, posting, sweep, run, ledger, faults>>

(* recoverStuckDispatches lists the claimable rows ...                     *)
RecoveryScan ==
  /\ sweep = {}
  /\ sweep' = {d \in Dispatches : Claimable(d)}
  /\ sweep' # {}
  /\ UNCHANGED <<dispatch, message, job, posting, run, ledger, faults>>

(* ... and enqueues a wake for each one, without looking at it again.      *)
RecoveryWake(d) ==
  /\ d \in sweep
  /\ sweep' = sweep \ {d}
  /\ EnqueueDispatchWake(d, "waiting")
  /\ UNCHANGED <<dispatch, message, posting, run, ledger>>

(* applyDeliveryReceipt, for a message whose wamid is stored: a receipt    *)
(* moves the status up in rank, where "failed" ranks highest; one that its *)
(* timestamp makes stale changes nothing.                                  *)
Receipt(d) ==
  /\ \/ message[d] = "sent" /\ message' = [message EXCEPT ![d] = "delivered"]
     \/ message[d] \in {"sent", "delivered"} /\ message' = [message EXCEPT ![d] = "read"]
     \/ message[d] \in Delivered /\ message' = [message EXCEPT ![d] = "failed"]
  /\ UNCHANGED <<dispatch, job, posting, sweep, run, ledger, faults>>

-----------------------------------------------------------------------------
(* What executeDispatch does next in run r.                                *)
ExecuteDispatch(r) ==
  \/ ClaimDispatch(r) \/ ClaimNothing(r)
  \/ RevalidateFails(r) \/ DeferForRateLimit(r)
  \/ MetaAccepts(r) \/ MetaRefuses(r) \/ MetaAnswerLost(r)
  \/ MarkSentAndReconcile(r) \/ PersistFails(r)
  \/ FailTerminally(r) \/ ScheduleRetry(r)
  \/ EnqueueRetryWake(r) \/ FinishJob(r)

Next ==
  \/ \E d \in Dispatches :
       \/ QueueOutbound(d) \/ WakeQueued(d)
       \/ PromoteDelayed(d) \/ JobStalls(d) \/ JobLockLost(d)
       \/ LeaseExpires(d) \/ LeaseOverrun(d) \/ BecomesDue(d)
       \/ RecoveryWake(d) \/ Receipt(d)
       \/ \E r \in Runs : TakeJob(r, d)
  \/ RecoveryScan
  \/ \E r \in Runs : ExecuteDispatch(r) \/ RunDies(r)

Spec == Init /\ [][Next]_vars

(***************************************************************************)
(* Fairness.  A worker that lives goes on; BullMQ hands out waiting jobs,  *)
(* promotes delayed ones and detects jobs whose worker is gone; the cron   *)
(* fires every minute; time passes.  Nothing forces a client to queue a    *)
(* message, Meta to send a receipt, or a fault to happen.                  *)
(***************************************************************************)
Fairness ==
  /\ \A d \in Dispatches :
       /\ WF_vars(WakeQueued(d))
       /\ WF_vars(PromoteDelayed(d))
       /\ WF_vars(\E r \in Runs : TakeJob(r, d))
       /\ WF_vars(JobStalls(d))
       /\ WF_vars(LeaseExpires(d))
       /\ WF_vars(BecomesDue(d))
       /\ WF_vars(RecoveryWake(d))
  /\ WF_vars(RecoveryScan)
  /\ \A r \in Runs : WF_vars(ExecuteDispatch(r))

FairSpec == Spec /\ Fairness

-----------------------------------------------------------------------------
(* The two rows of a message agree although five code paths write them     *)
(* under different guards: a message is queued exactly while its dispatch  *)
(* is unsettled, a sent dispatch never belongs to an unsent message, and a *)
(* dispatch is failed only if its message is ("Never overwrite a durable   *)
(* success", markFailed).                                                  *)
RowsAgree ==
  \A d \in Dispatches :
    /\ dispatch[d].status = "none" <=> message[d] = "none"
    /\ dispatch[d].status \in Unsettled <=> message[d] = "queued"
    /\ dispatch[d].status = "failed" => message[d] = "failed"

(* No row is out of reach of claimDispatch and the cron for ever: a        *)
(* processing row carries a lease that can expire, a waiting one carries   *)
(* none, and a row waits for its nextAttemptAt only to be retried.         *)
NoStrandedRow ==
  \A d \in Dispatches :
    /\ dispatch[d].status = "processing" <=> dispatch[d].lease # "none"
    /\ ~dispatch[d].due => dispatch[d].status = "retry_scheduled"

(* A dispatch that is sent has been accepted by Meta: no path marks a row  *)
(* sent without a wamid of a call that was made for that row.              *)
SentWasAccepted ==
  \A d \in Dispatches : dispatch[d].status = "sent" => ledger[d].accepted > 0

(* A recipient gets the same message again only for a reason: a lease that *)
(* expired and was claimed again, or an accepted call whose answer or      *)
(* whose record was lost.  Each reason buys one more acceptance, no more,  *)
(* however the runs, the cron and the retries interleave.                  *)
DuplicatesHaveACause ==
  \A d \in Dispatches :
    ledger[d].accepted <= 1 + ledger[d].reclaims + ledger[d].lost

(* The attempts column exceeds OUTBOUND_MAX_ATTEMPTS only by claims of an  *)
(* expired lease and by rate-limit deferrals: retries alone never do.      *)
AttemptsHaveACause ==
  \A d \in Dispatches :
    dispatch[d].attempts <= MaxAttempts + ledger[d].reclaims + ledger[d].deferrals

(* A dispatch recorded as sent stays sent, whatever a run that lost its    *)
(* lease, a late retry or a late failure writes; a failed one may only     *)
(* become sent, by such a run.                                             *)
SentIsFinal ==
  [][\A d \in Dispatches :
       /\ dispatch[d].status = "sent" => dispatch'[d].status = "sent"
       /\ dispatch[d].status = "failed" => dispatch'[d].status \in {"failed", "sent"}]_vars

(* Every queued message is eventually sent or failed, in spite of lost     *)
(* wakes, dead workers, stalled jobs and expired leases.                   *)
Settles ==
  \A d \in Dispatches :
    dispatch[d].status # "none" ~> dispatch[d].status \in {"sent", "failed"}

=============================================================================
