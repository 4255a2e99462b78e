---------------------------- MODULE PaymentEvents ----------------------------
(***************************************************************************)
(* The ledger of Razorpay's events, payment_webhook_events: the request    *)
(* that records one and wakes a worker, the workers that claim a row with  *)
(* a one-minute lease, apply it and mark it, and the cron that claims what *)
(* is due every five minutes (services/billing/payment_webhook_worker.ts). *)
(*                                                                         *)
(* Applying an event is one step here; Billing models what it does.        *)
(***************************************************************************)
EXTENDS Naturals, FiniteSets, JobQueue

CONSTANTS
  Events,        \* eventIds of the provider
  Runs,          \* calls of the handler, for a job or for the cron
  None,          \* no event
  MaxAttempts,   \* MAX_ATTEMPTS, 8 in the code
  MaxFaults      \* bound on failures of the environment, for TLC

ASSUME ConstantsAssumption ==
  /\ None \notin Events
  /\ IsFiniteSet(Runs)
  /\ MaxAttempts \in Nat \ {0}
  /\ MaxFaults \in Nat

VARIABLES
  row,       \* the rows of payment_webhook_events
  nature,    \* what applying an event does: it succeeds, it is ignored, it throws
  inbound,   \* events whose request has the row and has not enqueued the wake
  job,       \* the job whose singleton key is the id of the row
  run,
  ledger,    \* history: what happened to an event
  faults

vars == <<row, nature, inbound, job, run, ledger, faults>>

-----------------------------------------------------------------------------
RowStatus == {"none", "pending", "processing", "processed", "ignored", "failed"}
NoRow == [status |-> "none", retryCount |-> 0, due |-> FALSE, lease |-> "none"]
IdleRun == [pc |-> "idle", e |-> None, holds |-> FALSE, retryCount |-> 0]

TypeOK ==
  /\ row \in [Events -> [status: RowStatus, retryCount: Nat, due: BOOLEAN,
                         lease: {"none", "live", "expired"}]]
  /\ nature \in [Events -> {"applies", "ignored", "throws"}]
  /\ inbound \subseteq Events
  /\ job \in [Events -> JobStates]
  /\ run \in [Runs -> [pc: {"idle", "taken", "claimed", "applied", "ignoring",
                            "failing", "done"},
                       e: Events \cup {None}, holds: BOOLEAN, retryCount: Nat]]
  /\ ledger \in [Events -> [applied: Nat, failures: Nat, reclaims: Nat, lost: Nat]]
  /\ faults \in Nat
  /\ \A e \in Events : row[e].status = "processing" <=> row[e].lease # "none"

Init ==
  /\ row = [e \in Events |-> NoRow]
  /\ nature \in [Events -> {"applies", "ignored", "throws"}]
  /\ inbound = {}
  /\ job = [e \in Events |-> "none"]
  /\ run = [r \in Runs |-> IdleRun]
  /\ ledger = [e \in Events |-> [applied |-> 0, failures |-> 0, reclaims |-> 0,
                                 lost |-> 0]]
  /\ faults = 0

-----------------------------------------------------------------------------
Fault == faults < MaxFaults /\ faults' = faults + 1
At(r, pc) == run[r].pc = pc
Goto(r, pc) == run' = [run EXCEPT ![r].pc = pc]
Count(e, what) == ledger' = [ledger EXCEPT ![e][what] = @ + 1]

(* After MAX_ATTEMPTS the row is due in a year, until someone replays it.  *)
Parked(e) ==
  /\ row[e].status = "failed"
  /\ row[e].retryCount >= MaxAttempts
  /\ ~row[e].due
Concluded(e) == row[e].status \in {"processed", "ignored"} \/ Parked(e)

-----------------------------------------------------------------------------
(* Mutant: a delivery of an event that failed makes its row pending again. *)
HandleInboundRevives(e) ==
  /\ e \notin inbound
  /\ row[e].status \in {"none", "pending", "failed"}
  /\ row' = [row EXCEPT ![e] = [NoRow EXCEPT !.status = "pending", !.due = TRUE]]
  /\ inbound' = inbound \cup {e}
  /\ UNCHANGED <<nature, job, run, ledger, faults>>

(* handleInbound: Razorpay delivers an event, again if it likes.           *)
HandleInbound(e) ==
  /\ e \notin inbound
  /\ \/ /\ row[e].status = "none"
        /\ row' = [row EXCEPT ![e] = [NoRow EXCEPT !.status = "pending", !.due = TRUE]]
     \/ /\ row[e].status \in {"pending", "failed"}
        /\ UNCHANGED row
  /\ inbound' = inbound \cup {e}
  /\ UNCHANGED <<nature, job, run, ledger, faults>>

(* #enqueueWake swallows a failure; a request that dies is as good as one. *)
EnqueueWake(e) ==
  /\ e \in inbound
  /\ inbound' = inbound \ {e}
  /\ \/ job' = [job EXCEPT ![e] = EnqueueJob(@, "waiting")] /\ UNCHANGED faults
     \/ \E state \in EnqueueFailure(job[e]) :
          job' = [job EXCEPT ![e] = state] /\ Fault
  /\ UNCHANGED <<row, nature, run, ledger>>

-----------------------------------------------------------------------------
TakeJob(r, e) ==
  /\ At(r, "idle")
  /\ job[e] = "waiting"
  /\ job' = [job EXCEPT ![e] = "active"]
  /\ run' = [run EXCEPT ![r] = [IdleRun EXCEPT !.pc = "taken", !.e = e,
                                               !.holds = TRUE]]
  /\ UNCHANGED <<row, nature, inbound, ledger, faults>>

(* The job of a dead worker goes back to the waiting list, or is failed    *)
(* when it stalled before.                                                 *)
JobStalls(e) ==
  /\ job[e] = "active"
  /\ ~\E r \in Runs : run[r].e = e /\ run[r].holds
  /\ \E state \in {"waiting", "none"} : job' = [job EXCEPT ![e] = state]
  /\ UNCHANGED <<row, nature, inbound, run, ledger, faults>>

(* Mutant: a row whose lease expired is not claimed.                       *)
ClaimableUnleased(e) == row[e].status \in {"pending", "failed"} /\ row[e].due

(* Mutant: a row that is being processed is claimed whatever its lease.    *)
ClaimableProcessing(e) ==
  \/ row[e].status \in {"pending", "failed"} /\ row[e].due
  \/ row[e].status = "processing"

(* claimById, claimNextDue: rows that are due, or whose lease has expired. *)
Claimable(e) ==
  \/ row[e].status \in {"pending", "failed"} /\ row[e].due
  \/ row[e].status = "processing" /\ row[e].lease = "expired"

(* The claimed row keeps its retryCount.                                   *)
Claim(r, e, holds) ==
  /\ Claimable(e)
  /\ row' = [row EXCEPT ![e].status = "processing", ![e].lease = "live"]
  /\ run' = [run EXCEPT ![r] = [pc |-> "claimed", e |-> e, holds |-> holds,
                                retryCount |-> row[e].retryCount]]
  /\ ledger' = [ledger EXCEPT ![e].reclaims =
                  IF row[e].lease = "expired" THEN @ + 1 ELSE @]

(* processById; a row that cannot be claimed is skipped.                   *)
ProcessById(r) ==
  /\ At(r, "taken")
  /\ \/ Claim(r, run[r].e, TRUE)
     \/ ~Claimable(run[r].e) /\ Goto(r, "done") /\ UNCHANGED <<row, ledger>>
  /\ UNCHANGED <<nature, inbound, job, faults>>

(* processNextDue: the cron claims a row, the one that is due for longest. *)
ProcessNextDue(r, e) ==
  /\ At(r, "idle")
  /\ Claim(r, e, FALSE)
  /\ UNCHANGED <<nature, inbound, job, faults>>

(* #processClaimed applies the event; whatever throws is caught.           *)
ApplyEvent(r) ==
  LET e == run[r].e IN
  /\ At(r, "claimed")
  /\ \/ nature[e] = "applies" /\ Goto(r, "applied") /\ Count(e, "applied")
        /\ UNCHANGED faults
     \/ nature[e] = "ignored" /\ Goto(r, "ignoring") /\ UNCHANGED <<ledger, faults>>
     \/ nature[e] = "throws" /\ Goto(r, "failing") /\ UNCHANGED <<ledger, faults>>
     \/ Fault /\ Goto(r, "failing") /\ UNCHANGED ledger
  /\ UNCHANGED <<row, nature, inbound, job>>

(* Mutant: the lease columns are not cleared.                              *)
MarkLeased(e, status) == row' = [row EXCEPT ![e].status = status]

(* markProcessed, markIgnored: updates by the id alone.                    *)
Mark(e, status) == row' = [row EXCEPT ![e].status = status, ![e].lease = "none"]

(* The update may throw as well, and is then taken for a failed attempt.   *)
MarkConcluded(r) ==
  LET e == run[r].e IN
  /\ run[r].pc \in {"applied", "ignoring"}
  /\ \/ /\ Mark(e, IF At(r, "applied") THEN "processed" ELSE "ignored")
        /\ Goto(r, "done")
        /\ UNCHANGED <<ledger, faults>>
     \/ /\ Fault
        /\ Goto(r, "failing")
        /\ IF At(r, "applied") THEN Count(e, "lost") ELSE UNCHANGED ledger
        /\ UNCHANGED row
  /\ UNCHANGED <<nature, inbound, job>>

(* nextRetry counts from the row as it was claimed.                        *)
NextRetry(r) == run[r].retryCount + 1

(* markFailedForRetry, an update by the id alone: the row is due after a   *)
(* backoff, or in a year.                                                  *)
MarkFailedForRetry(r) ==
  LET e == run[r].e IN
  /\ At(r, "failing")
  /\ row' = [row EXCEPT ![e] = [status |-> "failed", retryCount |-> NextRetry(r),
                                due |-> FALSE, lease |-> "none"]]
  /\ Count(e, "failures")
  /\ Goto(r, "done")
  /\ UNCHANGED <<nature, inbound, job, faults>>

FinishJob(r) ==
  /\ At(r, "done")
  /\ job' = IF run[r].holds THEN [job EXCEPT ![run[r].e] = "none"] ELSE job
  /\ run' = [run EXCEPT ![r] = IdleRun]
  /\ UNCHANGED <<row, nature, inbound, ledger, faults>>

(* The worker dies, or markFailedForRetry throws out of the handler.       *)
RunDies(r) ==
  LET e == run[r].e IN
  /\ ~At(r, "idle")
  /\ Fault
  /\ \/ UNCHANGED job
     \/ run[r].holds /\ job' = [job EXCEPT ![e] = "none"]
  /\ run' = [run EXCEPT ![r] = IdleRun]
  /\ IF At(r, "applied") THEN Count(e, "lost") ELSE UNCHANGED ledger
  /\ UNCHANGED <<row, nature, inbound>>

-----------------------------------------------------------------------------
(* A minute passes after a claim whose run is gone, or done with it ...    *)
AtWork(e) == \E r \in Runs : run[r].e = e /\ run[r].pc \notin {"taken", "done"}
LeaseExpires(e) ==
  /\ row[e].lease = "live"
  /\ ~AtWork(e)
  /\ row' = [row EXCEPT ![e].lease = "expired"]
  /\ UNCHANGED <<nature, inbound, job, run, ledger, faults>>

(* ... or whose run takes longer than that; the lease is not renewed.      *)
LeaseOverrun(e) ==
  /\ row[e].lease = "live"
  /\ AtWork(e)
  /\ Fault
  /\ row' = [row EXCEPT ![e].lease = "expired"]
  /\ UNCHANGED <<nature, inbound, job, run, ledger>>

(* The backoff is over; a year is not.                                     *)
BecomesDue(e) ==
  /\ row[e].status = "failed"
  /\ ~row[e].due
  /\ ~Parked(e)
  /\ row' = [row EXCEPT ![e].due = TRUE]
  /\ UNCHANGED <<nature, inbound, job, run, ledger, faults>>

-----------------------------------------------------------------------------
ProcessClaimed(r) ==
  ProcessById(r) \/ ApplyEvent(r) \/ MarkConcluded(r) \/ MarkFailedForRetry(r)
    \/ FinishJob(r)

Next ==
  \/ \E e \in Events :
       \/ HandleInbound(e) \/ EnqueueWake(e) \/ JobStalls(e)
       \/ LeaseExpires(e) \/ LeaseOverrun(e) \/ BecomesDue(e)
       \/ \E r \in Runs : TakeJob(r, e) \/ ProcessNextDue(r, e)
  \/ \E r \in Runs : ProcessClaimed(r) \/ RunDies(r)

Spec == Init /\ [][Next]_vars

(* A worker that lives goes on; the cron fires every five minutes and takes *)
(* rows in the order they became due, so that each has its turn; time goes.*)
(* Nothing makes the queue hand out a job: the cron alone is enough.       *)
Fairness ==
  /\ \A e \in Events : /\ SF_vars(\E r \in Runs : ProcessNextDue(r, e))
                       /\ WF_vars(LeaseExpires(e))
                       /\ WF_vars(BecomesDue(e))
  /\ \A r \in Runs : WF_vars(ProcessClaimed(r))

FairSpec == Spec /\ Fairness

-----------------------------------------------------------------------------
(* However often Razorpay delivers an event, it is applied once, and once  *)
(* more only for each reclaim of an expired lease and for each application *)
(* that a worker could not record before it failed or died.                *)
ApplicationsHaveACause ==
  \A e \in Events : ledger[e].applied <= 1 + ledger[e].reclaims + ledger[e].lost

(* The budget of attempts is never charged for more than what failed:      *)
(* deliveries, wakes, crashes and reclaims cost nothing.                   *)
RetriesAreFailures == \A e \in Events : row[e].retryCount <= ledger[e].failures

(* A concluded event stays so and a parked one is not tried again, whatever*)
(* is delivered - unless its lease was lost to another worker, who may mark*)
(* it failed afterwards (markFailedForRetry looks at the id alone).        *)
ConcludedIsFinal ==
  [][\A e \in Events : Concluded(e) /\ ledger[e].reclaims = 0 => row'[e] = row[e]]_vars

(* Every recorded event is processed, ignored or parked in the end, in     *)
(* spite of lost wakes, dead workers and overrun leases.                   *)
EventsConclude == \A e \in Events : row[e].status # "none" ~> Concluded(e)

(* The row and what happened agree (claims, retries and applications).     *)
LedgerIsSound == ApplicationsHaveACause /\ RetriesAreFailures

=============================================================================
