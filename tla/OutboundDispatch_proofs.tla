---------------------- MODULE OutboundDispatch_proofs ----------------------
(***************************************************************************)
(* Proofs about OutboundDispatch, for every set of dispatches and runs and *)
(* every value of MaxAttempts and MaxFaults.                               *)
(***************************************************************************)
EXTENDS OutboundDispatch, FiniteSetTheorems, TLAPS

(* Whatever state the job is in, and whether or not Redis fails half-way,  *)
(* enqueueing a wake leaves the job in a known state.                      *)
LEMMA EnqueueTyped ==
  ASSUME NEW d \in Dispatches, NEW wake \in {"waiting", "delayed"},
         job \in [Dispatches -> JobStates], faults \in Nat,
         EnqueueDispatchWake(d, wake)
  PROVE  job' \in [Dispatches -> JobStates] /\ faults' \in Nat
BY DEF EnqueueDispatchWake, EnqueueJob, EnqueueFailure, AddJob, RemoveJob,
       JobStates, Fault

(* The rows keep their type under the two updates of a failed attempt.     *)
LEMMA UpdatesTyped ==
  ASSUME NEW d \in Dispatches, dispatch \in [Dispatches -> Row],
         message \in [Dispatches -> MessageStatus]
  PROVE  /\ MarkRetryScheduled(d) => dispatch' \in [Dispatches -> Row]
         /\ MarkFailed(d) => /\ dispatch' \in [Dispatches -> Row]
                             /\ message' \in [Dispatches -> MessageStatus]
<1>1. MarkRetryScheduled(d) => dispatch' \in [Dispatches -> Row]
  <2> DEFINE row == [dispatch[d] EXCEPT !.status = "retry_scheduled",
                                        !.due = FALSE, !.lease = "none"]
  <2>1. row \in Row
    BY DEF Row, DispatchStatus, Unsettled
  <2> HIDE DEF row
  <2> QED BY <2>1 DEF MarkRetryScheduled, row
<1>2. MarkFailed(d) => dispatch' \in [Dispatches -> Row]
  <2> DEFINE row == [dispatch[d] EXCEPT !.status = "failed", !.due = TRUE,
                                        !.lease = "none"]
  <2>1. row \in Row
    BY DEF Row, DispatchStatus, Unsettled
  <2> HIDE DEF row
  <2> QED BY <2>1 DEF MarkFailed, row
<1>3. MarkFailed(d) => message' \in [Dispatches -> MessageStatus]
  BY DEF MarkFailed, MessageStatus
<1> QED BY <1>1, <1>2, <1>3

(* Counting one more event keeps the type of the ledger.                   *)
LEMMA LedgerTyped ==
  ASSUME NEW d \in Dispatches, ledger \in [Dispatches -> Entries]
  PROVE  /\ [ledger EXCEPT ![d].calls = @ + 1] \in [Dispatches -> Entries]
         /\ [ledger EXCEPT ![d].reclaims = @ + 1] \in [Dispatches -> Entries]
         /\ [ledger EXCEPT ![d].lost = @ + 1] \in [Dispatches -> Entries]
         /\ [ledger EXCEPT ![d].deferrals = @ + 1] \in [Dispatches -> Entries]
<1>1. ledger[d] \in Entries
  OBVIOUS
<1>2. /\ [ledger[d] EXCEPT !.calls = @ + 1] \in Entries
      /\ [ledger[d] EXCEPT !.reclaims = @ + 1] \in Entries
      /\ [ledger[d] EXCEPT !.lost = @ + 1] \in Entries
      /\ [ledger[d] EXCEPT !.deferrals = @ + 1] \in Entries
  BY <1>1 DEF Entries
<1> QED BY <1>1, <1>2

(* A run whose attempt failed waits for the failure to be recorded.        *)
LEMMA FailingTyped ==
  ASSUME NEW r \in Runs, NEW terminal \in BOOLEAN, run \in [Runs -> RunState],
         run' = [run EXCEPT ![r].pc = "failing", ![r].terminal = terminal]
  PROVE  /\ run' \in [Runs -> RunState]
         /\ \A s \in Runs : run'[s].d = run[s].d
<1> DEFINE failing == [run[r] EXCEPT !.pc = "failing", !.terminal = terminal]
<1>1. run' = [run EXCEPT ![r] = failing]
  OBVIOUS
<1>2. failing \in RunState /\ failing.d = run[r].d
  BY DEF RunState, Steps
<1> HIDE DEF failing
<1> QED BY <1>1, <1>2

(* A run that moves on to another step keeps its type.                     *)
LEMMA RunTyped ==
  ASSUME NEW r \in Runs, NEW pc \in Steps, run \in [Runs -> RunState],
         run[r].pc # "idle",
         \A s \in Runs : run[s].pc # "idle" => run[s].d \in Dispatches
  PROVE  /\ run[r].d \in Dispatches
         /\ Goto(r, pc) => run' \in [Runs -> RunState]
         /\ Goto(r, pc) =>
              \A s \in Runs : run'[s].pc # "idle" => run'[s].d \in Dispatches
BY DEF RunState, Goto

(* The type invariant holds at first,                                      *)
LEMMA TypeInit == Init => TypeOK
BY DEF Init, TypeOK, Row, RunState, Entries, NoRow, DispatchStatus, Unsettled, MessageStatus, JobStates,
       IdleRun, Steps, EmptyLedger

(* and every step keeps it.                                                *)
LEMMA TypeNext == TypeOK /\ [Next]_vars => TypeOK'
<1> SUFFICES ASSUME TypeOK, [Next]_vars PROVE TypeOK'
  OBVIOUS
<1> USE DEF At
<1>1. ASSUME NEW d \in Dispatches, QueueOutbound(d) PROVE TypeOK'
  BY <1>1 DEF TypeOK, Row, QueueOutbound, DispatchStatus, Unsettled, MessageStatus
<1>2. ASSUME NEW d \in Dispatches, WakeQueued(d) PROVE TypeOK'
  BY <1>2, EnqueueTyped DEF TypeOK, WakeQueued
<1>3. ASSUME NEW d \in Dispatches, PromoteDelayed(d) PROVE TypeOK'
  BY <1>3 DEF TypeOK, PromoteDelayed, JobStates
<1>4. ASSUME NEW d \in Dispatches, JobStalls(d) PROVE TypeOK'
  BY <1>4 DEF TypeOK, JobStalls, JobStates
<1>5. ASSUME NEW d \in Dispatches, JobLockLost(d) PROVE TypeOK'
  <2>1. run' \in [Runs -> RunState]
    <3>1. ASSUME NEW r \in Runs PROVE [run[r] EXCEPT !.holds = FALSE] \in RunState
      BY <3>1 DEF TypeOK, RunState
    <3>2. run \in [Runs -> RunState]
      BY DEF TypeOK, RunState
    <3> QED BY <1>5, <3>1, <3>2 DEF JobLockLost
  <2>2. \A r \in Runs : run'[r].pc = run[r].pc /\ run'[r].d = run[r].d
    BY <1>5 DEF TypeOK, JobLockLost
  <2>3. job' \in [Dispatches -> JobStates] /\ faults' \in Nat
    BY <1>5 DEF TypeOK, JobLockLost, JobStates, Fault
  <2> QED BY <1>5, <2>1, <2>2, <2>3 DEF TypeOK, JobLockLost
<1>6. ASSUME NEW d \in Dispatches, LeaseExpires(d) PROVE TypeOK'
  BY <1>6 DEF TypeOK, Row, LeaseExpires
<1>7. ASSUME NEW d \in Dispatches, LeaseOverrun(d) PROVE TypeOK'
  BY <1>7 DEF TypeOK, Row, LeaseOverrun, Fault
<1>8. ASSUME NEW d \in Dispatches, BecomesDue(d) PROVE TypeOK'
  BY <1>8 DEF TypeOK, Row, BecomesDue
<1>9. ASSUME NEW d \in Dispatches, RecoveryWake(d) PROVE TypeOK'
  BY <1>9, EnqueueTyped DEF TypeOK, RecoveryWake
<1>10. ASSUME NEW d \in Dispatches, Receipt(d) PROVE TypeOK'
  BY <1>10 DEF TypeOK, Receipt, MessageStatus, Delivered
<1>11. ASSUME NEW d \in Dispatches, NEW r \in Runs, TakeJob(r, d) PROVE TypeOK'
  BY <1>11 DEF TypeOK, RunState, TakeJob, IdleRun, Steps, JobStates
<1>12. ASSUME RecoveryScan PROVE TypeOK'
  BY <1>12 DEF TypeOK, RecoveryScan
<1>13. ASSUME NEW r \in Runs, ClaimDispatch(r) PROVE TypeOK'
  <2> DEFINE d == run[r].d
  <2>1. d \in Dispatches
    BY <1>13 DEF TypeOK, ClaimDispatch
  <2>2. NextAttempt(d) \in Nat
    BY <2>1 DEF TypeOK, Row, NextAttempt
  <2>3. dispatch' \in [Dispatches -> Row]
    <3> DEFINE row == [status |-> "processing", attempts |-> NextAttempt(d),
                       due |-> TRUE, lease |-> "live"]
    <3>1. row \in Row
      BY <2>2 DEF Row, DispatchStatus, Unsettled
    <3>2. dispatch' = [dispatch EXCEPT ![d] = row] /\ dispatch \in [Dispatches -> Row]
      BY <1>13 DEF TypeOK, ClaimDispatch
    <3> HIDE DEF row, d
    <3> QED BY <3>1, <3>2
  <2>4. /\ run' \in [Runs -> RunState]
        /\ \A s \in Runs : run'[s].d = run[s].d /\ (s # r => run'[s].pc = run[s].pc)
    <3> DEFINE n == NextAttempt(d)
               claimed == [run[r] EXCEPT !.pc = "claimed", !.n = n]
    <3>1. run' = [run EXCEPT ![r] = claimed] /\ run \in [Runs -> RunState]
      BY <1>13 DEF TypeOK, ClaimDispatch
    <3>2. n \in Nat
      BY <2>2
    <3> HIDE DEF n
    <3>3. claimed \in RunState /\ claimed.d = run[r].d
      BY <3>1, <3>2 DEF RunState, Steps
    <3> HIDE DEF claimed
    <3> QED BY <3>1, <3>3
  <2>5. ledger' \in [Dispatches -> Entries]
    BY <1>13, <2>1, LedgerTyped DEF TypeOK, ClaimDispatch
  <2>6. \A s \in Runs : run'[s].pc # "idle" => run'[s].d \in Dispatches
    BY <2>1, <2>4 DEF TypeOK
  <2> QED
    BY <1>13, <2>3, <2>4, <2>5, <2>6 DEF TypeOK, ClaimDispatch
<1>14. ASSUME NEW r \in Runs, ClaimNothing(r) PROVE TypeOK'
  <2>1. run[r].pc # "idle" /\ "done" \in Steps
    BY <1>14 DEF ClaimNothing, Steps
  <2> QED BY <1>14, <2>1, RunTyped DEF TypeOK, ClaimNothing
<1>15. ASSUME NEW r \in Runs, RevalidateFails(r) PROVE TypeOK'
  <2>1. run[r].d \in Dispatches
    BY <1>15 DEF TypeOK, RevalidateFails
  <2>2. /\ run' \in [Runs -> RunState]
        /\ \A s \in Runs : run'[s].d = run[s].d
    BY <1>15, FailingTyped DEF TypeOK, RevalidateFails
  <2>3. \A s \in Runs : run'[s].pc # "idle" => run'[s].d \in Dispatches
    BY <1>15, <2>1, <2>2 DEF TypeOK, RevalidateFails
  <2> QED BY <1>15, <2>2, <2>3 DEF TypeOK, RevalidateFails
<1>16. ASSUME NEW r \in Runs, DeferForRateLimit(r) PROVE TypeOK'
  <2>1. run[r].d \in Dispatches
    BY <1>16 DEF TypeOK, DeferForRateLimit
  <2>2. dispatch' \in [Dispatches -> Row]
    BY <1>16, <2>1, UpdatesTyped DEF TypeOK, DeferForRateLimit
  <2>3. ledger' \in [Dispatches -> Entries]
    BY <1>16, <2>1, LedgerTyped DEF TypeOK, DeferForRateLimit
  <2>4. faults' \in Nat
    BY <1>16 DEF TypeOK, DeferForRateLimit, Fault
  <2> QED BY <1>16, <2>1, <2>2, <2>3, <2>4, RunTyped
          DEF TypeOK, DeferForRateLimit, Steps
<1>17. ASSUME NEW r \in Runs, MetaAccepts(r) PROVE TypeOK'
  <2> DEFINE d == run[r].d
             entry == [ledger[d] EXCEPT !.calls = @ + 1, !.accepted = @ + 1]
  <2>1. d \in Dispatches /\ run[r].pc # "idle" /\ "accepted" \in Steps
    BY <1>17 DEF TypeOK, MetaAccepts, Steps
  <2>2. ledger \in [Dispatches -> Entries] /\ ledger' = [ledger EXCEPT ![d] = entry]
    BY <1>17 DEF TypeOK, MetaAccepts
  <2>3. entry \in Entries
    <3>1. ledger[d] \in Entries
      BY <2>1, <2>2
    <3>2. ASSUME NEW x \in Entries
          PROVE  [x EXCEPT !.calls = @ + 1, !.accepted = @ + 1] \in Entries
      <4> DEFINE called == [x EXCEPT !.calls = @ + 1]
      <4>1. called \in Entries
        BY DEF Entries
      <4>2. [x EXCEPT !.calls = @ + 1, !.accepted = @ + 1] = [called EXCEPT !.accepted = @ + 1]
        BY DEF Entries
      <4> HIDE DEF called
      <4>3. [called EXCEPT !.accepted = @ + 1] \in Entries
        BY <4>1 DEF Entries
      <4> QED BY <4>2, <4>3
    <3> HIDE DEF d
    <3> QED BY <3>1, <3>2
  <2>4. ledger' \in [Dispatches -> Entries]
    <3> HIDE DEF entry, d
    <3> QED BY <2>1, <2>2, <2>3
  <2> HIDE DEF entry, d
  <2> QED BY <1>17, <2>1, <2>4, RunTyped DEF TypeOK, MetaAccepts
<1>18. ASSUME NEW r \in Runs, MetaRefuses(r) PROVE TypeOK'
  <2>1. run[r].d \in Dispatches
    BY <1>18 DEF TypeOK, MetaRefuses
  <2>2. PICK terminal \in BOOLEAN :
          run' = [run EXCEPT ![r].pc = "failing", ![r].terminal = terminal]
    BY <1>18 DEF MetaRefuses, IsTerminalOutboundFailure
  <2>3. run' \in [Runs -> RunState]
    BY <2>2, FailingTyped DEF TypeOK
  <2>4. \A s \in Runs : run'[s].pc # "idle" => run'[s].d \in Dispatches
    BY <2>1, <2>2 DEF TypeOK
  <2>5. ledger' \in [Dispatches -> Entries]
    BY <1>18, <2>1, LedgerTyped DEF TypeOK, MetaRefuses, Entries
  <2> QED BY <1>18, <2>3, <2>4, <2>5 DEF TypeOK, MetaRefuses
<1>19. ASSUME NEW r \in Runs, MetaAnswerLost(r) PROVE TypeOK'
  BY <1>19 DEF TypeOK, RunState, Entries, MetaAnswerLost,
               IsTerminalOutboundFailure, Steps, Fault
<1>20. ASSUME NEW r \in Runs, MarkSentAndReconcile(r) PROVE TypeOK'
  <2>1. run[r].d \in Dispatches
    BY <1>20 DEF TypeOK, MarkSentAndReconcile
  <2>2. dispatch' \in [Dispatches -> Row]
    <3> DEFINE d == run[r].d
               row == [dispatch[d] EXCEPT !.status = "sent", !.due = TRUE,
                                          !.lease = "none"]
    <3>1. dispatch' = [dispatch EXCEPT ![d] = row]
      BY <1>20 DEF MarkSentAndReconcile
    <3>3. dispatch \in [Dispatches -> Row]
      BY DEF TypeOK
    <3>4. dispatch[d] \in Row
      BY <2>1, <3>3
    <3>2. row \in Row
      BY <3>4 DEF Row, DispatchStatus, Unsettled
    <3> HIDE DEF row, d
    <3> QED BY <3>1, <3>2, <3>3
  <2>3. message' \in [Dispatches -> MessageStatus]
    BY <1>20, <2>1 DEF TypeOK, MarkSentAndReconcile, MessageStatus, Delivered
  <2> QED BY <1>20, <2>1, <2>2, <2>3, RunTyped
          DEF TypeOK, MarkSentAndReconcile, Steps
<1>21. ASSUME NEW r \in Runs, PersistFails(r) PROVE TypeOK'
  <2>1. run[r].d \in Dispatches
    BY <1>21 DEF TypeOK, PersistFails
  <2>2. PICK terminal \in BOOLEAN :
          run' = [run EXCEPT ![r].pc = "failing", ![r].terminal = terminal]
    BY <1>21 DEF PersistFails, IsTerminalOutboundFailure
  <2>3. run' \in [Runs -> RunState]
    BY <2>2, FailingTyped DEF TypeOK
  <2>4. \A s \in Runs : run'[s].pc # "idle" => run'[s].d \in Dispatches
    BY <2>1, <2>2 DEF TypeOK
  <2>5. ledger' \in [Dispatches -> Entries]
    BY <1>21, <2>1, LedgerTyped DEF TypeOK, PersistFails, Entries
  <2> QED BY <1>21, <2>3, <2>4, <2>5 DEF TypeOK, PersistFails, Fault
<1>22. ASSUME NEW r \in Runs, FailTerminally(r) PROVE TypeOK'
  BY <1>22, UpdatesTyped DEF TypeOK, RunState, FailTerminally, Goto, Steps
<1>23. ASSUME NEW r \in Runs, ScheduleRetry(r) PROVE TypeOK'
  BY <1>23, UpdatesTyped DEF TypeOK, RunState, ScheduleRetry, Goto, Steps
<1>24. ASSUME NEW r \in Runs, EnqueueRetryWake(r) PROVE TypeOK'
  BY <1>24, EnqueueTyped DEF TypeOK, RunState, EnqueueRetryWake, Goto, Steps
<1>25. ASSUME NEW r \in Runs, FinishJob(r) PROVE TypeOK'
  BY <1>25 DEF TypeOK, FinishJob, RunState, IdleRun, Steps, JobStates
<1>26. ASSUME NEW r \in Runs, RunDies(r) PROVE TypeOK'
  BY <1>26 DEF TypeOK, RunDies, RunState, IdleRun, Steps, JobStates, Fault
<1>27. CASE UNCHANGED vars
  BY <1>27 DEF TypeOK, vars
<1> QED
  BY <1>1, <1>2, <1>3, <1>4, <1>5, <1>6, <1>7, <1>8, <1>9, <1>10, <1>11, <1>12,
     <1>13, <1>14, <1>15, <1>16, <1>17, <1>18, <1>19, <1>20, <1>21, <1>22, <1>23,
     <1>24, <1>25, <1>26, <1>27 DEF Next, ExecuteDispatch

(* Type correctness of the dispatch life cycle.                            *)
THEOREM TypeCorrect == Spec => []TypeOK
<1>1. Init => TypeOK BY TypeInit
<1>2. TypeOK /\ [Next]_vars => TypeOK' BY TypeNext
<1> QED BY <1>1, <1>2, PTL DEF Spec

-----------------------------------------------------------------------------
(* What one step of the system may do to the two rows of one message,      *)
(* whoever takes it and whichever dispatch it is about.                    *)
RowUnchanged(d) == dispatch'[d] = dispatch[d] /\ message'[d] = message[d]
RowQueued(d) ==
  /\ dispatch[d].status = "none"
  /\ dispatch'[d] = [dispatch[d] EXCEPT !.status = "pending"]
  /\ message'[d] = "queued"
RowClaimed(d) ==
  /\ Claimable(d)
  /\ dispatch'[d] = [status |-> "processing", attempts |-> NextAttempt(d),
                     due |-> TRUE, lease |-> "live"]
  /\ message'[d] = message[d]
RowRetried(d) ==
  /\ dispatch[d].status \in Unsettled
  /\ dispatch'[d] = [dispatch[d] EXCEPT !.status = "retry_scheduled",
                                        !.due = FALSE, !.lease = "none"]
  /\ message'[d] = message[d]
RowSent(d) ==
  /\ \E r \in Runs : run[r].pc = "accepted" /\ run[r].d = d
  /\ dispatch'[d] = [dispatch[d] EXCEPT !.status = "sent",
                                        !.due = TRUE, !.lease = "none"]
  /\ message'[d] \in Delivered \cup {"failed"}
RowFailed(d) ==
  /\ dispatch'[d] = IF dispatch[d].status \in Unsettled
                      THEN [dispatch[d] EXCEPT !.status = "failed", !.due = TRUE,
                                               !.lease = "none"]
                      ELSE dispatch[d]
  /\ message'[d] = IF message[d] = "queued" THEN "failed" ELSE message[d]
RowLapsed(d) ==
  /\ dispatch[d].status = "processing"
  /\ dispatch'[d] = [dispatch[d] EXCEPT !.lease = "expired"]
  /\ message'[d] = message[d]
RowDue(d) ==
  /\ dispatch'[d] = [dispatch[d] EXCEPT !.due = TRUE]
  /\ message'[d] = message[d]
RowReceived(d) ==
  /\ message[d] \in Delivered
  /\ message'[d] \in Delivered \cup {"failed"}
  /\ dispatch'[d] = dispatch[d]

RowStep(d) ==
  \/ RowUnchanged(d) \/ RowQueued(d) \/ RowClaimed(d) \/ RowRetried(d)
  \/ RowSent(d) \/ RowFailed(d) \/ RowLapsed(d) \/ RowDue(d) \/ RowReceived(d)

(* A step that leaves both tables alone.                                   *)
LEMMA RowsUntouched ==
  ASSUME UNCHANGED <<dispatch, message>>, NEW d PROVE RowStep(d)
BY DEF RowStep, RowUnchanged

(* Every step is one of these to the rows of a dispatch.                   *)
LEMMA RowSteps ==
  ASSUME TypeOK, [Next]_vars, NEW d \in Dispatches PROVE RowStep(d)
<1> USE DEF At
<1> DEFINE Untouched == UNCHANGED <<dispatch, message>>
<1>0. /\ dispatch \in [Dispatches -> Row]
      /\ message \in [Dispatches -> MessageStatus]
  BY DEF TypeOK
<1>1. ASSUME NEW b \in Dispatches, QueueOutbound(b) PROVE RowStep(d)
  BY <1>0, <1>1 DEF QueueOutbound, RowStep, RowUnchanged, RowQueued
<1>2. ASSUME NEW b \in Dispatches,
             \/ WakeQueued(b) \/ PromoteDelayed(b) \/ JobStalls(b)
             \/ JobLockLost(b) \/ RecoveryWake(b)
             \/ \E r \in Runs : TakeJob(r, b)
      PROVE  Untouched
  BY <1>2 DEF WakeQueued, PromoteDelayed, JobStalls, JobLockLost, RecoveryWake, TakeJob
<1>3. ASSUME NEW b \in Dispatches, LeaseExpires(b) \/ LeaseOverrun(b)
      PROVE  RowStep(d)
  BY <1>0, <1>3 DEF LeaseExpires, LeaseOverrun, LeaseIsLive, RowStep, RowUnchanged,
                    RowLapsed
<1>4. ASSUME NEW b \in Dispatches, BecomesDue(b) PROVE RowStep(d)
  BY <1>0, <1>4 DEF BecomesDue, RowStep, RowUnchanged, RowDue
<1>5. ASSUME NEW b \in Dispatches, Receipt(b) PROVE RowStep(d)
  BY <1>0, <1>5 DEF Receipt, Delivered, RowStep, RowUnchanged, RowReceived
<1>6. ASSUME RecoveryScan PROVE Untouched
  BY <1>6 DEF RecoveryScan
<1>7. ASSUME NEW r \in Runs, ClaimDispatch(r) PROVE RowStep(d)
  BY <1>0, <1>7 DEF ClaimDispatch, RowStep, RowUnchanged, RowClaimed
<1>8. ASSUME NEW r \in Runs,
             \/ ClaimNothing(r) \/ RevalidateFails(r) \/ MetaAccepts(r)
             \/ MetaRefuses(r) \/ MetaAnswerLost(r) \/ PersistFails(r)
             \/ EnqueueRetryWake(r) \/ FinishJob(r) \/ RunDies(r)
      PROVE  Untouched
  BY <1>8 DEF ClaimNothing, RevalidateFails, MetaAccepts, MetaRefuses, MetaAnswerLost,
              PersistFails, EnqueueRetryWake, FinishJob, RunDies
<1>9. ASSUME NEW r \in Runs, DeferForRateLimit(r) \/ ScheduleRetry(r)
      PROVE  RowStep(d)
  BY <1>0, <1>9 DEF DeferForRateLimit, ScheduleRetry, MarkRetryScheduled,
                    RowStep, RowUnchanged, RowRetried
<1>10. ASSUME NEW r \in Runs, MarkSentAndReconcile(r) PROVE RowStep(d)
  BY <1>0, <1>10 DEF MarkSentAndReconcile, RowStep, RowUnchanged, RowSent
<1>11. ASSUME NEW r \in Runs, FailTerminally(r) PROVE RowStep(d)
  BY <1>0, <1>11 DEF FailTerminally, MarkFailed, RowStep, RowUnchanged, RowFailed
<1>12. CASE UNCHANGED vars
  BY <1>12, RowsUntouched DEF vars
<1> QED
  BY <1>1, <1>2, <1>3, <1>4, <1>5, <1>6, <1>7, <1>8, <1>9, <1>10, <1>11, <1>12,
     RowsUntouched DEF Next, ExecuteDispatch

-----------------------------------------------------------------------------
(* The message and its dispatch agree, whatever handlers, retries, crons   *)
(* and receipts do to either in whatever order (RowsAgree).                *)
THEOREM RowsAlwaysAgree == Spec => []RowsAgree
<1>1. Init => RowsAgree
  BY DEF Init, RowsAgree, NoRow, Unsettled
<1>2. TypeOK /\ RowsAgree /\ [Next]_vars => RowsAgree'
  <2> SUFFICES ASSUME TypeOK, RowsAgree, [Next]_vars, NEW d \in Dispatches
               PROVE  /\ dispatch'[d].status = "none" <=> message'[d] = "none"
                      /\ dispatch'[d].status \in Unsettled <=> message'[d] = "queued"
                      /\ dispatch'[d].status = "failed" => message'[d] = "failed"
    BY DEF RowsAgree
  <2> USE DEF RowsAgree, Unsettled, Delivered
  <2>0. dispatch[d] \in Row /\ message[d] \in MessageStatus
    BY DEF TypeOK
  <2>1. CASE RowUnchanged(d) BY <2>1 DEF RowUnchanged
  <2>2. CASE RowQueued(d) BY <2>0, <2>2 DEF RowQueued, Row
  <2>3. CASE RowClaimed(d) BY <2>0, <2>3 DEF RowClaimed, Claimable
  <2>4. CASE RowRetried(d) BY <2>0, <2>4 DEF RowRetried, Row
  <2>5. CASE RowSent(d) BY <2>0, <2>5 DEF RowSent, Row
  <2>6. CASE RowFailed(d)
    BY <2>0, <2>6 DEF RowFailed, Row, DispatchStatus, MessageStatus
  <2>7. CASE RowLapsed(d) BY <2>0, <2>7 DEF RowLapsed, Row
  <2>8. CASE RowDue(d) BY <2>0, <2>8 DEF RowDue, Row
  <2>9. CASE RowReceived(d)
    BY <2>0, <2>9 DEF RowReceived, Row, DispatchStatus, MessageStatus
  <2> QED
    BY RowSteps, <2>1, <2>2, <2>3, <2>4, <2>5, <2>6, <2>7, <2>8, <2>9 DEF RowStep
<1> QED BY <1>1, <1>2, TypeCorrect, PTL DEF Spec

(* No row is ever out of the reach of the claim and of the recovery cron:  *)
(* every processing row has a lease, no other row has one, and only a row  *)
(* that waits for its retry is not due (NoStrandedRow).                    *)
THEOREM RowsNeverStranded == Spec => []NoStrandedRow
<1>1. Init => NoStrandedRow
  BY DEF Init, NoStrandedRow, NoRow
<1>2. TypeOK /\ NoStrandedRow /\ [Next]_vars => NoStrandedRow'
  <2> SUFFICES ASSUME TypeOK, NoStrandedRow, [Next]_vars, NEW d \in Dispatches
               PROVE  /\ dispatch'[d].status = "processing" <=> dispatch'[d].lease # "none"
                      /\ ~dispatch'[d].due => dispatch'[d].status = "retry_scheduled"
    BY DEF NoStrandedRow
  <2> USE DEF NoStrandedRow, Row
  <2>0. dispatch[d] \in Row
    BY DEF TypeOK
  <2>1. CASE RowUnchanged(d) BY <2>1 DEF RowUnchanged
  <2>2. CASE RowQueued(d) BY <2>0, <2>2 DEF RowQueued
  <2>3. CASE RowClaimed(d) BY <2>0, <2>3 DEF RowClaimed
  <2>4. CASE RowRetried(d) BY <2>0, <2>4 DEF RowRetried
  <2>5. CASE RowSent(d) BY <2>0, <2>5 DEF RowSent
  <2>6. CASE RowFailed(d) BY <2>0, <2>6 DEF RowFailed, Unsettled
  <2>7. CASE RowLapsed(d) BY <2>0, <2>7 DEF RowLapsed
  <2>8. CASE RowDue(d) BY <2>0, <2>8 DEF RowDue
  <2>9. CASE RowReceived(d) BY <2>0, <2>9 DEF RowReceived
  <2> QED
    BY RowSteps, <2>1, <2>2, <2>3, <2>4, <2>5, <2>6, <2>7, <2>8, <2>9 DEF RowStep
<1> QED BY <1>1, <1>2, TypeCorrect, PTL DEF Spec

(* A sent dispatch stays sent and a failed one can only become sent: no    *)
(* run that lost its lease, however late it records its outcome, takes a   *)
(* success back (SentIsFinal).                                             *)
THEOREM SentStaysSent == Spec => SentIsFinal
<1>1. TypeOK /\ [Next]_vars =>
        \A d \in Dispatches :
          /\ dispatch[d].status = "sent" => dispatch'[d].status = "sent"
          /\ dispatch[d].status = "failed" => dispatch'[d].status \in {"failed", "sent"}
  <2> SUFFICES ASSUME TypeOK, [Next]_vars, NEW d \in Dispatches
               PROVE  /\ dispatch[d].status = "sent" => dispatch'[d].status = "sent"
                      /\ dispatch[d].status = "failed" =>
                           dispatch'[d].status \in {"failed", "sent"}
    OBVIOUS
  <2>0. dispatch[d] \in Row
    BY DEF TypeOK
  <2>1. RowStep(d)
    BY RowSteps
  <2> QED BY <2>0, <2>1 DEF RowStep, RowUnchanged, RowQueued, RowClaimed, Claimable,
                           RowRetried, RowSent, RowFailed, RowLapsed, RowDue,
                           RowReceived, Row, Unsettled
<1> QED BY <1>1, TypeCorrect, PTL DEF Spec, SentIsFinal

-----------------------------------------------------------------------------
(* What one step may do to a run, as far as its claim is concerned.        *)
Working == {"claimed", "accepted", "failing"}
RunKept(r) ==
  run'[r].pc = run[r].pc /\ run'[r].d = run[r].d /\ run'[r].n = run[r].n
RunClaims(r) ==
  /\ ClaimDispatch(r)
  /\ run'[r].pc = "claimed"
  /\ run'[r].d = run[r].d
  /\ run'[r].n = NextAttempt(run[r].d)
  /\ \A s \in Runs \ {r} : run'[s] = run[s]
RunAdvances(r) ==
  /\ run[r].pc \in Working
  /\ run'[r].d = run[r].d /\ run'[r].n = run[r].n
  /\ \/ run'[r].pc = "failing"
     \/ /\ run'[r].pc = "accepted"
        /\ ledger'[run[r].d].accepted = ledger[run[r].d].accepted + 1
RunLeaves(r) == run'[r].pc \notin Working

RunStep(r) == RunKept(r) \/ RunClaims(r) \/ RunAdvances(r) \/ RunLeaves(r)

(* Every step is one of these to a run.                                    *)
LEMMA RunSteps ==
  ASSUME TypeOK, [Next]_vars, NEW r \in Runs PROVE RunStep(r)
<1> USE DEF At
<1>0. /\ run \in [Runs -> RunState]
      /\ ledger \in [Dispatches -> Entries]
      /\ \A s \in Runs : run[s].pc # "idle" => run[s].d \in Dispatches
  BY DEF TypeOK
<1>1. ASSUME NEW d \in Dispatches,
             \/ QueueOutbound(d) \/ WakeQueued(d) \/ PromoteDelayed(d) \/ JobStalls(d)
             \/ LeaseExpires(d) \/ LeaseOverrun(d) \/ BecomesDue(d)
             \/ RecoveryWake(d) \/ Receipt(d)
      PROVE  UNCHANGED run
  BY <1>1 DEF QueueOutbound, WakeQueued, PromoteDelayed, JobStalls, LeaseExpires,
              LeaseOverrun, BecomesDue, RecoveryWake, Receipt
<1>2. ASSUME RecoveryScan PROVE UNCHANGED run
  BY <1>2 DEF RecoveryScan
<1>3. ASSUME NEW d \in Dispatches, JobLockLost(d) PROVE RunStep(r)
  BY <1>0, <1>3 DEF JobLockLost, RunState, RunStep, RunKept
<1>4. ASSUME NEW d \in Dispatches, NEW s \in Runs, TakeJob(s, d) PROVE RunStep(r)
  BY <1>0, <1>4 DEF TakeJob, IdleRun, RunState, RunStep, RunKept, RunLeaves, Working
<1>5. ASSUME NEW s \in Runs, ClaimDispatch(s) PROVE RunStep(r)
  <2>1. run' = [run EXCEPT ![s].pc = "claimed", ![s].n = NextAttempt(run[s].d)]
    BY <1>5 DEF ClaimDispatch
  <2>2. CASE r = s
    BY <1>0, <1>5, <2>1, <2>2 DEF RunState, RunStep, RunClaims
  <2>3. CASE r # s
    BY <1>0, <2>1, <2>3 DEF RunState, RunStep, RunKept
  <2> QED BY <2>2, <2>3
<1>6. ASSUME NEW s \in Runs,
             \/ ClaimNothing(s) \/ DeferForRateLimit(s) \/ MarkSentAndReconcile(s)
             \/ FailTerminally(s) \/ ScheduleRetry(s) \/ EnqueueRetryWake(s)
      PROVE  RunStep(r)
  <2>1. Goto(s, "done") \/ Goto(s, "waking")
    BY <1>6 DEF ClaimNothing, DeferForRateLimit, MarkSentAndReconcile, FailTerminally,
                ScheduleRetry, EnqueueRetryWake
  <2> QED BY <1>0, <2>1 DEF Goto, RunState, RunStep, RunKept, RunLeaves, Working
<1>7. ASSUME NEW s \in Runs, RevalidateFails(s) \/ MetaRefuses(s)
                             \/ MetaAnswerLost(s) \/ PersistFails(s)
      PROVE  RunStep(r)
  <2>1. /\ run[s].pc \in Working
        /\ \E t : run' = [run EXCEPT ![s].pc = "failing", ![s].terminal = t]
    BY <1>7 DEF RevalidateFails, MetaRefuses, MetaAnswerLost, PersistFails, Working
  <2> QED BY <1>0, <2>1 DEF RunState, RunStep, RunKept, RunAdvances
<1>8. ASSUME NEW s \in Runs, MetaAccepts(s) PROVE RunStep(r)
  BY <1>0, <1>8 DEF MetaAccepts, Goto, RunState, Entries, RunStep, RunKept,
                    RunAdvances, Working
<1>9. ASSUME NEW s \in Runs, FinishJob(s) \/ RunDies(s) PROVE RunStep(r)
  <2>1. run' = [run EXCEPT ![s] = IdleRun]
    BY <1>9 DEF FinishJob, RunDies
  <2> QED BY <1>0, <2>1 DEF IdleRun, RunState, RunStep, RunKept, RunLeaves, Working
<1>10. CASE UNCHANGED run
  BY <1>10 DEF RunStep, RunKept
<1> QED
  BY <1>1, <1>2, <1>3, <1>4, <1>5, <1>6, <1>7, <1>8, <1>9, <1>10
     DEF Next, ExecuteDispatch, vars

(* The ledger only grows, and so does the attempt number of a row.         *)
LEMMA AcceptedGrows ==
  ASSUME TypeOK, [Next]_vars, NEW d \in Dispatches
  PROVE  ledger'[d].accepted >= ledger[d].accepted
<1>0. ledger \in [Dispatches -> Entries]
  BY DEF TypeOK
<1>1. ASSUME NEW r \in Runs, ClaimDispatch(r)
      PROVE  ledger'[d].accepted >= ledger[d].accepted
  BY <1>0, <1>1 DEF ClaimDispatch, Entries
<1>2. ASSUME NEW r \in Runs, DeferForRateLimit(r)
      PROVE  ledger'[d].accepted >= ledger[d].accepted
  BY <1>0, <1>2 DEF DeferForRateLimit, Entries
<1>3. ASSUME NEW r \in Runs, MetaAccepts(r) \/ MetaAnswerLost(r)
      PROVE  ledger'[d].accepted >= ledger[d].accepted
  <2> DEFINE b == run[r].d
  <2>1. \/ ledger' = [ledger EXCEPT ![b].calls = @ + 1, ![b].accepted = @ + 1]
        \/ ledger' = [ledger EXCEPT ![b].calls = @ + 1, ![b].accepted = @ + 1,
                                    ![b].lost = @ + 1]
    BY <1>3 DEF MetaAccepts, MetaAnswerLost
  <2> HIDE DEF b
  <2> QED BY <1>0, <2>1 DEF Entries
<1>4. ASSUME NEW r \in Runs, MetaRefuses(r) \/ PersistFails(r)
      PROVE  ledger'[d].accepted >= ledger[d].accepted
  BY <1>0, <1>4 DEF MetaRefuses, PersistFails, Entries
<1>5. CASE UNCHANGED ledger
  BY <1>0, <1>5 DEF Entries
<1>6. ASSUME NEW b \in Dispatches,
             \/ QueueOutbound(b) \/ WakeQueued(b) \/ PromoteDelayed(b)
             \/ JobStalls(b) \/ JobLockLost(b) \/ LeaseExpires(b) \/ LeaseOverrun(b)
             \/ BecomesDue(b) \/ RecoveryWake(b) \/ Receipt(b)
             \/ \E r \in Runs : TakeJob(r, b)
      PROVE  UNCHANGED ledger
  BY <1>6 DEF QueueOutbound, WakeQueued, PromoteDelayed, JobStalls, JobLockLost,
              LeaseExpires, LeaseOverrun, BecomesDue, RecoveryWake, Receipt, TakeJob
<1>7. ASSUME NEW r \in Runs,
             \/ ClaimNothing(r) \/ RevalidateFails(r) \/ MarkSentAndReconcile(r)
             \/ FailTerminally(r) \/ ScheduleRetry(r) \/ EnqueueRetryWake(r)
             \/ FinishJob(r) \/ RunDies(r)
      PROVE  UNCHANGED ledger
  BY <1>7 DEF ClaimNothing, RevalidateFails, MarkSentAndReconcile, FailTerminally,
              ScheduleRetry, EnqueueRetryWake, FinishJob, RunDies
<1>8. RecoveryScan => UNCHANGED ledger
  BY DEF RecoveryScan
<1> QED
  BY <1>1, <1>2, <1>3, <1>4, <1>5, <1>6, <1>7, <1>8 DEF Next, ExecuteDispatch, vars

-----------------------------------------------------------------------------
(* SentWasAccepted is not inductive: markSentAndReconcile relies on the    *)
(* run having an accepted call of its own.                                 *)
AcceptedInv ==
  /\ SentWasAccepted
  /\ \A r \in Runs : run[r].pc = "accepted" => ledger[run[r].d].accepted > 0

(* Nothing is recorded as sent that Meta did not accept (SentWasAccepted). *)
THEOREM SentIsAlwaysAccepted == Spec => []SentWasAccepted
<1>1. Init => AcceptedInv
  BY DEF Init, AcceptedInv, SentWasAccepted, NoRow, IdleRun
<1>2. TypeOK /\ AcceptedInv /\ [Next]_vars => AcceptedInv'
  <2> SUFFICES ASSUME TypeOK, AcceptedInv, [Next]_vars PROVE AcceptedInv'
    OBVIOUS
  <2>1. ASSUME NEW d \in Dispatches, dispatch'[d].status = "sent"
        PROVE  ledger'[d].accepted > 0
    <3>1. dispatch[d] \in Row /\ ledger[d].accepted \in Nat /\ RowStep(d)
      BY RowSteps DEF TypeOK, Entries
    <3>2. dispatch[d].status = "sent" \/ RowSent(d)
      <4>1. CASE RowFailed(d)
        BY <2>1, <3>1, <4>1 DEF RowFailed, Row
      <4>2. CASE RowUnchanged(d) \/ RowReceived(d)
        BY <2>1, <4>2 DEF RowUnchanged, RowReceived
      <4>3. CASE RowQueued(d) \/ RowRetried(d) \/ RowLapsed(d) \/ RowDue(d)
        BY <2>1, <3>1, <4>3 DEF RowQueued, RowRetried, RowLapsed, RowDue, Row
      <4>4. CASE RowClaimed(d)
        BY <2>1, <4>4 DEF RowClaimed
      <4> QED BY <3>1, <4>1, <4>2, <4>3, <4>4 DEF RowStep
    <3>3. ledger[d].accepted > 0
      BY <3>2 DEF AcceptedInv, SentWasAccepted, RowSent
    <3>4. ledger'[d].accepted >= ledger[d].accepted /\ ledger'[d].accepted \in Nat
      BY AcceptedGrows, TypeNext DEF TypeOK, Entries
    <3> QED BY <3>1, <3>3, <3>4
  <2>2. ASSUME NEW r \in Runs, run'[r].pc = "accepted"
        PROVE  ledger'[run'[r].d].accepted > 0
    <3>1. RunKept(r) \/ RunAdvances(r)
      BY <2>2, RunSteps DEF RunStep, RunClaims, RunLeaves, Working
    <3>2. run[r].d \in Dispatches /\ run'[r].d = run[r].d
      BY <2>2, <3>1 DEF TypeOK, RunKept, RunAdvances, Working
    <3>3. /\ ledger[run[r].d].accepted \in Nat
          /\ ledger'[run[r].d].accepted \in Nat
          /\ ledger'[run[r].d].accepted >= ledger[run[r].d].accepted
      BY <3>2, AcceptedGrows, TypeNext DEF TypeOK, Entries
    <3> QED BY <2>2, <3>1, <3>2, <3>3 DEF AcceptedInv, RunKept, RunAdvances
  <2> QED BY <2>1, <2>2 DEF AcceptedInv, SentWasAccepted
<1>3. AcceptedInv => SentWasAccepted
  BY DEF AcceptedInv
<1> QED BY <1>1, <1>2, <1>3, TypeCorrect, PTL DEF Spec

-----------------------------------------------------------------------------
(* Counting the runs of a dispatch.                                        *)
LEMMA RunSets ==
  ASSUME NEW S \in SUBSET Runs, NEW T \in SUBSET Runs, NEW r
  PROVE  /\ Cardinality(S) \in Nat
         /\ T \subseteq S => Cardinality(T) <= Cardinality(S)
         /\ T \subseteq S \cup {r} => Cardinality(T) <= Cardinality(S) + 1
         /\ r \in S /\ T \subseteq S \ {r} => Cardinality(T) <= Cardinality(S) - 1
<1>1. IsFiniteSet(S) /\ Cardinality(S) \in Nat /\ Cardinality(T) \in Nat
  BY FS_Subset, FS_CardinalityType, ConstantsAssumption
<1>2. T \subseteq S => Cardinality(T) <= Cardinality(S)
  BY <1>1, FS_Subset
<1>3. ASSUME T \subseteq S \cup {r} PROVE Cardinality(T) <= Cardinality(S) + 1
  <2>1. /\ IsFiniteSet(S \cup {r})
        /\ Cardinality(S \cup {r}) <= Cardinality(S) + 1
        /\ Cardinality(S \cup {r}) \in Nat
    <3>1. /\ IsFiniteSet(S \cup {r})
          /\ Cardinality(S \cup {r}) =
               IF r \in S THEN Cardinality(S) ELSE Cardinality(S) + 1
      BY <1>1, FS_AddElement
    <3>2. CASE r \in S BY <1>1, <3>1, <3>2
    <3>3. CASE r \notin S BY <1>1, <3>1, <3>3
    <3> QED BY <3>2, <3>3
  <2>2. Cardinality(T) <= Cardinality(S \cup {r})
    BY <1>3, <2>1, FS_Subset
  <2> QED BY <1>1, <2>1, <2>2
<1>4. ASSUME r \in S, T \subseteq S \ {r} PROVE Cardinality(T) <= Cardinality(S) - 1
  <2>1. IsFiniteSet(S \ {r}) /\ Cardinality(S \ {r}) = Cardinality(S) - 1
    BY <1>1, <1>4, FS_RemoveElement
  <2> QED BY <1>4, <2>1, FS_Subset
<1> QED BY <1>1, <1>2, <1>3, <1>4

(* DuplicatesHaveACause is not inductive: it does not say how many calls   *)
(* are still to come.  A run that has claimed a dispatch, or that failed   *)
(* and may put it back, can lead to one more acceptance; so can a row that *)
(* may be claimed without a lease having expired.                          *)
Chances(d) == {r \in Runs : run[r].d = d /\ run[r].pc \in {"claimed", "failing"}}
Open(d) == IF dispatch[d].status \in {"none", "pending", "retry_scheduled"} THEN 1 ELSE 0
ChancesAreCovered ==
  \A d \in Dispatches :
    ledger[d].accepted + Cardinality(Chances(d)) + Open(d)
      <= 1 + ledger[d].reclaims + ledger[d].lost

(* What one step does to the chances of a dispatch.                        *)
LedgerKept(d) ==
  /\ ledger'[d].accepted = ledger[d].accepted
  /\ ledger'[d].reclaims = ledger[d].reclaims
  /\ ledger'[d].lost = ledger[d].lost
NoMoreChances(d) ==
  LedgerKept(d) /\ Chances(d)' \subseteq Chances(d) /\ Open(d)' <= Open(d)
ChanceOpened(d) ==       \* a run gives the row back
  /\ LedgerKept(d)
  /\ \E r \in Chances(d) : Chances(d)' \subseteq Chances(d) \ {r}
ChanceTaken(d) ==        \* a run claims the row
  /\ \E r \in Runs : Chances(d)' \subseteq Chances(d) \cup {r}
  /\ Open(d)' = 0
  /\ ledger'[d].accepted = ledger[d].accepted /\ ledger'[d].lost = ledger[d].lost
  /\ ledger'[d].reclaims = ledger[d].reclaims + 1 - Open(d)
ChanceUsed(d) ==         \* Meta accepts
  /\ \E r \in Chances(d) : Chances(d)' \subseteq Chances(d) \ {r}
  /\ Open(d)' = Open(d)
  /\ ledger'[d].accepted = ledger[d].accepted + 1
  /\ ledger'[d].reclaims = ledger[d].reclaims /\ ledger'[d].lost = ledger[d].lost
AnswerLost(d) ==         \* Meta accepts and its answer is lost
  /\ Chances(d)' \subseteq Chances(d)
  /\ Open(d)' = Open(d)
  /\ ledger'[d].accepted = ledger[d].accepted + 1
  /\ ledger'[d].reclaims = ledger[d].reclaims
  /\ ledger'[d].lost = ledger[d].lost + 1
RecordLost(d) ==         \* the record of an acceptance is lost
  /\ \E r \in Runs : Chances(d)' \subseteq Chances(d) \cup {r}
  /\ Open(d)' = Open(d)
  /\ ledger'[d].accepted = ledger[d].accepted
  /\ ledger'[d].reclaims = ledger[d].reclaims
  /\ ledger'[d].lost = ledger[d].lost + 1

ChanceStep(d) ==
  \/ NoMoreChances(d) \/ ChanceOpened(d) \/ ChanceTaken(d)
  \/ ChanceUsed(d) \/ AnswerLost(d) \/ RecordLost(d)

(* Every step moves, uses or pays for a chance.                            *)
LEMMA ChanceSteps ==
  ASSUME TypeOK, [Next]_vars, NEW d \in Dispatches PROVE ChanceStep(d)
<1> USE DEF At
<1>0. /\ dispatch \in [Dispatches -> Row]
      /\ run \in [Runs -> RunState]
      /\ ledger \in [Dispatches -> Entries]
      /\ \A s \in Runs : run[s].pc # "idle" => run[s].d \in Dispatches
      /\ Open(d) \in {0, 1}
  BY DEF TypeOK, Open
<1>1. ASSUME UNCHANGED <<dispatch, run, ledger>> PROVE ChanceStep(d)
  BY <1>0, <1>1 DEF ChanceStep, NoMoreChances, LedgerKept, Chances, Open
<1>2. ASSUME NEW b \in Dispatches,
             \/ WakeQueued(b) \/ PromoteDelayed(b) \/ JobStalls(b)
             \/ RecoveryWake(b) \/ Receipt(b)
      PROVE  UNCHANGED <<dispatch, run, ledger>>
  BY <1>2 DEF WakeQueued, PromoteDelayed, JobStalls, RecoveryWake, Receipt
<1>3. RecoveryScan => UNCHANGED <<dispatch, run, ledger>>
  BY DEF RecoveryScan
<1>4. ASSUME NEW b \in Dispatches,
             \/ QueueOutbound(b) \/ LeaseExpires(b) \/ LeaseOverrun(b) \/ BecomesDue(b)
      PROVE  ChanceStep(d)
  <2>1. UNCHANGED <<run, ledger>>
    BY <1>4 DEF QueueOutbound, LeaseExpires, LeaseOverrun, BecomesDue
  <2>2. Open(d)' = Open(d)
    BY <1>0, <1>4 DEF QueueOutbound, LeaseExpires, LeaseOverrun, BecomesDue, Open, Row
  <2> QED BY <1>0, <2>1, <2>2 DEF ChanceStep, NoMoreChances, LedgerKept, Chances
<1>5. ASSUME NEW b \in Dispatches, JobLockLost(b) PROVE ChanceStep(d)
  <2>1. \A r \in Runs : run'[r].d = run[r].d /\ run'[r].pc = run[r].pc
    BY <1>0, <1>5 DEF JobLockLost, RunState
  <2>2. UNCHANGED <<dispatch, ledger>>
    BY <1>5 DEF JobLockLost
  <2> QED BY <1>0, <2>1, <2>2 DEF ChanceStep, NoMoreChances, LedgerKept, Chances, Open
<1>6. ASSUME NEW b \in Dispatches, NEW s \in Runs, TakeJob(s, b) PROVE ChanceStep(d)
  <2>1. \A r \in Runs : run'[r].pc = "taken" \/ run'[r] = run[r]
    BY <1>0, <1>6 DEF TakeJob, IdleRun
  <2>2. UNCHANGED <<dispatch, ledger>>
    BY <1>6 DEF TakeJob
  <2> QED BY <1>0, <2>1, <2>2 DEF ChanceStep, NoMoreChances, LedgerKept, Chances, Open
<1>7. ASSUME NEW s \in Runs, FinishJob(s) \/ RunDies(s) PROVE ChanceStep(d)
  <2>1. \A r \in Runs : run'[r].pc = "idle" \/ run'[r] = run[r]
    BY <1>0, <1>7 DEF FinishJob, RunDies, IdleRun
  <2>2. UNCHANGED <<dispatch, ledger>>
    BY <1>7 DEF FinishJob, RunDies
  <2> QED BY <1>0, <2>1, <2>2 DEF ChanceStep, NoMoreChances, LedgerKept, Chances, Open
<1>8. ASSUME NEW s \in Runs, ClaimDispatch(s) PROVE ChanceStep(d)
  <2>1. run' = [run EXCEPT ![s].pc = "claimed", ![s].n = NextAttempt(run[s].d)]
    BY <1>8 DEF ClaimDispatch
  <2>2. CASE run[s].d = d
    <3>1. Chances(d)' \subseteq Chances(d) \cup {s}
      BY <1>0, <2>1 DEF Chances, RunState
    <3>2. /\ Open(d)' = 0
          /\ ledger'[d].accepted = ledger[d].accepted
          /\ ledger'[d].lost = ledger[d].lost
          /\ ledger'[d].reclaims = ledger[d].reclaims + 1 - Open(d)
      BY <1>0, <1>8, <2>2 DEF ClaimDispatch, Claimable, Open, Row, Entries
    <3> QED BY <3>1, <3>2 DEF ChanceStep, ChanceTaken
  <2>3. CASE run[s].d # d
    <3>1. Chances(d)' \subseteq Chances(d)
      BY <1>0, <2>1, <2>3 DEF Chances, RunState
    <3>2. Open(d)' = Open(d) /\ LedgerKept(d)
      BY <1>0, <1>8, <2>3 DEF ClaimDispatch, Open, LedgerKept, Entries
    <3> QED BY <1>0, <3>1, <3>2 DEF ChanceStep, NoMoreChances
  <2> QED BY <2>2, <2>3
<1>9. ASSUME NEW s \in Runs, ClaimNothing(s) \/ EnqueueRetryWake(s)
      PROVE  ChanceStep(d)
  <2>1. Goto(s, "done") /\ UNCHANGED <<dispatch, ledger>>
    BY <1>9 DEF ClaimNothing, EnqueueRetryWake
  <2>2. Chances(d)' \subseteq Chances(d)
    BY <1>0, <2>1 DEF Goto, Chances, RunState
  <2> QED BY <1>0, <2>1, <2>2 DEF ChanceStep, NoMoreChances, LedgerKept, Open
<1>10. ASSUME NEW s \in Runs, RevalidateFails(s) \/ MetaRefuses(s) PROVE ChanceStep(d)
  <2>1. /\ run[s].pc = "claimed" /\ UNCHANGED dispatch
        /\ \E t : run' = [run EXCEPT ![s].pc = "failing", ![s].terminal = t]
    BY <1>10 DEF RevalidateFails, MetaRefuses
  <2>2. Chances(d)' \subseteq Chances(d)
    BY <1>0, <2>1 DEF Chances, RunState
  <2>3. LedgerKept(d)
    BY <1>0, <1>10 DEF RevalidateFails, MetaRefuses, LedgerKept, Entries
  <2> QED BY <1>0, <2>1, <2>2, <2>3 DEF ChanceStep, NoMoreChances, Open
<1>11. ASSUME NEW s \in Runs, DeferForRateLimit(s) \/ ScheduleRetry(s)
       PROVE  ChanceStep(d)
  <2>1. /\ run[s].pc \in {"claimed", "failing"} /\ run[s].d \in Dispatches
        /\ Goto(s, "waking") /\ MarkRetryScheduled(run[s].d)
    BY <1>0, <1>11 DEF DeferForRateLimit, ScheduleRetry
  <2>2. LedgerKept(d)
    BY <1>0, <1>11 DEF DeferForRateLimit, ScheduleRetry, LedgerKept, Entries
  <2>3. Chances(d)' \subseteq Chances(d) \ {s}
    BY <1>0, <2>1 DEF Goto, Chances, RunState
  <2>4. CASE run[s].d = d
    BY <2>1, <2>2, <2>3, <2>4 DEF ChanceStep, ChanceOpened, Chances
  <2>5. CASE run[s].d # d
    <3>1. Open(d)' = Open(d)
      BY <1>0, <2>1, <2>5 DEF MarkRetryScheduled, Open
    <3> QED BY <1>0, <2>2, <2>3, <3>1 DEF ChanceStep, NoMoreChances
  <2> QED BY <2>4, <2>5
<1>12. ASSUME NEW s \in Runs, FailTerminally(s) \/ MarkSentAndReconcile(s)
       PROVE  ChanceStep(d)
  <2>1. Goto(s, "done") /\ UNCHANGED ledger
    BY <1>12 DEF FailTerminally, MarkSentAndReconcile
  <2>2. Open(d)' <= Open(d)
    <3>1. CASE MarkSentAndReconcile(s)
      BY <1>0, <3>1 DEF MarkSentAndReconcile, Open, Row
    <3>2. CASE FailTerminally(s)
      <4>1. dispatch'[d] = dispatch[d] \/ dispatch'[d].status = "failed"
        BY <1>0, <3>2 DEF FailTerminally, MarkFailed, Row
      <4> QED BY <1>0, <4>1 DEF Open
    <3> QED BY <1>12, <3>1, <3>2
  <2>3. Chances(d)' \subseteq Chances(d)
    BY <1>0, <2>1 DEF Goto, Chances, RunState
  <2> QED BY <2>1, <2>2, <2>3 DEF ChanceStep, NoMoreChances, LedgerKept
<1>13. ASSUME NEW s \in Runs, MetaAccepts(s) PROVE ChanceStep(d)
  <2> DEFINE b == run[s].d
  <2>1. /\ run[s].pc = "claimed" /\ b \in Dispatches /\ UNCHANGED dispatch
        /\ Goto(s, "accepted")
        /\ ledger' = [ledger EXCEPT ![b].calls = @ + 1, ![b].accepted = @ + 1]
    BY <1>0, <1>13 DEF MetaAccepts
  <2>2. Chances(d)' \subseteq Chances(d) \ {s}
    BY <1>0, <2>1 DEF Goto, Chances, RunState
  <2>3. CASE b = d
    BY <1>0, <2>1, <2>2, <2>3 DEF ChanceStep, ChanceUsed, Chances, Open, Entries
  <2>4. CASE b # d
    BY <1>0, <2>1, <2>2, <2>4 DEF ChanceStep, NoMoreChances, LedgerKept, Open
  <2> QED BY <2>3, <2>4
<1>14. ASSUME NEW s \in Runs, MetaAnswerLost(s) PROVE ChanceStep(d)
  <2> DEFINE b == run[s].d
  <2>1. /\ run[s].pc = "claimed" /\ b \in Dispatches /\ UNCHANGED dispatch
        /\ \E t : run' = [run EXCEPT ![s].pc = "failing", ![s].terminal = t]
        /\ ledger' = [ledger EXCEPT ![b].calls = @ + 1, ![b].accepted = @ + 1,
                                    ![b].lost = @ + 1]
    BY <1>0, <1>14 DEF MetaAnswerLost
  <2>2. Chances(d)' \subseteq Chances(d)
    BY <1>0, <2>1 DEF Chances, RunState
  <2>3. CASE b = d
    BY <1>0, <2>1, <2>2, <2>3 DEF ChanceStep, AnswerLost, Open, Entries
  <2>4. CASE b # d
    BY <1>0, <2>1, <2>2, <2>4 DEF ChanceStep, NoMoreChances, LedgerKept, Open
  <2> QED BY <2>3, <2>4
<1>15. ASSUME NEW s \in Runs, PersistFails(s) PROVE ChanceStep(d)
  <2> DEFINE b == run[s].d
  <2>1. /\ b \in Dispatches /\ UNCHANGED dispatch
        /\ \E t : run' = [run EXCEPT ![s].pc = "failing", ![s].terminal = t]
        /\ ledger' = [ledger EXCEPT ![b].lost = @ + 1]
    BY <1>0, <1>15 DEF PersistFails
  <2>2. CASE b = d
    <3>1. Chances(d)' \subseteq Chances(d) \cup {s}
      BY <1>0, <2>1 DEF Chances, RunState
    <3> QED BY <1>0, <2>1, <2>2, <3>1 DEF ChanceStep, RecordLost, Open, Entries
  <2>3. CASE b # d
    <3>1. Chances(d)' \subseteq Chances(d)
      BY <1>0, <2>1, <2>3 DEF Chances, RunState
    <3> QED BY <1>0, <2>1, <2>3, <3>1 DEF ChanceStep, NoMoreChances, LedgerKept, Open
  <2> QED BY <2>2, <2>3
<1> QED
  BY <1>1, <1>2, <1>3, <1>4, <1>5, <1>6, <1>7, <1>8, <1>9, <1>10, <1>11, <1>12,
     <1>13, <1>14, <1>15 DEF Next, ExecuteDispatch, vars

(* Every acceptance after the first has a cause: a claim of an expired     *)
(* lease, or an accepted call whose answer or record was lost              *)
(* (DuplicatesHaveACause).                                                 *)
THEOREM DuplicatesAlwaysHaveACause == Spec => []DuplicatesHaveACause
<1>1. Init => ChancesAreCovered
  <2> SUFFICES ASSUME Init, NEW d \in Dispatches
               PROVE  /\ Chances(d) = {} /\ Open(d) = 1
                      /\ ledger[d] = EmptyLedger
    BY FS_EmptySet DEF ChancesAreCovered, EmptyLedger
  <2> QED BY DEF Init, Chances, Open, NoRow, IdleRun
<1>2. TypeOK /\ ChancesAreCovered /\ [Next]_vars => ChancesAreCovered'
  <2> SUFFICES ASSUME TypeOK, ChancesAreCovered, [Next]_vars, NEW d \in Dispatches
               PROVE  ledger'[d].accepted + Cardinality(Chances(d)') + Open(d)'
                        <= 1 + ledger'[d].reclaims + ledger'[d].lost
    BY DEF ChancesAreCovered
  <2> DEFINE C == Chances(d)
             D == Chances(d)'
  <2>1. /\ ledger[d] \in Entries /\ ledger'[d] \in Entries
        /\ Open(d) \in {0, 1} /\ Open(d)' \in {0, 1}
        /\ C \in SUBSET Runs /\ D \in SUBSET Runs
    BY TypeNext DEF TypeOK, Open, Chances
  <2>2. /\ Cardinality(C) \in Nat /\ Cardinality(D) \in Nat
        /\ D \subseteq C => Cardinality(D) <= Cardinality(C)
        /\ (\E r \in Runs : D \subseteq C \cup {r}) => Cardinality(D) <= Cardinality(C) + 1
        /\ (\E r \in C : D \subseteq C \ {r}) => Cardinality(D) <= Cardinality(C) - 1
    BY <2>1, RunSets
  <2>3. ledger[d].accepted + Cardinality(C) + Open(d)
          <= 1 + ledger[d].reclaims + ledger[d].lost
    BY DEF ChancesAreCovered
  <2>4. ChanceStep(d)
    BY ChanceSteps
  <2> QED BY <2>1, <2>2, <2>3, <2>4 DEF ChanceStep, NoMoreChances, ChanceOpened,
             ChanceTaken, ChanceUsed, AnswerLost, RecordLost, LedgerKept, Entries
<1>3. TypeOK /\ ChancesAreCovered => DuplicatesHaveACause
  <2> SUFFICES ASSUME TypeOK, ChancesAreCovered, NEW d \in Dispatches
               PROVE  ledger[d].accepted <= 1 + ledger[d].reclaims + ledger[d].lost
    BY DEF DuplicatesHaveACause
  <2>1. ledger[d] \in Entries /\ Open(d) \in {0, 1} /\ Chances(d) \in SUBSET Runs
    BY DEF TypeOK, Open, Chances
  <2>2. Cardinality(Chances(d)) \in Nat
    BY <2>1, RunSets
  <2> QED BY <2>1, <2>2 DEF ChancesAreCovered, Entries
<1> QED BY <1>1, <1>2, <1>3, TypeCorrect, PTL DEF Spec

-----------------------------------------------------------------------------
(* AttemptsHaveACause needs three facts more.  Runs at work on a dispatch, *)
(* and the row while it is open, are at most one plus the reclaims.  From  *)
(* MaxAttempts on, the runs that may still schedule a retry and the open   *)
(* row are paid for in advance.  And a run schedules a retry only below    *)
(* MaxAttempts.                                                            *)
AtWorkOn(d) == {r \in Runs : run[r].d = d /\ run[r].pc \in Working}
MayRetry(d) == {r \in AtWorkOn(d) : run[r].n < MaxAttempts}
RetriesAreBelowMax ==
  \A r \in Runs : run[r].pc = "failing" /\ ~run[r].terminal => run[r].n < MaxAttempts
BudgetInv ==
  /\ RetriesAreBelowMax
  /\ \A d \in Dispatches :
       /\ Cardinality(AtWorkOn(d)) + Open(d) <= 1 + ledger[d].reclaims
       /\ dispatch[d].attempts >= MaxAttempts =>
            dispatch[d].attempts + Cardinality(MayRetry(d)) + Open(d)
              <= MaxAttempts + ledger[d].reclaims + ledger[d].deferrals

(* What one step does to the budget of a dispatch.                         *)
CausesKept(d) ==
  /\ ledger'[d].reclaims = ledger[d].reclaims
  /\ ledger'[d].deferrals = ledger[d].deferrals
BudgetKept(d) ==
  /\ dispatch'[d].attempts = dispatch[d].attempts /\ CausesKept(d)
  /\ AtWorkOn(d)' \subseteq AtWorkOn(d) /\ MayRetry(d)' \subseteq MayRetry(d)
  /\ Open(d)' <= Open(d)
BudgetClaimed(d) ==      \* a run claims the row
  /\ dispatch'[d].attempts = dispatch[d].attempts + 1
  /\ ledger'[d].reclaims = ledger[d].reclaims + 1 - Open(d)
  /\ ledger'[d].deferrals = ledger[d].deferrals
  /\ \E r \in Runs : AtWorkOn(d)' \subseteq AtWorkOn(d) \cup {r}
  /\ dispatch'[d].attempts >= MaxAttempts => MayRetry(d)' \subseteq MayRetry(d)
  /\ Open(d)' = 0
BudgetRetried(d) ==      \* a run gives the row back to be retried
  /\ dispatch'[d].attempts = dispatch[d].attempts /\ CausesKept(d)
  /\ \E r \in MayRetry(d) : /\ AtWorkOn(d)' \subseteq AtWorkOn(d) \ {r}
                            /\ MayRetry(d)' \subseteq MayRetry(d) \ {r}
BudgetDeferred(d) ==     \* a run gives the row back for the rate limit
  /\ dispatch'[d].attempts = dispatch[d].attempts
  /\ ledger'[d].reclaims = ledger[d].reclaims
  /\ ledger'[d].deferrals = ledger[d].deferrals + 1
  /\ \E r \in AtWorkOn(d) : AtWorkOn(d)' \subseteq AtWorkOn(d) \ {r}
  /\ MayRetry(d)' \subseteq MayRetry(d)

BudgetStep(d) ==
  BudgetKept(d) \/ BudgetClaimed(d) \/ BudgetRetried(d) \/ BudgetDeferred(d)

(* Every step keeps the two budgets, or names a cause.                     *)
LEMMA BudgetSteps ==
  ASSUME TypeOK, RetriesAreBelowMax, [Next]_vars, NEW d \in Dispatches
  PROVE  BudgetStep(d)
<1> USE DEF At
<1> DEFINE Fewer == AtWorkOn(d)' \subseteq AtWorkOn(d) /\ MayRetry(d)' \subseteq MayRetry(d)
<1>0. /\ dispatch \in [Dispatches -> Row]
      /\ run \in [Runs -> RunState]
      /\ ledger \in [Dispatches -> Entries]
      /\ \A s \in Runs : run[s].pc # "idle" => run[s].d \in Dispatches
      /\ Open(d) \in {0, 1}
  BY DEF TypeOK, Open
<1>1. ASSUME UNCHANGED <<dispatch, run, ledger>> PROVE BudgetStep(d)
  BY <1>0, <1>1 DEF BudgetStep, BudgetKept, CausesKept, AtWorkOn, MayRetry, Open
<1>2. ASSUME NEW b \in Dispatches,
             \/ WakeQueued(b) \/ PromoteDelayed(b) \/ JobStalls(b)
             \/ RecoveryWake(b) \/ Receipt(b)
      PROVE  UNCHANGED <<dispatch, run, ledger>>
  BY <1>2 DEF WakeQueued, PromoteDelayed, JobStalls, RecoveryWake, Receipt
<1>3. RecoveryScan => UNCHANGED <<dispatch, run, ledger>>
  BY DEF RecoveryScan
<1>4. ASSUME NEW b \in Dispatches,
             \/ QueueOutbound(b) \/ LeaseExpires(b) \/ LeaseOverrun(b) \/ BecomesDue(b)
      PROVE  BudgetStep(d)
  <2>1. UNCHANGED <<run, ledger>>
    BY <1>4 DEF QueueOutbound, LeaseExpires, LeaseOverrun, BecomesDue
  <2>2. Open(d)' = Open(d) /\ dispatch'[d].attempts = dispatch[d].attempts
    BY <1>0, <1>4 DEF QueueOutbound, LeaseExpires, LeaseOverrun, BecomesDue, Open, Row
  <2> QED BY <1>0, <2>1, <2>2 DEF BudgetStep, BudgetKept, CausesKept, AtWorkOn, MayRetry
<1>5. ASSUME NEW b \in Dispatches, JobLockLost(b) PROVE BudgetStep(d)
  <2>1. \A r \in Runs : run'[r].d = run[r].d /\ run'[r].pc = run[r].pc
                        /\ run'[r].n = run[r].n
    BY <1>0, <1>5 DEF JobLockLost, RunState
  <2>2. UNCHANGED <<dispatch, ledger>>
    BY <1>5 DEF JobLockLost
  <2>3. Fewer
    BY <2>1 DEF AtWorkOn, MayRetry
  <2> QED BY <1>0, <2>2, <2>3 DEF BudgetStep, BudgetKept, CausesKept, Open
<1>6. ASSUME NEW s \in Runs,
             FinishJob(s) \/ RunDies(s) \/ \E b \in Dispatches : TakeJob(s, b)
      PROVE  BudgetStep(d)
  <2>1. \A r \in Runs : run'[r].pc \in {"taken", "idle"} \/ run'[r] = run[r]
    <3>1. CASE FinishJob(s) \/ RunDies(s)
      BY <1>0, <3>1 DEF FinishJob, RunDies, IdleRun
    <3>2. ASSUME NEW b \in Dispatches, TakeJob(s, b)
          PROVE  \A r \in Runs : run'[r].pc = "taken" \/ run'[r] = run[r]
      BY <1>0, <3>2 DEF TakeJob, IdleRun
    <3> QED BY <1>6, <3>1, <3>2
  <2>2. UNCHANGED <<dispatch, ledger>>
    BY <1>6 DEF TakeJob, FinishJob, RunDies
  <2>3. Fewer
    BY <2>1 DEF AtWorkOn, MayRetry, Working
  <2> QED BY <1>0, <2>2, <2>3 DEF BudgetStep, BudgetKept, CausesKept, Open
<1>7. ASSUME NEW s \in Runs, ClaimDispatch(s) PROVE BudgetStep(d)
  <2>1. run' = [run EXCEPT ![s].pc = "claimed", ![s].n = NextAttempt(run[s].d)]
    BY <1>7 DEF ClaimDispatch
  <2>2. CASE run[s].d = d
    <3>1. AtWorkOn(d)' \subseteq AtWorkOn(d) \cup {s}
      BY <1>0, <2>1 DEF AtWorkOn, RunState
    <3>2. /\ Open(d)' = 0
          /\ dispatch'[d].attempts = dispatch[d].attempts + 1
          /\ ledger'[d].deferrals = ledger[d].deferrals
          /\ ledger'[d].reclaims = ledger[d].reclaims + 1 - Open(d)
      BY <1>0, <1>7, <2>2 DEF ClaimDispatch, Claimable, NextAttempt, Open, Row, Entries
    <3>3. ASSUME dispatch'[d].attempts >= MaxAttempts
          PROVE  MayRetry(d)' \subseteq MayRetry(d)
      <4>1. run'[s].n = dispatch'[d].attempts
        BY <1>0, <2>1, <2>2, <3>2 DEF NextAttempt, RunState
      <4>2. dispatch'[d].attempts \in Nat /\ MaxAttempts \in Nat
        BY <1>0, <3>2, ConstantsAssumption DEF Row
      <4>3. \A r \in Runs \ {s} : run'[r] = run[r]
        BY <1>0, <2>1
      <4> QED BY <3>3, <4>1, <4>2, <4>3 DEF MayRetry, AtWorkOn
    <3> QED BY <3>1, <3>2, <3>3 DEF BudgetStep, BudgetClaimed
  <2>3. CASE run[s].d # d
    <3>1. Fewer
      BY <1>0, <2>1, <2>3 DEF AtWorkOn, MayRetry, RunState
    <3>2. Open(d)' = Open(d) /\ CausesKept(d) /\ dispatch'[d] = dispatch[d]
      BY <1>0, <1>7, <2>3 DEF ClaimDispatch, Open, CausesKept, Entries
    <3> QED BY <1>0, <3>1, <3>2 DEF BudgetStep, BudgetKept
  <2> QED BY <2>2, <2>3
<1>8. ASSUME NEW s \in Runs,
             \/ ClaimNothing(s) \/ EnqueueRetryWake(s) \/ FailTerminally(s)
             \/ MarkSentAndReconcile(s)
      PROVE  BudgetStep(d)
  <2>1. Goto(s, "done") /\ UNCHANGED ledger
    BY <1>8 DEF ClaimNothing, EnqueueRetryWake, FailTerminally, MarkSentAndReconcile
  <2>2. Fewer
    BY <1>0, <2>1 DEF Goto, AtWorkOn, MayRetry, Working, RunState
  <2>3. Open(d)' <= Open(d) /\ dispatch'[d].attempts = dispatch[d].attempts
    <3>1. CASE UNCHANGED dispatch
      BY <1>0, <3>1 DEF Open
    <3>2. CASE MarkSentAndReconcile(s)
      BY <1>0, <3>2 DEF MarkSentAndReconcile, Open, Row
    <3>3. CASE FailTerminally(s)
      <4>1. /\ dispatch'[d].attempts = dispatch[d].attempts
            /\ dispatch'[d] = dispatch[d] \/ dispatch'[d].status = "failed"
        BY <1>0, <3>3 DEF FailTerminally, MarkFailed, Row
      <4> QED BY <1>0, <4>1 DEF Open
    <3> QED BY <1>8, <3>1, <3>2, <3>3 DEF ClaimNothing, EnqueueRetryWake
  <2> QED BY <2>1, <2>2, <2>3 DEF BudgetStep, BudgetKept, CausesKept
<1>9. ASSUME NEW s \in Runs,
             \/ RevalidateFails(s) \/ MetaRefuses(s) \/ MetaAnswerLost(s)
             \/ PersistFails(s) \/ MetaAccepts(s)
      PROVE  BudgetStep(d)
  <2>1. run[s].pc \in Working /\ UNCHANGED dispatch
    BY <1>9 DEF RevalidateFails, MetaRefuses, MetaAnswerLost, PersistFails, MetaAccepts,
                Working
  <2>2. CausesKept(d)
    <3>1. CASE RevalidateFails(s) \/ MetaRefuses(s) \/ PersistFails(s)
      BY <1>0, <3>1 DEF RevalidateFails, MetaRefuses, PersistFails, CausesKept, Entries
    <3>2. CASE MetaAccepts(s)
      BY <1>0, <3>2 DEF MetaAccepts, CausesKept, Entries
    <3>3. CASE MetaAnswerLost(s)
      BY <1>0, <3>3 DEF MetaAnswerLost, CausesKept, Entries
    <3> QED BY <1>9, <3>1, <3>2, <3>3
  <2>3. \A r \in Runs : /\ run'[r].d = run[r].d /\ run'[r].n = run[r].n
                        /\ run'[r].pc \in Working => run[r].pc \in Working
    <3>1. \/ Goto(s, "accepted")
          \/ \E t : run' = [run EXCEPT ![s].pc = "failing", ![s].terminal = t]
      BY <1>9 DEF RevalidateFails, MetaRefuses, MetaAnswerLost, PersistFails, MetaAccepts
    <3> QED BY <1>0, <2>1, <3>1 DEF Goto, RunState
  <2>4. Fewer
    BY <2>3 DEF AtWorkOn, MayRetry
  <2> QED BY <1>0, <2>1, <2>2, <2>4 DEF BudgetStep, BudgetKept, Open
<1>10. ASSUME NEW s \in Runs, DeferForRateLimit(s) \/ ScheduleRetry(s)
       PROVE  BudgetStep(d)
  <2> DEFINE b == run[s].d
  <2>1. /\ run[s].pc \in Working /\ b \in Dispatches
        /\ Goto(s, "waking") /\ MarkRetryScheduled(b)
    BY <1>0, <1>10 DEF DeferForRateLimit, ScheduleRetry, Working
  <2>2. dispatch'[d].attempts = dispatch[d].attempts
    BY <1>0, <2>1 DEF MarkRetryScheduled, Row
  <2>3. /\ AtWorkOn(d)' \subseteq AtWorkOn(d) \ {s}
        /\ MayRetry(d)' \subseteq MayRetry(d) \ {s}
    BY <1>0, <2>1 DEF Goto, AtWorkOn, MayRetry, Working, RunState
  <2>4. CASE b # d
    <3>1. Open(d)' = Open(d)
      BY <1>0, <2>1, <2>4 DEF MarkRetryScheduled, Open
    <3>2. CausesKept(d)
      BY <1>0, <1>10, <2>4 DEF DeferForRateLimit, ScheduleRetry, CausesKept, Entries
    <3> QED BY <1>0, <2>2, <2>3, <3>1, <3>2 DEF BudgetStep, BudgetKept
  <2>5. CASE b = d /\ DeferForRateLimit(s)
    <3>1. /\ ledger'[d].reclaims = ledger[d].reclaims
          /\ ledger'[d].deferrals = ledger[d].deferrals + 1
      BY <1>0, <2>5 DEF DeferForRateLimit, Entries
    <3> QED BY <2>1, <2>2, <2>3, <2>5, <3>1 DEF BudgetStep, BudgetDeferred, AtWorkOn
  <2>6. CASE b = d /\ ScheduleRetry(s)
    <3>1. s \in MayRetry(d)
      BY <2>1, <2>6 DEF ScheduleRetry, RetriesAreBelowMax, MayRetry, AtWorkOn
    <3>2. CausesKept(d)
      BY <2>6 DEF ScheduleRetry, CausesKept
    <3> QED BY <2>2, <2>3, <3>1, <3>2 DEF BudgetStep, BudgetRetried
  <2> QED BY <1>10, <2>4, <2>5, <2>6
<1> QED
  BY <1>1, <1>2, <1>3, <1>4, <1>5, <1>6, <1>7, <1>8, <1>9, <1>10
     DEF Next, ExecuteDispatch, vars

(* Only a failure below MaxAttempts is retried.                            *)
LEMMA RetriesStayBelowMax ==
  TypeOK /\ RetriesAreBelowMax /\ [Next]_vars => RetriesAreBelowMax'
<1> SUFFICES ASSUME TypeOK, RetriesAreBelowMax, [Next]_vars, NEW r \in Runs,
                    run'[r].pc = "failing", ~run'[r].terminal
             PROVE  run'[r].n < MaxAttempts
  BY DEF RetriesAreBelowMax
<1> USE DEF At
<1>0. /\ run \in [Runs -> RunState]
      /\ MaxAttempts \in Nat
  BY ConstantsAssumption DEF TypeOK
<1>1. CASE run'[r] = run[r]
  BY <1>1 DEF RetriesAreBelowMax
<1>2. ASSUME NEW b \in Dispatches, JobLockLost(b) PROVE run'[r].n < MaxAttempts
  <2>1. run'[r].pc = run[r].pc /\ run'[r].terminal = run[r].terminal
        /\ run'[r].n = run[r].n
    BY <1>0, <1>2 DEF JobLockLost, RunState
  <2> QED BY <2>1 DEF RetriesAreBelowMax
<1>3. ASSUME NEW s \in Runs,
             MetaRefuses(s) \/ MetaAnswerLost(s) \/ PersistFails(s)
      PROVE  run'[r].n < MaxAttempts
  <2>1. PICK retryable \in BOOLEAN :
          run' = [run EXCEPT ![s].pc = "failing",
                    ![s].terminal = IsTerminalOutboundFailure(run[s].n, retryable)]
    BY <1>3 DEF MetaRefuses, MetaAnswerLost, PersistFails
  <2>2. CASE r = s
    <3>1. ~IsTerminalOutboundFailure(run[s].n, retryable) /\ run'[s].n = run[s].n
      BY <1>0, <2>1, <2>2 DEF RunState
    <3> QED BY <1>0, <2>2, <3>1 DEF IsTerminalOutboundFailure, RunState
  <2>3. CASE r # s
    BY <1>0, <1>1, <2>1, <2>3
  <2> QED BY <2>2, <2>3
<1>4. ASSUME NEW s \in Runs, RevalidateFails(s) PROVE run'[r].n < MaxAttempts
  BY <1>0, <1>1, <1>4 DEF RevalidateFails, RunState
<1>5. ASSUME NEW s \in Runs,
             \/ ClaimDispatch(s) \/ ClaimNothing(s) \/ DeferForRateLimit(s)
             \/ MetaAccepts(s) \/ MarkSentAndReconcile(s) \/ FailTerminally(s)
             \/ ScheduleRetry(s) \/ EnqueueRetryWake(s) \/ FinishJob(s) \/ RunDies(s)
             \/ \E b \in Dispatches : TakeJob(s, b)
      PROVE  run'[r] = run[r]
  <2>1. CASE FinishJob(s) \/ RunDies(s)
    BY <1>0, <2>1 DEF FinishJob, RunDies, IdleRun
  <2>2. ASSUME NEW b \in Dispatches, TakeJob(s, b) PROVE run'[r] = run[r]
    BY <1>0, <2>2 DEF TakeJob, IdleRun
  <2>3. CASE ClaimDispatch(s)
    BY <1>0, <2>3 DEF ClaimDispatch, RunState
  <2>4. CASE \/ ClaimNothing(s) \/ DeferForRateLimit(s) \/ MetaAccepts(s)
             \/ MarkSentAndReconcile(s) \/ FailTerminally(s) \/ ScheduleRetry(s)
             \/ EnqueueRetryWake(s)
    <3>1. \E pc \in Steps \ {"failing"} : Goto(s, pc)
      BY <2>4 DEF ClaimNothing, DeferForRateLimit, MetaAccepts, MarkSentAndReconcile,
           FailTerminally, ScheduleRetry, EnqueueRetryWake, Steps
    <3> QED BY <1>0, <3>1 DEF Goto, RunState
  <2> QED BY <1>5, <2>1, <2>2, <2>3, <2>4
<1>6. ASSUME NEW b \in Dispatches,
             \/ QueueOutbound(b) \/ WakeQueued(b) \/ PromoteDelayed(b) \/ JobStalls(b)
             \/ LeaseExpires(b) \/ LeaseOverrun(b) \/ BecomesDue(b)
             \/ RecoveryWake(b) \/ Receipt(b)
      PROVE  UNCHANGED run
  BY <1>6 DEF QueueOutbound, WakeQueued, PromoteDelayed, JobStalls, LeaseExpires,
              LeaseOverrun, BecomesDue, RecoveryWake, Receipt
<1>7. RecoveryScan => UNCHANGED run
  BY DEF RecoveryScan
<1> QED
  BY <1>1, <1>2, <1>3, <1>4, <1>5, <1>6, <1>7 DEF Next, ExecuteDispatch, vars

(* The attempts of a dispatch exceed MaxAttempts by no more than reclaimed *)
(* leases and rate-limit deferrals account for (AttemptsHaveACause).       *)
THEOREM AttemptsAlwaysHaveACause == Spec => []AttemptsHaveACause
<1>1. Init => BudgetInv
  <2> SUFFICES ASSUME Init PROVE BudgetInv
    OBVIOUS
  <2>1. RetriesAreBelowMax
    BY DEF Init, RetriesAreBelowMax, IdleRun
  <2>2. ASSUME NEW d \in Dispatches
        PROVE  /\ AtWorkOn(d) = {} /\ Open(d) = 1 /\ ledger[d].reclaims = 0
               /\ ~(dispatch[d].attempts >= MaxAttempts)
    BY ConstantsAssumption
       DEF Init, AtWorkOn, Open, NoRow, IdleRun, EmptyLedger, Working
  <2> QED BY <2>1, <2>2, FS_EmptySet DEF BudgetInv
<1>2. TypeOK /\ BudgetInv /\ [Next]_vars => BudgetInv'
  <2> SUFFICES ASSUME TypeOK, BudgetInv, [Next]_vars, NEW d \in Dispatches
               PROVE  /\ Cardinality(AtWorkOn(d)') + Open(d)' <= 1 + ledger'[d].reclaims
                      /\ dispatch'[d].attempts >= MaxAttempts =>
                           dispatch'[d].attempts + Cardinality(MayRetry(d)') + Open(d)'
                             <= MaxAttempts + ledger'[d].reclaims + ledger'[d].deferrals
    BY RetriesStayBelowMax DEF BudgetInv
  <2> DEFINE W == AtWorkOn(d)
             V == AtWorkOn(d)'
             M == MayRetry(d)
             N == MayRetry(d)'
  <2>1. /\ ledger[d] \in Entries /\ ledger'[d] \in Entries
        /\ Open(d) \in {0, 1} /\ Open(d)' \in {0, 1}
        /\ dispatch[d].attempts \in Nat /\ dispatch'[d].attempts \in Nat
        /\ MaxAttempts \in Nat
        /\ W \in SUBSET Runs /\ V \in SUBSET Runs
        /\ M \subseteq W /\ N \subseteq V
    BY TypeNext, ConstantsAssumption DEF TypeOK, Row, Open, AtWorkOn, MayRetry
  <2>2. /\ Cardinality(W) \in Nat /\ Cardinality(V) \in Nat
        /\ V \subseteq W => Cardinality(V) <= Cardinality(W)
        /\ (\E r \in Runs : V \subseteq W \cup {r}) => Cardinality(V) <= Cardinality(W) + 1
        /\ \A r \in W : V \subseteq W \ {r} => Cardinality(V) <= Cardinality(W) - 1
    BY <2>1, RunSets
  <2>3. M \in SUBSET Runs /\ N \in SUBSET Runs
    BY <2>1
  <2>4. /\ Cardinality(M) \in Nat /\ Cardinality(N) \in Nat
        /\ Cardinality(M) <= Cardinality(W)
        /\ N \subseteq M => Cardinality(N) <= Cardinality(M)
        /\ (\E r \in M : N \subseteq M \ {r}) => Cardinality(N) <= Cardinality(M) - 1
    BY <2>1, <2>3, RunSets
  <2>5. /\ Cardinality(W) + Open(d) <= 1 + ledger[d].reclaims
        /\ dispatch[d].attempts >= MaxAttempts =>
             dispatch[d].attempts + Cardinality(M) + Open(d)
               <= MaxAttempts + ledger[d].reclaims + ledger[d].deferrals
    BY DEF BudgetInv
  <2> HIDE DEF W, V, M, N
  <2>6. CASE BudgetKept(d)
    BY <2>1, <2>2, <2>4, <2>5, <2>6 DEF BudgetKept, CausesKept, Entries, W, V, M, N
  <2>7. CASE BudgetClaimed(d)
    BY <2>1, <2>2, <2>4, <2>5, <2>7 DEF BudgetClaimed, Entries, W, V, M, N
  <2>8. CASE BudgetRetried(d)
    <3>1. /\ Cardinality(V) <= Cardinality(W) - 1
          /\ Cardinality(N) <= Cardinality(M) - 1
      BY <2>1, <2>2, <2>4, <2>8 DEF BudgetRetried, W, V, M, N
    <3> QED BY <2>1, <2>2, <2>4, <2>5, <2>8, <3>1
            DEF BudgetRetried, CausesKept, Entries, W, V, M, N
  <2>9. CASE BudgetDeferred(d)
    BY <2>1, <2>2, <2>4, <2>5, <2>9 DEF BudgetDeferred, Entries, W, V, M, N
  <2>10. BudgetStep(d)
    BY BudgetSteps DEF BudgetInv
  <2> QED BY <2>6, <2>7, <2>8, <2>9, <2>10 DEF BudgetStep
<1>3. TypeOK /\ BudgetInv => AttemptsHaveACause
  <2> SUFFICES ASSUME TypeOK, BudgetInv, NEW d \in Dispatches
               PROVE  dispatch[d].attempts
                        <= MaxAttempts + ledger[d].reclaims + ledger[d].deferrals
    BY DEF AttemptsHaveACause
  <2>1. /\ ledger[d] \in Entries /\ Open(d) \in {0, 1} /\ MaxAttempts \in Nat
        /\ dispatch[d].attempts \in Nat /\ MayRetry(d) \in SUBSET Runs
    BY ConstantsAssumption DEF TypeOK, Row, Open, MayRetry, AtWorkOn
  <2>2. Cardinality(MayRetry(d)) \in Nat
    BY <2>1, RunSets
  <2> QED BY <2>1, <2>2 DEF BudgetInv, Entries
<1> QED BY <1>1, <1>2, <1>3, TypeCorrect, PTL DEF Spec

=============================================================================
