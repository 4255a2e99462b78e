------------------------------ MODULE JobQueue ------------------------------
(***************************************************************************)
(* What the worker queue promises about one singleton key                  *)
(* (app/services/job_queue/drivers/bullmq_driver.ts).  A key is a BullMQ   *)
(* jobId, so at any moment there is at most one job under it, in one of    *)
(* the states below; "none" also stands for a completed or failed job that *)
(* BullMQ still remembers, because an enqueue, which removes before it     *)
(* adds, treats both alike.  (Where the removal and the addition are       *)
(* separate steps, FlowSessions tells the two apart.)                      *)
(***************************************************************************)

JobStates == {"none", "waiting", "delayed", "active"}

(* Driver.#removeReplaceableJob: every state but "active" is removed.      *)
RemoveJob(state) == IF state = "active" THEN "active" ELSE "none"

(* Queue.add of BullMQ: adding a jobId that still exists schedules nothing *)
AddJob(state, wake) == IF state = "none" THEN wake ELSE state

(* Driver.enqueue with a singletonKey; wake is "waiting", or "delayed" for *)
(* an option runAt that lies in the future.                                *)
EnqueueJob(state, wake) == AddJob(RemoveJob(state), wake)

(* An enqueue that Redis fails half-way: before the removal or after it.   *)
EnqueueFailure(state) == {state, RemoveJob(state)}

=============================================================================
