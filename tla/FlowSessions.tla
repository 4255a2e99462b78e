---------------------------- MODULE FlowSessions ----------------------------
(***************************************************************************)
(* The flow sessions of one conversation among those who change them: the  *)
(* router that an inbound message starts (start/events.ts,                 *)
(* flow_router_service.ts), the buffer and the singleton job of an advance *)
(* (flow_inbound_buffer_service.ts, enqueue_flow_advance.ts), the engine   *)
(* that runs it (flow_execution_engine.ts), agents who take over, reply or *)
(* resume the automation (conversation_ai_mode_service.ts), and the cron   *)
(* that expires sessions (flow_session_lifecycle_service.ts).              *)
(*                                                                         *)
(* What the nodes do is in FlowEngine; here a node goes on, waits, ends or *)
(* hands over.  Every update of a session is by its id alone.              *)
(***************************************************************************)
EXTENDS Naturals, FiniteSetsExt, JobQueue

CONSTANTS
  NumSessions,  \* bound on the rows of flow_sessions, in order of creation
  NumMessages,  \* inbound messages, in the order they arrive
  Taps,         \* those that are interactive replies
  ExpiryModes,  \* what the flows' onExpiry may be
  None,
  MaxRequests,  \* bound on requests of agents, for TLC
  MaxFaults     \* bound on crashes and failing calls to Redis, for TLC

Sessions == 1..NumSessions
Messages == 1..NumMessages

ASSUME ConstantsAssumption ==
  /\ {NumSessions, NumMessages, MaxRequests, MaxFaults} \subseteq Nat
  /\ Taps \subseteq Messages
  /\ ExpiryModes \subseteq {"RESTART", "RESUME"}
  /\ None \notin Nat

VARIABLES
  mode,     \* aiMode of the conversation
  session,  \* the rows
  inbound,  \* the messages and their listeners
  buffer,   \* the texts in Redis
  job,      \* the job under the key of the conversation
  engine,   \* the advance of the active job, unless its worker died
  agent,    \* a request of an agent
  cron,     \* the sweep of expired sessions
  history,  \* what excuses what
  requests, faults

vars == <<mode, session, inbound, buffer, job, engine, agent, cron, history,
          requests, faults>>

-----------------------------------------------------------------------------
Live == {"ACTIVE", "WAITING_FOR_INPUT"}
Ended == {"COMPLETED", "TERMINATED"}
Statuses == {"none", "PAUSED_FOR_HUMAN"} \cup Live \cup Ended
Modes == {"AI_AUTO", "HANDOVER", "HUMAN_ACTIVE"}
Intents == Sessions \cup {0} \* the session to resume; 0 starts one
NoPayload == [m |-> None, intent |-> None]
KeyStates == JobStates \cup {"finished"} \* a job that BullMQ only remembers
Payloads == {NoPayload} \cup [m: Messages, intent: Intents]
IdleEngine == [pc |-> "idle", i |-> None, seen |-> "none", resumes |-> FALSE]
IdleCron == [pc |-> "idle", i |-> None]

TypeOK ==
  /\ mode \in Modes
  /\ session \in [Sessions -> [status: Statuses, expired: BOOLEAN]]
  /\ inbound \in [Messages -> [pc: {"none", "decided", "pushed", "removed", "done"},
                               intent: Intents \cup {None}]]
  /\ buffer \subseteq Messages \ Taps
  /\ job \in [state: KeyStates, payload: Payloads]
  /\ engine \in [pc: {"idle", "taken", "drained", "resolved", "heard", "looping",
                      "pausing", "done"},
                 i: Sessions \cup {None},
                 seen: Statuses,      \* the status the advance has read
                 resumes: BOOLEAN]
  /\ engine.pc # "idle" => job.state = "active"
  /\ agent \in [pc: {"idle", "claiming", "pausing", "cancelling", "removing",
                     "releasing", "terminating", "clearing"}, seen: Modes]
  /\ cron \in [pc: {"idle", "listed", "checked"}, i: Sessions \cup {None}]
  /\ history \in [missed: SUBSET Messages, raced: BOOLEAN, overtaken: SUBSET Sessions]
  /\ {requests, faults} \subseteq Nat

Init ==
  /\ mode = "AI_AUTO"
  /\ session = [i \in Sessions |-> [status |-> "none", expired |-> FALSE]]
  /\ inbound = [m \in Messages |-> [pc |-> "none", intent |-> None]]
  /\ buffer = {}
  /\ job = [state |-> "none", payload |-> NoPayload]
  /\ engine = IdleEngine
  /\ agent = [pc |-> "idle", seen |-> "AI_AUTO"]
  /\ cron = IdleCron
  /\ history = [missed |-> {}, raced |-> FALSE, overtaken |-> {}]
  /\ requests = 0
  /\ faults = 0

-----------------------------------------------------------------------------
Fault == faults < MaxFaults /\ faults' = faults + 1
In(statuses) == {i \in Sessions : session[i].status \in statuses}
Newest(set) == IF set = {} THEN 0 ELSE Max(set)
SetStatus(i, status) ==
  session' = [session EXCEPT ![i] = [status |-> status, expired |-> FALSE]]
Fresh == {i \in Sessions : \A j \in i..NumSessions : session[j].status = "none"}

(* History: somebody ends a session that another one is about to advance.  *)
Intended(i) ==
  \E m \in Messages : /\ inbound[m].intent = i
                      /\ inbound[m].pc \in {"decided", "pushed", "removed"}
Advanced(i) == engine.i = i \/ (job.payload.intent = i /\ engine.pc # "done")
HeldBesides(who, i) == Intended(i) \/ (who # "engine" /\ Advanced(i))
Overtakes(who, set) ==
  history' = [history EXCEPT !.overtaken = @ \cup {i \in set : HeldBesides(who, i)}]

(* A text in the buffer is served by its own listener, by a job that merges*)
(* the burst, or by a listener that has removed such a job to add its own. *)
WillMerge ==
  /\ job.payload.m \notin Taps
  /\ \/ job.state \in {"waiting", "delayed"}
     \/ job.state = "active" /\ engine.pc \in {"idle", "taken"}
Replacing == \E m \in Messages \ Taps : inbound[m].pc = "removed"
Unserved ==
  IF WillMerge \/ Replacing THEN {}
  ELSE {m \in buffer : inbound[m].pc \notin {"pushed", "removed"}}

(* History: the lapses of the code that leave texts unserved.              *)
Misses(set) == history' = [history EXCEPT !.missed = @ \cup set]
Lapse == Misses(Unserved')

-----------------------------------------------------------------------------
(* router.decide: nothing while a human has the conversation or a session  *)
(* is paused for one.  inboundDecision ends an expired session whose flow  *)
(* restarts.  A start needs a trigger that matches.                        *)
Decide(m) ==
  LET open == Newest(In(Live \cup {"PAUSED_FOR_HUMAN"}))
      Intend(intent) == inbound' = [inbound EXCEPT ![m] =
                                     [pc |-> "decided", intent |-> intent]]
      DoNothing == inbound' = [inbound EXCEPT ![m].pc = "done"] IN
  /\ inbound[m].pc = "none" /\ (m > 1 => inbound[m - 1].pc # "none")
  /\ \/ /\ mode # "AI_AUTO" \/ open \in In({"PAUSED_FOR_HUMAN"})
        /\ DoNothing
        /\ UNCHANGED <<session, history>>
     \/ /\ mode = "AI_AUTO" /\ open = 0
        /\ Intend(0) \/ DoNothing
        /\ UNCHANGED <<session, history>>
     \/ /\ mode = "AI_AUTO" /\ open \in In(Live)
        /\ session[open].expired => "RESUME" \in ExpiryModes
        /\ Intend(open)
        /\ UNCHANGED <<session, history>>
     \/ /\ mode = "AI_AUTO" /\ open \in In(Live)
        /\ session[open].expired /\ "RESTART" \in ExpiryModes
        /\ Intend(0) \/ DoNothing
        /\ SetStatus(open, "TERMINATED")
        /\ Overtakes("router", {open})
  /\ UNCHANGED <<mode, buffer, job, engine, agent, cron, requests, faults>>

Empties ==
  /\ buffer' = {}
  /\ history' = [history EXCEPT !.missed = {}]

(* A text joins the burst, a tap drops it; Redis may fail either, and the  *)
(* listener goes on.                                                       *)
Push(m) ==
  /\ inbound[m].pc = "decided"
  /\ inbound' = [inbound EXCEPT ![m].pc = "pushed"]
  /\ \/ /\ IF m \in Taps THEN Empties
           ELSE /\ buffer' = buffer \cup {m}
                /\ Misses(IF agent.pc = "removing" THEN {m} ELSE {})
        /\ UNCHANGED faults
     \/ Fault /\ UNCHANGED <<buffer, history>>
  /\ UNCHANGED <<mode, session, job, engine, agent, cron, requests>>

NoJob == [state |-> "none", payload |-> NoPayload]
Removed == IF RemoveJob(job.state) = "none" THEN NoJob ELSE job

(* Driver.enqueue removes the earlier job of the conversation, unless it is*)
(* active ...                                                              *)
RemoveEarlier(m) ==
  /\ inbound[m].pc = "pushed"
  /\ inbound' = [inbound EXCEPT ![m].pc = "removed"]
  /\ job' = Removed
  /\ UNCHANGED <<mode, session, buffer, engine, agent, cron, requests, faults>>
  /\ IF m \in Taps THEN Lapse ELSE UNCHANGED history

Enqueued(m) == inbound' = [inbound EXCEPT ![m] = [pc |-> "done", intent |-> None]]
Wake(m) == IF m \in Taps THEN "waiting" ELSE "delayed"

(* Mutant: the job that is added replaces one that is active.              *)
AddReplaces(m) ==
  /\ inbound[m].pc = "removed"
  /\ Enqueued(m)
  /\ job' = [state |-> Wake(m), payload |-> [m |-> m, intent |-> inbound[m].intent]]
  /\ UNCHANGED <<mode, session, buffer, engine, agent, cron, requests, faults>>
  /\ Lapse

(* ... and then adds its own, which schedules nothing while there is one.  *)
Add(m) ==
  /\ inbound[m].pc = "removed"
  /\ Enqueued(m)
  /\ job' = IF AddJob(job.state, Wake(m)) = job.state THEN job
            ELSE [state |-> AddJob(job.state, Wake(m)),
                  payload |-> [m |-> m, intent |-> inbound[m].intent]]
  /\ UNCHANGED <<mode, session, buffer, engine, agent, cron, requests, faults>>
  /\ IF job.state = "none" THEN UNCHANGED history ELSE Lapse

(* Either call may fail, the removal also when the worker has taken the job*)
(* meanwhile; enqueueFlowAdvanceSession logs it.                           *)
EnqueueFails(m) ==
  /\ inbound[m].pc \in {"pushed", "removed"}
  /\ Fault \/ (inbound[m].pc = "pushed" /\ job.state = "active" /\ UNCHANGED faults)
  /\ Enqueued(m)
  /\ UNCHANGED <<mode, session, buffer, job, engine, agent, cron, requests>>
  /\ Lapse

-----------------------------------------------------------------------------
(* The worker takes the job ...                                            *)
TakeJob ==
  /\ job.state \in {"waiting", "delayed"}
  /\ job' = [job EXCEPT !.state = "active"]
  /\ engine' = [IdleEngine EXCEPT !.pc = "taken"]
  /\ UNCHANGED <<mode, session, inbound, buffer, agent, cron, history, requests, faults>>

(* ... merges the burst, unless the job is for a tap or Redis fails ...    *)
Drain ==
  /\ engine.pc = "taken"
  /\ engine' = [engine EXCEPT !.pc = "drained"]
  /\ UNCHANGED <<mode, session, inbound, job, agent, cron, requests>>
  /\ \/ job.payload.m \in Taps /\ UNCHANGED <<buffer, history, faults>>
     \/ job.payload.m \notin Taps /\ Empties /\ UNCHANGED faults
     \/ job.payload.m \notin Taps /\ Fault /\ UNCHANGED buffer /\ Lapse

(* The advance returns.                                                    *)
Returns == engine' = [IdleEngine EXCEPT !.pc = "done"]

(* Mutant: the lookup of a live session does not look at its status.       *)
ResolveReopens ==
  /\ engine.pc = "drained"
  /\ LET intent == job.payload.intent
         live == Newest({i \in Sessions \ Fresh : ~session[i].expired})
         Read(i, status) == engine' = [engine EXCEPT !.pc = "resolved", !.i = i,
                                         !.seen = status, !.resumes = intent # 0] IN
     \/ intent # 0 /\ Read(intent, session[intent].status) /\ UNCHANGED session
     \/ intent = 0 /\ live # 0 /\ Read(live, session[live].status) /\ UNCHANGED session
     \/ /\ intent = 0 /\ live = 0 /\ Fresh # {}
        /\ SetStatus(Min(Fresh), "ACTIVE")
        /\ Read(Min(Fresh), "ACTIVE")
     \/ intent = 0 /\ live = 0 /\ Returns /\ UNCHANGED session
  /\ UNCHANGED <<mode, inbound, buffer, job, agent, cron, history, requests, faults>>

(* ... and finds its session: the one to resume, whatever became of it, the*)
(* newest live one, or a new one if the version still has a trigger.       *)
Resolve ==
  /\ engine.pc = "drained"
  /\ LET intent == job.payload.intent
         live == Newest({i \in In(Live) : ~session[i].expired})
         Read(i, status) == engine' = [engine EXCEPT !.pc = "resolved", !.i = i,
                                         !.seen = status, !.resumes = intent # 0] IN
     \/ intent # 0 /\ Read(intent, session[intent].status) /\ UNCHANGED session
     \/ intent = 0 /\ live # 0 /\ Read(live, session[live].status) /\ UNCHANGED session
     \/ /\ intent = 0 /\ live = 0 /\ Fresh # {}
        /\ SetStatus(Min(Fresh), "ACTIVE")
        /\ Read(Min(Fresh), "ACTIVE")
     \/ intent = 0 /\ live = 0 /\ Returns /\ UNCHANGED session
  /\ UNCHANGED <<mode, inbound, buffer, job, agent, cron, history, requests, faults>>

(* #silenceIfHumanActive: pauses what is live, if a human is active; then  *)
(* the expiry of a session to resume, which is read again.                 *)
Hear ==
  LET i == engine.i
      Paused == [j \in Sessions |-> IF j \in In(Live)
                   THEN [session[j] EXCEPT !.status = "PAUSED_FOR_HUMAN"] ELSE session[j]]
      Expired == engine.resumes /\ session[i].expired IN
  /\ engine.pc = "resolved"
  /\ \/ /\ engine.seen = "PAUSED_FOR_HUMAN"
        /\ Returns /\ UNCHANGED <<session, history>>
     \/ /\ engine.seen # "PAUSED_FOR_HUMAN" /\ mode = "HUMAN_ACTIVE"
        /\ session' = Paused
        /\ Returns /\ UNCHANGED history
     \/ /\ engine.seen # "PAUSED_FOR_HUMAN" /\ mode # "HUMAN_ACTIVE"
        /\ ~Expired
        /\ engine' = [engine EXCEPT !.pc = "heard"] /\ UNCHANGED <<session, history>>
     \/ /\ engine.seen # "PAUSED_FOR_HUMAN" /\ mode # "HUMAN_ACTIVE"
        /\ Expired /\ "RESUME" \in ExpiryModes
        /\ session' = [session EXCEPT ![i].expired = FALSE]
        /\ IF i \in In(Live)
             THEN engine' = [engine EXCEPT !.pc = "heard", !.seen = session[i].status]
             ELSE Returns
        /\ UNCHANGED history
     \/ /\ engine.seen # "PAUSED_FOR_HUMAN" /\ mode # "HUMAN_ACTIVE"
        /\ Expired /\ "RESTART" \in ExpiryModes
        /\ SetStatus(i, "TERMINATED") /\ Overtakes("engine", {i})
        /\ Returns
  /\ UNCHANGED <<mode, inbound, buffer, job, agent, cron, requests, faults>>

(* What a reply or a node does: goes on, waits, ends, or stamps a handover *)
(* on a conversation in automation.                                        *)
Outcome ==
  LET i == engine.i
      Goes(pc) == engine' = [IdleEngine EXCEPT !.pc = pc, !.i = i] IN
  \/ SetStatus(i, "ACTIVE") /\ Goes("looping") /\ UNCHANGED <<mode, history>>
  \/ SetStatus(i, "WAITING_FOR_INPUT") /\ Returns /\ UNCHANGED <<mode, history>>
  \/ \E status \in Ended : SetStatus(i, status) /\ Returns /\ Overtakes("engine", {i})
     /\ UNCHANGED mode
  \/ /\ mode' = IF mode = "AI_AUTO" THEN "HANDOVER" ELSE mode
     /\ Goes("pausing")
     /\ UNCHANGED <<session, history>>

(* A waiting session consumes the reply, perhaps without an update; any    *)
(* other runs its node, and the next until the steps of an advance are out.*)
Advance ==
  /\ engine.pc \in {"heard", "looping"}
  /\ \/ Outcome
     \/ /\ \/ engine.pc = "looping"
           \/ engine.pc = "heard" /\ engine.seen = "WAITING_FOR_INPUT" /\ engine.resumes
        /\ Returns
        /\ UNCHANGED <<mode, session, history>>
  /\ UNCHANGED <<inbound, buffer, job, agent, cron, requests, faults>>

(* After the handover was stamped, the session is paused.                  *)
PauseForHuman ==
  /\ engine.pc = "pausing"
  /\ SetStatus(engine.i, "PAUSED_FOR_HUMAN")
  /\ Returns
  /\ UNCHANGED <<mode, inbound, buffer, job, agent, cron, history, requests, faults>>

Finished == [state |-> "finished", payload |-> NoPayload]

(* The job completes, or fails where the advance throws; it is not tried   *)
(* again, and remembered for a while.                                      *)
JobEnds ==
  /\ \/ engine.pc = "done" /\ UNCHANGED faults
     \/ engine.pc \notin {"idle", "taken", "done"} /\ Fault
  /\ job' = Finished
  /\ engine' = IdleEngine
  /\ history' = [history EXCEPT !.raced = @ \/ engine.pc = "resolved"]
  /\ UNCHANGED <<mode, session, inbound, buffer, agent, cron, requests>>

Forgotten ==
  /\ job.state = "finished"
  /\ job' = NoJob
  /\ UNCHANGED <<mode, session, inbound, buffer, engine, agent, cron, history, requests, faults>>

(* A worker dies, perhaps when the advance has ended its session: its job  *)
(* stays active ...                                                        *)
WorkerDies ==
  /\ engine.pc # "idle"
  /\ Fault
  /\ engine' = IdleEngine
  /\ history' = [history EXCEPT !.raced = @ \/ engine.pc = "resolved",
                   !.overtaken = @ \cup {i \in In(Ended) : job.payload.intent = i}]
  /\ UNCHANGED <<mode, session, inbound, buffer, job, agent, cron, requests>>

(* ... until BullMQ finds it stalled: it waits again, or is failed if it   *)
(* stalled before.                                                         *)
JobStalls ==
  /\ job.state = "active" /\ engine.pc = "idle"
  /\ job' \in {[job EXCEPT !.state = "waiting"], Finished}
  /\ UNCHANGED <<mode, session, inbound, buffer, engine, agent, cron, requests, faults>>
  /\ Lapse

-----------------------------------------------------------------------------
(* takeover, onAgentReply, resume read the mode; an agent's reply to a     *)
(* conversation in automation without a live session only cancels.         *)
AgentActs ==
  /\ agent.pc = "idle"
  /\ requests < MaxRequests /\ requests' = requests + 1
  /\ \E pc \in {"claiming", "releasing", "cancelling"} :
       /\ pc = "cancelling" => mode = "AI_AUTO" /\
                               Newest(In(Live \cup {"PAUSED_FOR_HUMAN"})) \notin In(Live)
       /\ agent' = [pc |-> pc, seen |-> IF pc = "cancelling" THEN "AI_AUTO" ELSE mode]
  /\ UNCHANGED <<mode, session, inbound, buffer, job, engine, cron, history, faults>>

(* updateAiMode, from the mode that was read.                              *)
Move(from, to, pc) ==
  /\ agent.pc = from
  /\ mode' = IF mode = agent.seen THEN to ELSE mode
  /\ agent' = [pc |-> pc, seen |-> "AI_AUTO"]
  /\ UNCHANGED <<session, inbound, buffer, job, engine, cron, history, requests, faults>>

(* Mutant: an ACTIVE session is not paused.                                *)
PauseWaiting ==
  /\ agent.pc = "pausing"
  /\ agent' = [agent EXCEPT !.pc = "cancelling"]
  /\ session' = [i \in Sessions |-> IF i \in In({"WAITING_FOR_INPUT"})
                   THEN [session[i] EXCEPT !.status = "PAUSED_FOR_HUMAN"] ELSE session[i]]
  /\ history' = [history EXCEPT !.raced = @ \/ engine.pc \in {"heard", "looping", "pausing"}]
  /\ UNCHANGED <<mode, inbound, buffer, job, engine, cron, requests, faults>>

(* pauseActiveForConversation                                              *)
PauseLive ==
  /\ agent.pc = "pausing"
  /\ agent' = [agent EXCEPT !.pc = "cancelling"]
  /\ session' = [i \in Sessions |-> IF i \in In(Live)
                   THEN [session[i] EXCEPT !.status = "PAUSED_FOR_HUMAN"] ELSE session[i]]
  /\ history' = [history EXCEPT !.raced = @ \/ engine.pc \in {"heard", "looping", "pausing"}]
  /\ UNCHANGED <<mode, inbound, buffer, job, engine, cron, requests, faults>>

(* Mutant: the pending job is removed and its burst forgotten.             *)
CancelNothing ==
  /\ agent.pc = "cancelling"
  /\ agent' = [agent EXCEPT !.pc = "removing"]
  /\ UNCHANGED <<mode, session, inbound, buffer, job, engine, cron, history, requests, faults>>

(* #cancelPendingFlowAdvance drops the burst ...                           *)
Cancel ==
  /\ agent.pc = "cancelling"
  /\ agent' = [agent EXCEPT !.pc = "removing"]
  /\ \/ Empties /\ UNCHANGED faults
     \/ Fault /\ UNCHANGED buffer /\ Misses(buffer)
  /\ UNCHANGED <<mode, session, inbound, job, engine, cron, requests>>

(* ... and then removes the job, unless it is active; a failure is logged. *)
Remove ==
  /\ agent.pc = "removing"
  /\ agent' = [agent EXCEPT !.pc = "idle"]
  /\ \/ job' = Removed /\ UNCHANGED faults
     \/ UNCHANGED job /\ Fault
  /\ UNCHANGED <<mode, session, inbound, buffer, engine, cron, history, requests>>

(* terminatePausedForConversation                                          *)
TerminatePaused ==
  /\ agent.pc = "terminating"
  /\ agent' = [agent EXCEPT !.pc = "clearing"]
  /\ session' = [i \in Sessions |-> IF session[i].status = "PAUSED_FOR_HUMAN"
                   THEN [session[i] EXCEPT !.status = "TERMINATED"] ELSE session[i]]
  /\ Overtakes("agent", In({"PAUSED_FOR_HUMAN"}))
  /\ UNCHANGED <<mode, inbound, buffer, job, engine, cron, requests, faults>>

(* resume drops the burst.                                                 *)
Clear ==
  /\ agent.pc = "clearing"
  /\ agent' = [agent EXCEPT !.pc = "idle"]
  /\ \/ Empties /\ UNCHANGED faults
     \/ Fault /\ UNCHANGED <<buffer, history>>
  /\ UNCHANGED <<mode, session, inbound, job, engine, cron, requests>>

Agent ==
  \/ AgentActs
  \/ Move("claiming", "HUMAN_ACTIVE", "pausing")
  \/ Move("releasing", "AI_AUTO", "terminating")
  \/ PauseLive \/ Cancel \/ Remove \/ TerminatePaused \/ Clear

-----------------------------------------------------------------------------
TimePasses(i) ==
  /\ session[i].status # "none" /\ ~session[i].expired
  /\ session' = [session EXCEPT ![i].expired = TRUE]
  /\ UNCHANGED <<mode, inbound, buffer, job, engine, agent, cron, history, requests, faults>>

(* recoverExpiredSessions lists a live session that is expired ...         *)
CronLists(i) ==
  /\ cron.pc = "idle"
  /\ i \in In(Live) /\ session[i].expired
  /\ cron' = [pc |-> "listed", i |-> i]
  /\ UNCHANGED <<mode, session, inbound, buffer, job, engine, agent, history, requests, faults>>

(* ... which applyExpiry reads again for its expiry, whatever its status...*)
CronChecks ==
  /\ cron.pc = "listed"
  /\ cron' = IF session[cron.i].expired THEN [cron EXCEPT !.pc = "checked"] ELSE IdleCron
  /\ UNCHANGED <<mode, session, inbound, buffer, job, engine, agent, history, requests, faults>>

(* ... perhaps prompts, and then ends or refreshes.                        *)
CronUpdates ==
  /\ cron.pc = "checked"
  /\ cron' = IdleCron
  /\ \/ "RESTART" \in ExpiryModes /\ SetStatus(cron.i, "TERMINATED")
        /\ Overtakes("cron", {cron.i})
     \/ /\ "RESUME" \in ExpiryModes
        /\ session' = [session EXCEPT ![cron.i].expired = FALSE]
        /\ UNCHANGED history
  /\ UNCHANGED <<mode, inbound, buffer, job, engine, agent, requests, faults>>

-----------------------------------------------------------------------------
Next ==
  \/ \E m \in Messages : Decide(m) \/ Push(m) \/ RemoveEarlier(m) \/ Add(m) \/ EnqueueFails(m)
  \/ TakeJob \/ Drain \/ Resolve \/ Hear \/ Advance \/ PauseForHuman
  \/ JobEnds \/ Forgotten \/ WorkerDies \/ JobStalls
  \/ Agent
  \/ \E i \in Sessions : TimePasses(i) \/ CronLists(i)
  \/ CronChecks \/ CronUpdates

Spec == Init /\ [][Next]_vars

-----------------------------------------------------------------------------
(* No text is stranded: one that lies in the buffer has a listener or a job*)
(* to come that will merge it - unless an enqueue found a job that it could*)
(* not replace, failed, or was a tap's and removed the job of texts; or the*)
(* job stalled twice, the drain failed, or the text lay in the buffer when *)
(* an agent who cancels came to remove the job.                            *)
NoStrandedText == Unserved \subseteq history.missed

(* While a human is active no session is live, but for one that an advance *)
(* has just created and is about to pause - unless an advance was past its *)
(* check when the human took over, or died before it.                      *)
HumanKeepsTheConversation ==
  mode = "HUMAN_ACTIVE" /\ agent.pc = "idle" /\ ~history.raced =>
    \A i \in In(Live) : engine.pc = "resolved" /\ engine.i = i

(* A session that has ended stays so, although every update is by its id   *)
(* alone and jobs of dead workers run again - unless a listener, or a job  *)
(* or an advance of another, was about to advance it when it was ended, or *)
(* the worker that ended it died before its job was done.                  *)
EndedStaysEnded ==
  [][\A i \in Sessions \ history.overtaken :
       session[i].status \in Ended => session'[i].status \in Ended]_vars

=============================================================================
