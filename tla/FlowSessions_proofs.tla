------------------------ MODULE FlowSessions_proofs ------------------------
(***************************************************************************)
(* Proofs about FlowSessions, for any number of sessions and messages, any *)
(* messages that are taps, and any way the flows expire.                   *)
(***************************************************************************)
EXTENDS FlowSessions, WellFoundedInduction, TLAPS

-----------------------------------------------------------------------------
(* The newest session of a set, and the oldest.                            *)
LEMMA LeastNumber ==
  ASSUME NEW T \in SUBSET Nat, T # {}
  PROVE  \E x \in T : \A y \in T : x <= y
<1>1. PICK x \in T : \A y \in T : ~(<<y, x>> \in OpToRel(<, Nat))
  BY NatLessThanWellFounded, WFMin
<1>2. \A y \in T : ~(y < x)
  BY <1>1 DEF OpToRel
<1> QED
  BY <1>2

(* Min finds a member,                                                     *)
LEMMA MinIsMember ==
  ASSUME NEW S \in SUBSET Sessions, S # {}
  PROVE  Min(S) \in S
<1>1. S \in SUBSET Nat
  BY ConstantsAssumption DEF Sessions
<1> QED
  BY <1>1, LeastNumber DEF Min

(* and so does Max.                                                        *)
LEMMA MaxIsMember ==
  ASSUME NEW S \in SUBSET Sessions, S # {}
  PROVE  Max(S) \in S
<1> DEFINE bounds == {k \in Nat : \A y \in S : y <= k}
<1>1. NumSessions \in bounds /\ S \subseteq Nat
  BY ConstantsAssumption DEF Sessions
<1>2. PICK x \in bounds : \A k \in bounds : x <= k
  <2> HIDE DEF bounds
  <2>1. bounds \in SUBSET Nat
    BY DEF bounds
  <2> QED BY <1>1, <2>1, LeastNumber
<1>3. x \in S
  <2> SUFFICES ASSUME x \notin S PROVE FALSE
    OBVIOUS
  <2>1. x \in Nat /\ \A y \in S : y \in Nat /\ y < x
    BY <1>1, <1>2
  <2>2. PICK y \in S : TRUE
    OBVIOUS
  <2>3. x - 1 \in Nat /\ \A z \in S : z <= x - 1
    BY <2>1, <2>2
  <2>4. x - 1 \in bounds
    BY <2>3
  <2> QED BY <1>2, <2>1, <2>4
<1> QED
  BY <1>1, <1>2, <1>3 DEF Max

-----------------------------------------------------------------------------
Rows == [status: Statuses, expired: BOOLEAN]
Inbounds == [pc: {"none", "decided", "pushed", "removed", "done"},
             intent: Intents \cup {None}]
Jobs == [state: KeyStates, payload: Payloads]
Engines == [pc: {"idle", "taken", "drained", "resolved", "heard", "looping", "pausing",
                 "done"},
            i: Sessions \cup {None}, seen: Statuses, resumes: BOOLEAN]
Agents == [pc: {"idle", "claiming", "pausing", "cancelling", "removing", "releasing",
                "terminating", "clearing"}, seen: Modes]
Crons == [pc: {"idle", "listed", "checked"}, i: Sessions \cup {None}]
Histories == [missed: SUBSET Messages, raced: BOOLEAN, overtaken: SUBSET Sessions]

(* TypeOK with its records named.                                          *)
Typed ==
  /\ mode \in Modes
  /\ session \in [Sessions -> Rows]
  /\ inbound \in [Messages -> Inbounds]
  /\ buffer \subseteq Messages \ Taps
  /\ job \in Jobs
  /\ engine \in Engines
  /\ engine.pc # "idle" => job.state = "active"
  /\ agent \in Agents
  /\ cron \in Crons
  /\ history \in Histories
  /\ {requests, faults} \subseteq Nat

(* Whoever acts on a session has one: a message that was decided and a job *)
(* to run intend one (or a new one), an advance past Resolve and a sweep   *)
(* past its list are in one.                                               *)
Acting == {"resolved", "heard", "looping", "pausing"}
HoldersAreReal ==
  /\ \A m \in Messages : inbound[m].pc \in {"decided", "pushed", "removed"} =>
       inbound[m].intent \in Intents
  /\ job.state \notin {"none", "finished"} => job.payload \in [m: Messages, intent: Intents]
  /\ engine.pc \in Acting => engine.i \in Sessions
  /\ cron.pc # "idle" => cron.i \in Sessions

(* While the job is being removed, the burst holds only what came meanwhile*)
RemovalMisses == agent.pc = "removing" => buffer \subseteq history.missed

(* HumanKeepsTheConversation, between the requests of agents too: a live   *)
(* session is the one that an advance has created, and did not find paused.*)
HumanIsUndisturbed ==
  mode = "HUMAN_ACTIVE" /\ agent.pc # "pausing" /\ ~history.raced =>
    /\ engine.pc \notin {"heard", "looping", "pausing"}
    /\ \A i \in In(Live) : /\ engine.pc = "resolved" /\ engine.i = i
                           /\ engine.seen # "PAUSED_FOR_HUMAN"

(* An ended session that nobody had in hand is in nobody's hands.          *)
EndedIsReleased ==
  \A i \in Sessions \ history.overtaken :
    session[i].status \in Ended => ~Intended(i) /\ ~Advanced(i)

(* The inductive invariant.                                                *)
IInv ==
  /\ Typed /\ HoldersAreReal /\ NoStrandedText /\ RemovalMisses
  /\ HumanIsUndisturbed /\ EndedIsReleased

-----------------------------------------------------------------------------
(* The ways a step changes the rows and the history.                       *)
LEMMA StatusIsSet ==
  ASSUME Typed, NEW i \in Sessions, NEW status \in Statuses, SetStatus(i, status)
  PROVE  /\ session' \in [Sessions -> Rows]
         /\ session'[i].status = status
         /\ \A j \in Sessions \ {i} : session'[j] = session[j]
<1> DEFINE new == [status |-> status, expired |-> FALSE]
<1>1. new \in Rows /\ new.status = status
  BY DEF Rows
<1>2. session' = [session EXCEPT ![i] = new]
  BY DEF SetStatus
<1> HIDE DEF new
<1> QED
  BY <1>1, <1>2 DEF Typed

(* The clock and the router change expiry alone.                           *)
LEMMA ExpiryIsSet ==
  ASSUME Typed, NEW i \in Sessions, NEW b \in BOOLEAN,
         session' = [session EXCEPT ![i].expired = b]
  PROVE  /\ session' \in [Sessions -> Rows]
         /\ \A j \in Sessions : session'[j].status = session[j].status
<1> DEFINE new == [session[i] EXCEPT !.expired = b]
<1>1. session[i] \in Rows
  BY DEF Typed
<1>2. new \in Rows /\ new.status = session[i].status
  BY <1>1 DEF Rows
<1>3. session' = [session EXCEPT ![i] = new]
  OBVIOUS
<1> HIDE DEF new
<1> QED
  BY <1>2, <1>3 DEF Typed

(* A pause leaves no session live and ended ones alone.                    *)
LEMMA LiveIsPaused ==
  ASSUME Typed,
         session' = [j \in Sessions |-> IF j \in In(Live)
                      THEN [session[j] EXCEPT !.status = "PAUSED_FOR_HUMAN"] ELSE session[j]]
  PROVE  /\ session' \in [Sessions -> Rows]
         /\ \A j \in Sessions : /\ session'[j].status \notin Live
                                /\ session'[j].status \in Ended => session'[j] = session[j]
<1>1. ASSUME NEW j \in Sessions
      PROVE  /\ session'[j] \in Rows
             /\ session'[j].status \notin Live
             /\ session'[j].status \in Ended => session'[j] = session[j]
  <2>1. session[j] \in Rows
    BY DEF Typed
  <2>2. CASE j \in In(Live)
    <3>1. session'[j] = [session[j] EXCEPT !.status = "PAUSED_FOR_HUMAN"]
      BY <2>2
    <3> QED BY <2>1, <3>1 DEF Rows, Statuses, Live, Ended
  <2>3. CASE j \notin In(Live)
    BY <2>1, <2>3 DEF In
  <2> QED BY <2>2, <2>3
<1>2. session' = [j \in Sessions |-> session'[j]]
  OBVIOUS
<1> QED
  BY <1>1, <1>2

(* A session that others hold is recorded as overtaken.                    *)
LEMMA OvertakesGrows ==
  ASSUME Typed, NEW who, NEW set, set \subseteq Sessions, Overtakes(who, set)
  PROVE  /\ history' \in Histories
         /\ history'.missed = history.missed /\ history'.raced = history.raced
         /\ history'.overtaken = history.overtaken \cup {i \in set : HeldBesides(who, i)}
  BY DEF Typed, Histories, Overtakes

-----------------------------------------------------------------------------
(* Resolve reads a session, and has created it if it changes one: a fresh  *)
(* row then, and no session intended.                                      *)
ResolvesTo(i, status) ==
  /\ engine' = [engine EXCEPT !.pc = "resolved", !.i = i, !.seen = status,
                              !.resumes = job.payload.intent # 0]
  /\ \/ /\ UNCHANGED session /\ status = session[i].status
        /\ job.payload.intent = i \/ status \in Live
     \/ /\ SetStatus(i, status) /\ status = "ACTIVE"
        /\ session[i].status = "none" /\ job.payload.intent = 0

(* It does so or it returns.                                               *)
LEMMA ResolvesASession ==
  ASSUME IInv, Resolve
  PROVE  \/ \E i \in Sessions, status \in Statuses : ResolvesTo(i, status)
         \/ Returns /\ UNCHANGED session
<1> DEFINE intent == job.payload.intent
           old == {i \in In(Live) : ~session[i].expired}
           Read(i, status) == engine' = [engine EXCEPT !.pc = "resolved", !.i = i,
                                           !.seen = status, !.resumes = intent # 0]
<1>1. intent \in Intents /\ old \subseteq Sessions /\ Fresh \subseteq Sessions
  <2>1. job.state = "active"
    BY DEF IInv, Typed, Resolve
  <2> QED BY <2>1 DEF IInv, HoldersAreReal, In, Fresh
<1>2. \A i \in Sessions : session[i].status \in Statuses
  BY DEF IInv, Typed, Rows
<1>3. CASE intent # 0 /\ Read(intent, session[intent].status) /\ UNCHANGED session
  BY <1>1, <1>2, <1>3 DEF Intents, ResolvesTo
<1>4. CASE /\ intent = 0 /\ Newest(old) # 0
           /\ Read(Newest(old), session[Newest(old)].status) /\ UNCHANGED session
  <2>1. Newest(old) \in old
    BY <1>1, <1>4, MaxIsMember DEF Newest
  <2>2. Newest(old) \in Sessions /\ session[Newest(old)].status \in Live
    BY <2>1 DEF In
  <2> HIDE DEF old
  <2> QED BY <1>2, <1>4, <2>2 DEF ResolvesTo
<1>5. CASE /\ intent = 0 /\ Fresh # {}
           /\ SetStatus(Min(Fresh), "ACTIVE") /\ Read(Min(Fresh), "ACTIVE")
  <2>1. Min(Fresh) \in Fresh
    BY <1>1, <1>5, MinIsMember
  <2>2. Min(Fresh) \in Sessions /\ session[Min(Fresh)].status = "none"
    BY <2>1, ConstantsAssumption DEF Fresh, Sessions
  <2>3. "ACTIVE" \in Statuses
    BY DEF Statuses, Live
  <2> QED BY <1>5, <2>2, <2>3 DEF ResolvesTo
<1> QED
  BY <1>3, <1>4, <1>5 DEF Resolve

(* None and 0 (a new session) are no sessions.                             *)
LEMMA NoneIsNoSession == None \notin Sessions /\ 0 \notin Sessions /\ 0 # None
  BY ConstantsAssumption DEF Sessions

(* An advance that has returned has no session in hand.                    *)
LEMMA ReturnsReleases ==
  ASSUME Returns
  PROVE  /\ engine' \in Engines /\ engine'.pc = "done"
         /\ \A i \in Sessions : ~Advanced(i)'
  BY NoneIsNoSession DEF Returns, IdleEngine, Advanced, Engines, Statuses

(* An advance that goes on keeps its session.                              *)
LEMMA GoesOn ==
  ASSUME Typed, engine.i \in Sessions, NEW pc \in Acting,
         engine' = [IdleEngine EXCEPT !.pc = pc, !.i = engine.i]
  PROVE  engine' \in Engines /\ engine'.pc = pc /\ engine'.i = engine.i
  BY DEF Typed, Engines, IdleEngine, Statuses, Acting

(* What the removal of the earlier job leaves.                             *)
LEMMA RemovedJob ==
  ASSUME Typed
  PROVE  /\ Removed \in Jobs
         /\ Removed = job \/ (job.state # "active" /\ Removed = NoJob)
  BY DEF Typed, Removed, RemoveJob, NoJob, NoPayload, Jobs, KeyStates, JobStates, Payloads

(* A lapse is recorded among the messages that were missed.                *)
LEMMA LapseIsTyped ==
  ASSUME Typed, buffer' \subseteq Messages, Lapse
  PROVE  /\ history' \in Histories /\ NoStrandedText'
         /\ history.missed \subseteq history'.missed
         /\ history'.raced = history.raced /\ history'.overtaken = history.overtaken
<1>1. Unserved' \subseteq Messages
  BY DEF Unserved
<1> QED
  BY <1>1 DEF Typed, Histories, Lapse, Misses, NoStrandedText

-----------------------------------------------------------------------------
(* What suffices for EndedIsReleased to be kept.                           *)
LEMMA ReleasedIsKept ==
  ASSUME IInv, history.overtaken \subseteq history'.overtaken,
         \A i \in Sessions \ history'.overtaken :
           session'[i].status \in Ended =>
             /\ \/ session[i].status \in Ended
                \/ ~Intended(i) /\ ~Advanced(i)'
             /\ Intended(i)' => Intended(i)
             /\ Advanced(i)' => Advanced(i) \/ Intended(i)
  PROVE  EndedIsReleased'
  BY DEF IInv, EndedIsReleased

(* An advance that ends its session releases it.                           *)
LEMMA EngineEnds ==
  ASSUME IInv, engine.i \in Sessions, NEW status \in Ended,
         SetStatus(engine.i, status), Overtakes("engine", {engine.i}), Returns,
         UNCHANGED inbound
  PROVE  EndedIsReleased'
<1>1. /\ history.overtaken \subseteq history'.overtaken
      /\ engine.i \notin history'.overtaken => ~HeldBesides("engine", engine.i)
  BY OvertakesGrows DEF IInv
<1>2. \A i \in Sessions : i # engine.i => session'[i] = session[i]
  BY StatusIsSet DEF IInv, Statuses
<1>3. \A i \in Sessions : ~Advanced(i)' /\ (Intended(i)' => Intended(i))
  BY ReturnsReleases DEF Intended
<1> QED
  BY <1>1, <1>2, <1>3, ReleasedIsKept DEF HeldBesides

-----------------------------------------------------------------------------
(* Every step keeps Typed.                                                 *)
LEMMA TypedStep ==
  ASSUME IInv, [Next]_vars
  PROVE  Typed'
<1>1. ASSUME NEW m \in Messages, Decide(m) PROVE Typed'
  <2> DEFINE open == Newest(In(Live \cup {"PAUSED_FOR_HUMAN"}))
  <2>1. \A p \in {"decided", "done"}, t \in Intents : [pc |-> p, intent |-> t] \in Inbounds
    BY DEF Inbounds, Intents
  <2>2. inbound' \in [Messages -> Inbounds]
    <3>1. [inbound[m] EXCEPT !.pc = "done"] \in Inbounds
      BY DEF IInv, Typed, Inbounds
    <3>2. 0 \in Intents /\ (open \in In(Live) => open \in Intents)
      BY DEF Intents, In
    <3>3. PICK new \in Inbounds : inbound' = [inbound EXCEPT ![m] = new]
      <4> HIDE DEF open
      <4> QED BY <1>1, <2>1, <3>1, <3>2 DEF Decide, open
    <3> QED BY <3>3 DEF IInv, Typed
  <2>3. session' \in [Sessions -> Rows] /\ history' \in Histories
    <3>1. CASE UNCHANGED <<session, history>>
      BY <3>1 DEF IInv, Typed
    <3>2. CASE /\ open \in In(Live) /\ SetStatus(open, "TERMINATED")
               /\ Overtakes("router", {open})
      <4>1. open \in Sessions /\ "TERMINATED" \in Statuses
        BY <3>2 DEF In, Statuses, Ended
      <4> HIDE DEF open
      <4> QED BY <3>2, <4>1, StatusIsSet, OvertakesGrows DEF IInv
    <3> QED BY <1>1, <3>1, <3>2 DEF Decide
  <2>4. UNCHANGED <<mode, buffer, job, engine, agent, cron, requests, faults>>
    BY <1>1 DEF Decide
  <2> HIDE DEF open
  <2> QED BY <2>2, <2>3, <2>4 DEF IInv, Typed
<1>2. ASSUME NEW m \in Messages, Push(m) PROVE Typed'
  BY <1>2 DEF Push, Empties, Misses, Fault, IInv, Typed, Inbounds, Histories
<1>3. ASSUME NEW m \in Messages, RemoveEarlier(m) PROVE Typed'
  <2>1. inbound' \in [Messages -> Inbounds]
    BY <1>3 DEF RemoveEarlier, IInv, Typed, Inbounds
  <2>2. job' \in Jobs /\ (job.state = "active" => job' = job)
    BY <1>3, RemovedJob DEF RemoveEarlier, IInv
  <2>3. UNCHANGED history \/ Lapse
    BY <1>3 DEF RemoveEarlier
  <2>4. UNCHANGED <<mode, session, buffer, engine, agent, cron, requests, faults>>
    BY <1>3 DEF RemoveEarlier
  <2>5. history' \in Histories
    BY <2>1, <2>3, <2>4, LapseIsTyped DEF IInv, Typed
  <2> QED BY <2>1, <2>2, <2>4, <2>5 DEF IInv, Typed
<1>4. ASSUME NEW m \in Messages, Add(m) PROVE Typed'
  <2>1. inbound' \in [Messages -> Inbounds]
    BY <1>4 DEF Add, Enqueued, IInv, Typed, Inbounds
  <2>2. job' \in Jobs /\ (job.state = "active" => job' = job)
    <3>1. inbound[m].intent \in Intents
      BY <1>4 DEF Add, IInv, HoldersAreReal
    <3>2. AddJob(job.state, Wake(m)) \in KeyStates
          /\ (job.state # "none" => AddJob(job.state, Wake(m)) = job.state)
      BY DEF IInv, Typed, Jobs, AddJob, Wake, KeyStates, JobStates
    <3> QED BY <1>4, <3>1, <3>2 DEF Add, IInv, Typed, Jobs, Payloads
  <2>3. UNCHANGED history \/ Lapse
    BY <1>4 DEF Add
  <2>4. UNCHANGED <<mode, session, buffer, engine, agent, cron, requests, faults>>
    BY <1>4 DEF Add
  <2>5. history' \in Histories
    BY <2>3, <2>4, LapseIsTyped DEF IInv, Typed
  <2> QED BY <2>1, <2>2, <2>4, <2>5 DEF IInv, Typed
<1>5. ASSUME NEW m \in Messages, EnqueueFails(m) PROVE Typed'
  <2>1. inbound' \in [Messages -> Inbounds]
    BY <1>5 DEF EnqueueFails, Enqueued, IInv, Typed, Inbounds
  <2>2. UNCHANGED <<mode, session, buffer, job, engine, agent, cron, requests>> /\ Lapse
    BY <1>5 DEF EnqueueFails
  <2>3. history' \in Histories
    BY <2>2, LapseIsTyped DEF IInv, Typed
  <2>4. faults' \in Nat
    BY <1>5 DEF EnqueueFails, Fault, IInv, Typed
  <2> QED BY <2>1, <2>2, <2>3, <2>4 DEF IInv, Typed
<1>6. CASE TakeJob
  BY <1>6 DEF TakeJob, IInv, Typed, Jobs, Engines, Statuses, KeyStates, JobStates, IdleEngine
<1>7. CASE Drain
  <2>1. /\ engine' \in Engines /\ job.state = "active"
        /\ buffer' \subseteq Messages \ Taps /\ faults' \in Nat
    BY <1>7 DEF Drain, Empties, Fault, IInv, Typed, Engines
  <2>2. UNCHANGED <<mode, session, inbound, job, agent, cron, requests>>
    BY <1>7 DEF Drain
  <2>3. UNCHANGED history \/ Empties \/ (UNCHANGED buffer /\ Lapse)
    BY <1>7 DEF Drain
  <2>4. history' \in Histories
    BY <2>3, LapseIsTyped DEF Empties, IInv, Typed, Histories
  <2> QED BY <2>1, <2>2, <2>4 DEF IInv, Typed
<1>8. CASE Resolve
  <2>1. engine' \in Engines /\ session' \in [Sessions -> Rows]
    <3>1. ASSUME NEW i \in Sessions, NEW status \in Statuses, ResolvesTo(i, status)
          PROVE  engine' \in Engines /\ session' \in [Sessions -> Rows]
      BY <3>1, StatusIsSet DEF ResolvesTo, IInv, Typed, Engines
    <3>2. CASE Returns /\ UNCHANGED session
      BY <3>2, ReturnsReleases DEF IInv, Typed
    <3> QED BY <1>8, <3>1, <3>2, ResolvesASession
  <2>2. UNCHANGED <<mode, inbound, buffer, job, agent, cron, history, requests, faults>>
        /\ engine.pc # "idle"
    BY <1>8 DEF Resolve
  <2> QED BY <2>1, <2>2 DEF IInv, Typed
<1>9. CASE Hear
  <2>1. engine.i \in Sessions
    BY <1>9 DEF Hear, IInv, HoldersAreReal, Acting
  <2>2. session' \in [Sessions -> Rows] /\ history' \in Histories
    <3>1. CASE UNCHANGED <<session, history>>
      BY <3>1 DEF IInv, Typed
    <3>2. CASE /\ session' = [j \in Sessions |-> IF j \in In(Live)
                    THEN [session[j] EXCEPT !.status = "PAUSED_FOR_HUMAN"] ELSE session[j]]
               /\ UNCHANGED history
      BY <3>2, LiveIsPaused DEF IInv, Typed
    <3>3. CASE session' = [session EXCEPT ![engine.i].expired = FALSE] /\ UNCHANGED history
      BY <2>1, <3>3, ExpiryIsSet DEF IInv, Typed
    <3>4. CASE SetStatus(engine.i, "TERMINATED") /\ Overtakes("engine", {engine.i})
      BY <2>1, <3>4, StatusIsSet, OvertakesGrows DEF IInv, Statuses, Ended
    <3> QED BY <1>9, <3>1, <3>2, <3>3, <3>4 DEF Hear
  <2>3. engine' \in Engines
    <3>1. session[engine.i].status \in Statuses
      BY <2>1 DEF IInv, Typed, Rows
    <3>2. CASE Returns
      BY <3>2, ReturnsReleases
    <3>3. CASE engine' = [engine EXCEPT !.pc = "heard"]
      BY <3>3 DEF IInv, Typed, Engines
    <3>4. CASE engine' = [engine EXCEPT !.pc = "heard", !.seen = session[engine.i].status]
      BY <3>1, <3>4 DEF IInv, Typed, Engines
    <3> QED BY <1>9, <3>2, <3>3, <3>4 DEF Hear
  <2>4. UNCHANGED <<mode, inbound, buffer, job, agent, cron, requests, faults>>
        /\ engine.pc # "idle"
    BY <1>9 DEF Hear
  <2> QED BY <2>2, <2>3, <2>4 DEF IInv, Typed
<1>10. CASE Advance
  <2>1. engine.i \in Sessions /\ engine.pc # "idle"
    BY <1>10 DEF Advance, IInv, HoldersAreReal, Acting
  <2>2. session' \in [Sessions -> Rows] /\ history' \in Histories /\ mode' \in Modes
    BY <1>10, <2>1, StatusIsSet, OvertakesGrows
       DEF Advance, Outcome, IInv, Typed, Statuses, Live, Ended, Modes
  <2>3. engine' \in Engines
    <3>1. ASSUME NEW pc \in {"looping", "pausing"},
                 engine' = [IdleEngine EXCEPT !.pc = pc, !.i = engine.i]
          PROVE  engine' \in Engines
      BY <2>1, <3>1, GoesOn DEF IInv, Acting
    <3> QED BY <1>10, <3>1, ReturnsReleases DEF Advance, Outcome
  <2>4. UNCHANGED <<inbound, buffer, job, agent, cron, requests, faults>>
    BY <1>10 DEF Advance
  <2> QED BY <2>1, <2>2, <2>3, <2>4 DEF IInv, Typed
<1>11. CASE PauseForHuman
  <2>1. engine' \in Engines /\ session' \in [Sessions -> Rows] /\ engine.pc # "idle"
    BY <1>11, ReturnsReleases, StatusIsSet
       DEF PauseForHuman, IInv, HoldersAreReal, Acting, Statuses
  <2> QED BY <1>11, <2>1 DEF PauseForHuman, IInv, Typed
<1>12. CASE JobEnds
  <2>1. job' \in Jobs /\ engine' \in Engines /\ engine'.pc = "idle"
    BY <1>12
       DEF JobEnds, Finished, Jobs, Engines, KeyStates, Payloads, IdleEngine, Statuses
  <2>2. history' \in Histories
    BY <1>12 DEF JobEnds, IInv, Typed, Histories
  <2>3. faults' \in Nat
    BY <1>12 DEF JobEnds, Fault, IInv, Typed
  <2>4. UNCHANGED <<mode, session, inbound, buffer, agent, cron, requests>>
    BY <1>12 DEF JobEnds
  <2> QED BY <2>1, <2>2, <2>3, <2>4 DEF IInv, Typed
<1>13. CASE Forgotten
  BY <1>13
     DEF Forgotten, NoJob, IInv, Typed, Jobs, Payloads, KeyStates, JobStates
<1>14. CASE WorkerDies
  <2>1. engine' \in Engines /\ engine'.pc = "idle"
    BY <1>14 DEF WorkerDies, Engines, IdleEngine, Statuses
  <2>2. history' \in Histories
    <3>1. In(Ended) \subseteq Sessions
      BY DEF In
    <3> QED BY <1>14, <3>1 DEF WorkerDies, IInv, Typed, Histories
  <2>3. faults' \in Nat
    BY <1>14 DEF WorkerDies, Fault, IInv, Typed
  <2>4. UNCHANGED <<mode, session, inbound, buffer, job, agent, cron, requests>>
    BY <1>14 DEF WorkerDies
  <2> QED BY <2>1, <2>2, <2>3, <2>4 DEF IInv, Typed
<1>15. CASE JobStalls
  <2>1. job' \in Jobs
    BY <1>15 DEF JobStalls, Finished, IInv, Typed, Jobs, Payloads, KeyStates, JobStates
  <2>2. UNCHANGED <<mode, session, inbound, buffer, engine, agent, cron, requests, faults>>
        /\ engine.pc = "idle" /\ Lapse
    BY <1>15 DEF JobStalls
  <2>3. history' \in Histories
    BY <2>2, LapseIsTyped DEF IInv, Typed
  <2> QED BY <2>1, <2>2, <2>3 DEF IInv, Typed
<1>16. CASE AgentActs
  BY <1>16 DEF AgentActs, IInv, Typed, Agents
<1>17. CASE Move("claiming", "HUMAN_ACTIVE", "pausing")
  BY <1>17 DEF Move, IInv, Typed, Agents, Modes
<1>18. CASE Move("releasing", "AI_AUTO", "terminating")
  BY <1>18 DEF Move, IInv, Typed, Agents, Modes
<1>19. CASE PauseLive
  <2>1. session' \in [Sessions -> Rows]
    BY <1>19, LiveIsPaused DEF PauseLive, IInv
  <2>2. history' \in Histories /\ agent' \in Agents
    BY <1>19 DEF PauseLive, IInv, Typed, Histories, Agents
  <2>3. UNCHANGED <<mode, inbound, buffer, job, engine, cron, requests, faults>>
    BY <1>19 DEF PauseLive
  <2> QED BY <2>1, <2>2, <2>3 DEF IInv, Typed
<1>20. CASE Cancel
  BY <1>20 DEF Cancel, Empties, Misses, Fault, IInv, Typed, Agents, Histories
<1>21. CASE Remove
  <2>1. job' \in Jobs /\ (job.state = "active" => job' = job)
    BY <1>21, RemovedJob DEF Remove, IInv, Typed
  <2> QED BY <1>21, <2>1 DEF Remove, Fault, IInv, Typed, Agents
<1>22. CASE TerminatePaused
  <2>1. session' \in [Sessions -> Rows]
    <3>1. ASSUME NEW i \in Sessions
          PROVE  session[i] \in Rows /\ [session[i] EXCEPT !.status = "TERMINATED"] \in Rows
      BY DEF IInv, Typed, Rows, Statuses, Ended
    <3> QED BY <1>22, <3>1 DEF TerminatePaused
  <2>2. history' \in Histories
    <3>1. Overtakes("agent", In({"PAUSED_FOR_HUMAN"})) /\ In({"PAUSED_FOR_HUMAN"}) \subseteq Sessions
      BY <1>22 DEF TerminatePaused, In
    <3> QED BY <3>1, OvertakesGrows DEF IInv
  <2>3. agent' \in Agents
    BY <1>22 DEF TerminatePaused, IInv, Typed, Agents
  <2>4. UNCHANGED <<mode, inbound, buffer, job, engine, cron, requests, faults>>
    BY <1>22 DEF TerminatePaused
  <2> QED BY <2>1, <2>2, <2>3, <2>4 DEF IInv, Typed
<1>23. CASE Clear
  BY <1>23 DEF Clear, Empties, Fault, IInv, Typed, Agents, Histories
<1>24. ASSUME NEW i \in Sessions, TimePasses(i) PROVE Typed'
  <2>1. session' \in [Sessions -> Rows]
    BY <1>24, ExpiryIsSet DEF TimePasses, IInv
  <2> QED BY <1>24, <2>1 DEF TimePasses, IInv, Typed
<1>25. ASSUME NEW i \in Sessions, CronLists(i) PROVE Typed'
  BY <1>25 DEF CronLists, IInv, Typed, Crons
<1>26. CASE CronChecks
  BY <1>26 DEF CronChecks, IdleCron, IInv, Typed, Crons
<1>27. CASE CronUpdates
  <2>1. cron.i \in Sessions
    BY <1>27 DEF CronUpdates, IInv, HoldersAreReal
  <2>2. session' \in [Sessions -> Rows] /\ history' \in Histories
    <3>1. CASE SetStatus(cron.i, "TERMINATED") /\ Overtakes("cron", {cron.i})
      BY <2>1, <3>1, StatusIsSet, OvertakesGrows DEF IInv, Statuses, Ended
    <3>2. CASE session' = [session EXCEPT ![cron.i].expired = FALSE] /\ UNCHANGED history
      BY <2>1, <3>2, ExpiryIsSet DEF IInv, Typed
    <3> QED BY <1>27, <3>1, <3>2 DEF CronUpdates
  <2> QED BY <1>27, <2>2 DEF CronUpdates, IdleCron, IInv, Typed, Crons
<1>28. CASE UNCHANGED vars
  BY <1>28 DEF vars, IInv, Typed
<1> QED
  BY <1>1, <1>2, <1>3, <1>4, <1>5, <1>6, <1>7, <1>8, <1>9, <1>10, <1>11, <1>12, <1>13,
     <1>14, <1>15, <1>16, <1>17, <1>18, <1>19, <1>20, <1>21, <1>22, <1>23, <1>24, <1>25,
     <1>26, <1>27, <1>28
     DEF Next, Agent

(* Every step keeps HoldersAreReal.                                        *)
LEMMA HoldersAreRealStep ==
  ASSUME IInv, [Next]_vars
  PROVE  HoldersAreReal'
<1>1. ASSUME NEW m \in Messages, Decide(m) PROVE HoldersAreReal'
  <2> DEFINE open == Newest(In(Live \cup {"PAUSED_FOR_HUMAN"}))
  <2>1. open \in In(Live) => open \in Intents
    BY DEF In, Intents
  <2>2. \/ inbound' = [inbound EXCEPT ![m].pc = "done"]
        \/ \E intent \in Intents :
             inbound' = [inbound EXCEPT ![m] = [pc |-> "decided", intent |-> intent]]
    <3>1. 0 \in Intents
      BY DEF Intents
    <3> QED BY <1>1, <2>1, <3>1 DEF Decide
  <2>3. UNCHANGED <<job, engine, cron>>
    BY <1>1 DEF Decide
  <2> HIDE DEF open
  <2> QED BY <2>2, <2>3 DEF IInv, Typed, HoldersAreReal, Inbounds
<1>2. ASSUME NEW m \in Messages, Push(m) PROVE HoldersAreReal'
  BY <1>2 DEF Push, Typed, Inbounds, IInv, HoldersAreReal
<1>3. ASSUME NEW m \in Messages, RemoveEarlier(m) PROVE HoldersAreReal'
  BY <1>3, RemovedJob
     DEF RemoveEarlier, NoJob, IInv, Typed, Inbounds, HoldersAreReal
<1>4. ASSUME NEW m \in Messages, Add(m) PROVE HoldersAreReal'
  <2>1. inbound[m].intent \in Intents
    BY <1>4 DEF Add, IInv, HoldersAreReal
  <2>2. \A n \in Messages : inbound'[n].pc \in {"decided", "pushed", "removed"} =>
          inbound'[n].intent \in Intents
    BY <1>4 DEF Add, Enqueued, IInv, Typed, HoldersAreReal
  <2>3. job' = job \/ job'.payload = [m |-> m, intent |-> inbound[m].intent]
    BY <1>4 DEF Add
  <2>4. job'.state \notin {"none", "finished"} => job'.payload \in [m: Messages, intent: Intents]
    BY <2>1, <2>3 DEF IInv, HoldersAreReal
  <2> QED BY <1>4, <2>2, <2>4 DEF Add, IInv, HoldersAreReal
<1>5. ASSUME NEW m \in Messages, EnqueueFails(m) PROVE HoldersAreReal'
  BY <1>5 DEF EnqueueFails, Enqueued, Typed, IInv, HoldersAreReal
<1>6. CASE TakeJob
  BY <1>6 DEF TakeJob, Acting, IdleEngine, Typed, Jobs, IInv, HoldersAreReal
<1>7. CASE Drain
  BY <1>7 DEF Drain, Acting, Typed, Engines, IInv, HoldersAreReal
<1>8. CASE Resolve
  <2>1. engine'.pc \in Acting => engine'.i \in Sessions
    <3>1. ASSUME NEW i \in Sessions, NEW status \in Statuses, ResolvesTo(i, status)
          PROVE  engine'.i \in Sessions
      BY <3>1 DEF ResolvesTo, IInv, Typed, Engines
    <3>2. CASE Returns
      BY <3>2, ReturnsReleases DEF Acting
    <3> QED BY <1>8, <3>1, <3>2, ResolvesASession
  <2>2. UNCHANGED <<inbound, job, cron>>
    BY <1>8 DEF Resolve
  <2> QED BY <2>1, <2>2 DEF IInv, HoldersAreReal
<1>9. CASE Hear
  <2>1. UNCHANGED <<inbound, job, cron>> /\ (Returns \/ engine'.i = engine.i)
    <3>1. CASE engine' = [engine EXCEPT !.pc = "heard"]
      BY <1>9, <3>1 DEF Hear, IInv, Typed, Engines
    <3>2. CASE engine' = [engine EXCEPT !.pc = "heard", !.seen = session[engine.i].status]
      BY <1>9, <3>2 DEF Hear, IInv, Typed, Engines
    <3> QED BY <1>9, <3>1, <3>2 DEF Hear
  <2>2. engine.i \in Sessions
    BY <1>9 DEF Hear, IInv, HoldersAreReal, Acting
  <2> QED BY <2>1, <2>2, ReturnsReleases DEF IInv, HoldersAreReal, Acting
<1>10. CASE Advance
  <2>1. UNCHANGED <<inbound, job, cron>> /\ (Returns \/ engine'.i = engine.i)
    <3>1. ASSUME NEW pc, engine' = [IdleEngine EXCEPT !.pc = pc, !.i = engine.i]
          PROVE  engine'.i = engine.i
      BY <3>1 DEF IdleEngine
    <3> QED BY <1>10, <3>1 DEF Advance, Outcome
  <2>2. engine.i \in Sessions
    BY <1>10 DEF Advance, IInv, HoldersAreReal, Acting
  <2> QED BY <2>1, <2>2, ReturnsReleases DEF IInv, HoldersAreReal, Acting
<1>11. CASE PauseForHuman
  BY <1>11, ReturnsReleases DEF PauseForHuman, IInv, HoldersAreReal, Acting
<1>12. CASE JobEnds
  BY <1>12 DEF JobEnds, Finished, Acting, IdleEngine, IInv, HoldersAreReal
<1>13. CASE Forgotten
  BY <1>13 DEF Forgotten, NoJob, IInv, HoldersAreReal
<1>14. CASE WorkerDies
  BY <1>14 DEF WorkerDies, Acting, IdleEngine, IInv, HoldersAreReal
<1>15. CASE JobStalls
  <2>1. job'.state \notin {"none", "finished"} => job.state = "active" /\ job'.payload = job.payload
    BY <1>15 DEF JobStalls, Finished, IInv, Typed, Jobs
  <2> QED BY <1>15, <2>1 DEF JobStalls, IInv, HoldersAreReal
<1>16. CASE AgentActs
  BY <1>16 DEF AgentActs, IInv, HoldersAreReal
<1>17. CASE Move("claiming", "HUMAN_ACTIVE", "pausing")
  BY <1>17 DEF Move, IInv, HoldersAreReal
<1>18. CASE Move("releasing", "AI_AUTO", "terminating")
  BY <1>18 DEF Move, IInv, HoldersAreReal
<1>19. CASE PauseLive
  BY <1>19 DEF PauseLive, IInv, HoldersAreReal
<1>20. CASE Cancel
  BY <1>20 DEF Cancel, IInv, HoldersAreReal
<1>21. CASE Remove
  BY <1>21, RemovedJob DEF Remove, NoJob, IInv, HoldersAreReal
<1>22. CASE TerminatePaused
  BY <1>22 DEF TerminatePaused, IInv, HoldersAreReal
<1>23. CASE Clear
  BY <1>23 DEF Clear, IInv, HoldersAreReal
<1>24. ASSUME NEW i \in Sessions, TimePasses(i) PROVE HoldersAreReal'
  BY <1>24 DEF TimePasses, IInv, HoldersAreReal
<1>25. ASSUME NEW i \in Sessions, CronLists(i) PROVE HoldersAreReal'
  BY <1>25 DEF CronLists, Typed, Crons, IInv, HoldersAreReal
<1>26. CASE CronChecks
  BY <1>26 DEF CronChecks, IdleCron, Typed, Crons, IInv, HoldersAreReal
<1>27. CASE CronUpdates
  BY <1>27 DEF CronUpdates, IdleCron, IInv, HoldersAreReal
<1>28. CASE UNCHANGED vars
  BY <1>28 DEF vars, IInv, HoldersAreReal
<1> QED
  BY <1>1, <1>2, <1>3, <1>4, <1>5, <1>6, <1>7, <1>8, <1>9, <1>10, <1>11, <1>12, <1>13,
     <1>14, <1>15, <1>16, <1>17, <1>18, <1>19, <1>20, <1>21, <1>22, <1>23, <1>24, <1>25,
     <1>26, <1>27, <1>28
     DEF Next, Agent

(* Texts that are not in new hands nor in a new burst are as well served.  *)
LEMMA StillServed ==
  ASSUME NoStrandedText, buffer' \subseteq buffer, history.missed \subseteq history'.missed,
         \A n \in buffer : inbound[n].pc \in {"pushed", "removed"} =>
           inbound'[n].pc \in {"pushed", "removed"},
         WillMerge \/ Replacing => WillMerge' \/ Replacing'
  PROVE  NoStrandedText'
  BY DEF NoStrandedText, Unserved

(* So they are while the job, the listeners and the burst stay.            *)
LEMMA SameServed ==
  ASSUME NoStrandedText, UNCHANGED <<buffer, inbound, job>>,
         history.missed \subseteq history'.missed,
         job.state = "active" /\ engine.pc \in {"idle", "taken"} =>
           engine'.pc \in {"idle", "taken"}
  PROVE  NoStrandedText'
  BY StillServed DEF WillMerge, Replacing

(* An empty burst strands nothing.                                         *)
LEMMA NothingStranded == ASSUME buffer' = {} PROVE NoStrandedText'
  BY DEF NoStrandedText, Unserved

(* Every step keeps NoStrandedText.                                        *)
LEMMA NoStrandedTextStep ==
  ASSUME IInv, [Next]_vars
  PROVE  NoStrandedText'
<1>1. ASSUME NEW m \in Messages, Decide(m) PROVE NoStrandedText'
  <2>1. history.missed \subseteq history'.missed
    BY <1>1 DEF Decide, Overtakes, IInv, Typed, Histories
  <2>2. \A n \in Messages : n # m => inbound'[n] = inbound[n]
    BY <1>1 DEF Decide, IInv, Typed
  <2>3. inbound[m].pc = "none" /\ UNCHANGED <<buffer, job, engine>>
    BY <1>1 DEF Decide
  <2>4. WillMerge \/ Replacing => WillMerge' \/ Replacing'
    BY <2>2, <2>3 DEF WillMerge, Replacing
  <2> QED BY <2>1, <2>2, <2>3, <2>4, StillServed DEF IInv, Typed
<1>2. ASSUME NEW m \in Messages, Push(m) PROVE NoStrandedText'
  <2>1. CASE buffer' = {}
    BY <2>1, NothingStranded
  <2>2. CASE buffer' \subseteq buffer \cup {m} /\ history.missed \subseteq history'.missed
    <3>1. inbound' = [inbound EXCEPT ![m].pc = "pushed"] /\ UNCHANGED <<job, engine>>
          /\ inbound[m].pc = "decided"
      BY <1>2 DEF Push
    <3>2. /\ inbound'[m].pc = "pushed"
          /\ \A n \in Messages : n # m => inbound'[n] = inbound[n]
      BY <3>1 DEF IInv, Typed, Inbounds
    <3>3. WillMerge \/ Replacing => WillMerge' \/ Replacing'
      BY <3>1, <3>2 DEF WillMerge, Replacing
    <3>4. Unserved' \subseteq Unserved
      BY <2>2, <3>2, <3>3 DEF Unserved, IInv, Typed
    <3> QED BY <2>2, <3>4 DEF IInv, NoStrandedText
  <2> QED BY <1>2, <2>1, <2>2 DEF Push, Empties, Misses, IInv, Typed, Histories
<1>3. ASSUME NEW m \in Messages, RemoveEarlier(m) PROVE NoStrandedText'
  <2>1. CASE m \in Taps
    BY <1>3, <2>1, LapseIsTyped DEF RemoveEarlier, IInv, Typed
  <2>2. CASE m \notin Taps
    <3>1. inbound'[m].pc = "removed"
      BY <1>3 DEF RemoveEarlier, IInv, Typed, Inbounds
    <3>2. Unserved' = {}
      BY <2>2, <3>1 DEF Unserved, Replacing
    <3> QED BY <3>2 DEF NoStrandedText
  <2> QED BY <2>1, <2>2
<1>4. ASSUME NEW m \in Messages, Add(m) PROVE NoStrandedText'
  <2>1. CASE job.state # "none"
    BY <1>4, <2>1, LapseIsTyped DEF Add, IInv, Typed
  <2>2. CASE job.state = "none"
    <3>1. UNCHANGED <<buffer, history, engine>> /\ inbound[m].pc = "removed"
      BY <1>4, <2>2 DEF Add
    <3>2. job'.state = Wake(m) /\ job'.payload.m = m
      BY <1>4, <2>2 DEF Add, AddJob, Wake
    <3>3. \A n \in Messages : n # m => inbound'[n] = inbound[n]
      BY <1>4 DEF Add, Enqueued, IInv, Typed
    <3>4. CASE m \notin Taps
      BY <3>2, <3>4 DEF Wake, WillMerge, Unserved, NoStrandedText
    <3>5. CASE m \in Taps
      <4>1. ~WillMerge /\ m \notin buffer
        BY <2>2, <3>5 DEF WillMerge, IInv, Typed
      <4>2. Replacing => Replacing'
        BY <3>3, <3>5 DEF Replacing
      <4>3. \A n \in buffer : inbound'[n] = inbound[n]
        BY <3>3, <4>1 DEF IInv, Typed
      <4> QED BY <3>1, <4>1, <4>2, <4>3, StillServed DEF IInv
    <3> QED BY <3>4, <3>5
  <2> QED BY <2>1, <2>2
<1>5. ASSUME NEW m \in Messages, EnqueueFails(m) PROVE NoStrandedText'
  BY <1>5, LapseIsTyped DEF EnqueueFails, IInv, Typed
<1>6. CASE TakeJob
  <2>1. WillMerge' <=> WillMerge
    BY <1>6 DEF TakeJob, WillMerge, IdleEngine, IInv, Typed, Jobs
  <2> QED BY <1>6, <2>1, StillServed DEF TakeJob, Replacing, IInv
<1>7. CASE Drain
  <2>1. CASE job.payload.m \in Taps
    <3>1. ~WillMerge
      BY <2>1 DEF WillMerge
    <3> QED BY <1>7, <2>1, <3>1, StillServed DEF Drain, Replacing, IInv
  <2>2. CASE buffer' = {}
    BY <2>2, NothingStranded
  <2>3. CASE UNCHANGED buffer /\ Lapse
    BY <2>3, LapseIsTyped DEF IInv, Typed
  <2> QED BY <1>7, <2>1, <2>2, <2>3 DEF Drain, Empties
<1>8. CASE Resolve
  BY <1>8, SameServed DEF Resolve, IInv
<1>9. CASE Hear
  <2>1. history.missed \subseteq history'.missed
    BY <1>9 DEF Hear, Overtakes, IInv, Typed, Histories
  <2> QED BY <1>9, <2>1, SameServed DEF Hear, IInv
<1>10. CASE Advance
  <2>1. history.missed \subseteq history'.missed
    BY <1>10 DEF Advance, Outcome, Overtakes, IInv, Typed, Histories
  <2> QED BY <1>10, <2>1, SameServed DEF Advance, IInv
<1>11. CASE PauseForHuman
  BY <1>11, SameServed DEF PauseForHuman, IInv
<1>12. CASE JobEnds
  <2>1. ~WillMerge /\ history'.missed = history.missed
    BY <1>12 DEF JobEnds, WillMerge, IInv, Typed, Histories
  <2> QED BY <1>12, <2>1, StillServed DEF JobEnds, Replacing, IInv
<1>13. CASE Forgotten
  <2>1. ~WillMerge
    BY <1>13 DEF Forgotten, WillMerge
  <2> QED BY <1>13, <2>1, StillServed DEF Forgotten, Replacing, IInv
<1>14. CASE WorkerDies
  <2>1. history'.missed = history.missed /\ engine'.pc = "idle"
    BY <1>14 DEF WorkerDies, IdleEngine, IInv, Typed, Histories
  <2> QED BY <1>14, <2>1, SameServed DEF WorkerDies, IInv
<1>15. CASE JobStalls
  BY <1>15, LapseIsTyped DEF JobStalls, IInv, Typed
<1>16. CASE AgentActs
  BY <1>16, SameServed DEF AgentActs, IInv
<1>17. CASE Move("claiming", "HUMAN_ACTIVE", "pausing")
  BY <1>17, SameServed DEF Move, IInv
<1>18. CASE Move("releasing", "AI_AUTO", "terminating")
  BY <1>18, SameServed DEF Move, IInv
<1>19. CASE PauseLive
  <2>1. history'.missed = history.missed
    BY <1>19 DEF PauseLive, IInv, Typed, Histories
  <2> QED BY <1>19, <2>1, SameServed DEF PauseLive, IInv
<1>20. CASE Cancel
  <2>1. CASE buffer' = {}
    BY <2>1, NothingStranded
  <2>2. CASE UNCHANGED buffer /\ Misses(buffer)
    <3>1. history.missed \subseteq history'.missed
      BY <2>2 DEF Misses, IInv, Typed, Histories
    <3> QED BY <1>20, <2>2, <3>1, SameServed DEF Cancel, IInv
  <2> QED BY <1>20, <2>1, <2>2 DEF Cancel, Empties
<1>21. CASE Remove
  BY <1>21 DEF Remove, IInv, NoStrandedText, RemovalMisses, Unserved
<1>22. CASE TerminatePaused
  <2>1. history'.missed = history.missed
    BY <1>22 DEF TerminatePaused, Overtakes, IInv, Typed, Histories
  <2> QED BY <1>22, <2>1, SameServed DEF TerminatePaused, IInv
<1>23. CASE Clear
  <2>1. CASE buffer' = {}
    BY <2>1, NothingStranded
  <2>2. CASE UNCHANGED <<buffer, history>>
    BY <1>23, <2>2, SameServed DEF Clear, IInv
  <2> QED BY <1>23, <2>1, <2>2 DEF Clear, Empties
<1>24. ASSUME NEW i \in Sessions, TimePasses(i) PROVE NoStrandedText'
  BY <1>24, SameServed DEF TimePasses, IInv
<1>25. ASSUME NEW i \in Sessions, CronLists(i) PROVE NoStrandedText'
  BY <1>25, SameServed DEF CronLists, IInv
<1>26. CASE CronChecks
  BY <1>26, SameServed DEF CronChecks, IInv
<1>27. CASE CronUpdates
  <2>1. history.missed \subseteq history'.missed
    BY <1>27 DEF CronUpdates, Overtakes, IInv, Typed, Histories
  <2> QED BY <1>27, <2>1, SameServed DEF CronUpdates, IInv
<1>28. CASE UNCHANGED vars
  BY <1>28, SameServed DEF vars, IInv
<1> QED
  BY <1>1, <1>2, <1>3, <1>4, <1>5, <1>6, <1>7, <1>8, <1>9, <1>10, <1>11, <1>12, <1>13,
     <1>14, <1>15, <1>16, <1>17, <1>18, <1>19, <1>20, <1>21, <1>22, <1>23, <1>24, <1>25,
     <1>26, <1>27, <1>28
     DEF Next, Agent

(* Every step keeps RemovalMisses.                                         *)
LEMMA RemovalMissesStep ==
  ASSUME IInv, [Next]_vars
  PROVE  RemovalMisses'
<1>1. ASSUME NEW m \in Messages, Decide(m) PROVE RemovalMisses'
  BY <1>1 DEF Decide, Overtakes, IInv, Typed, RemovalMisses, Agents, Histories
<1>2. ASSUME NEW m \in Messages, Push(m) PROVE RemovalMisses'
  BY <1>2 DEF Push, Empties, Misses, IInv, Typed, RemovalMisses, Agents, Histories
<1>3. ASSUME NEW m \in Messages, RemoveEarlier(m) PROVE RemovalMisses'
  BY <1>3, LapseIsTyped DEF RemoveEarlier, IInv, Typed, RemovalMisses
<1>4. ASSUME NEW m \in Messages, Add(m) PROVE RemovalMisses'
  BY <1>4, LapseIsTyped DEF Add, IInv, Typed, RemovalMisses
<1>5. ASSUME NEW m \in Messages, EnqueueFails(m) PROVE RemovalMisses'
  BY <1>5, LapseIsTyped DEF EnqueueFails, IInv, Typed, RemovalMisses
<1>6. CASE TakeJob
  BY <1>6 DEF TakeJob, IInv, Typed, RemovalMisses, Agents, Histories
<1>7. CASE Drain
  BY <1>7, LapseIsTyped DEF Drain, Empties, IInv, Typed, RemovalMisses
<1>8. CASE Resolve
  BY <1>8 DEF Resolve, IInv, RemovalMisses
<1>9. CASE Hear
  BY <1>9 DEF Hear, Overtakes, IInv, Typed, RemovalMisses, Agents, Histories
<1>10. CASE Advance
  BY <1>10 DEF Advance, Outcome, Overtakes, IInv, Typed, RemovalMisses, Agents, Histories
<1>11. CASE PauseForHuman
  BY <1>11 DEF PauseForHuman, IInv, RemovalMisses
<1>12. CASE JobEnds
  BY <1>12 DEF JobEnds, IInv, Typed, RemovalMisses, Agents, Histories
<1>13. CASE Forgotten
  BY <1>13 DEF Forgotten, IInv, Typed, RemovalMisses, Agents, Histories
<1>14. CASE WorkerDies
  BY <1>14 DEF WorkerDies, IInv, Typed, RemovalMisses, Agents, Histories
<1>15. CASE JobStalls
  BY <1>15, LapseIsTyped DEF JobStalls, IInv, Typed, RemovalMisses
<1>16. CASE AgentActs
  BY <1>16 DEF AgentActs, IInv, Typed, RemovalMisses, Agents, Histories
<1>17. CASE Move("claiming", "HUMAN_ACTIVE", "pausing")
  BY <1>17 DEF Move, IInv, Typed, RemovalMisses, Agents, Histories
<1>18. CASE Move("releasing", "AI_AUTO", "terminating")
  BY <1>18 DEF Move, IInv, Typed, RemovalMisses, Agents, Histories
<1>19. CASE PauseLive
  BY <1>19 DEF PauseLive, IInv, Typed, RemovalMisses, Agents, Histories
<1>20. CASE Cancel
  BY <1>20 DEF Cancel, Empties, Misses, IInv, Typed, RemovalMisses, Agents, Histories
<1>21. CASE Remove
  BY <1>21 DEF Remove, IInv, Typed, RemovalMisses, Agents, Histories
<1>22. CASE TerminatePaused
  BY <1>22 DEF TerminatePaused, Overtakes, IInv, Typed, RemovalMisses, Agents, Histories
<1>23. CASE Clear
  BY <1>23 DEF Clear, Empties, IInv, Typed, RemovalMisses, Agents, Histories
<1>24. ASSUME NEW i \in Sessions, TimePasses(i) PROVE RemovalMisses'
  BY <1>24 DEF TimePasses, IInv, Typed, RemovalMisses, Agents, Histories
<1>25. ASSUME NEW i \in Sessions, CronLists(i) PROVE RemovalMisses'
  BY <1>25 DEF CronLists, IInv, Typed, RemovalMisses, Agents, Histories
<1>26. CASE CronChecks
  BY <1>26 DEF CronChecks, IInv, Typed, RemovalMisses, Agents, Histories
<1>27. CASE CronUpdates
  BY <1>27 DEF CronUpdates, Overtakes, IInv, Typed, RemovalMisses, Agents, Histories
<1>28. CASE UNCHANGED vars
  BY <1>28 DEF vars, IInv, Typed, RemovalMisses, Agents, Histories
<1> QED
  BY <1>1, <1>2, <1>3, <1>4, <1>5, <1>6, <1>7, <1>8, <1>9, <1>10, <1>11, <1>12, <1>13,
     <1>14, <1>15, <1>16, <1>17, <1>18, <1>19, <1>20, <1>21, <1>22, <1>23, <1>24, <1>25,
     <1>26, <1>27, <1>28
     DEF Next, Agent

(* Every step keeps HumanIsUndisturbed.                                    *)
LEMMA HumanIsUndisturbedStep ==
  ASSUME IInv, [Next]_vars
  PROVE  HumanIsUndisturbed'
<1>1. ASSUME NEW m \in Messages, Decide(m) PROVE HumanIsUndisturbed'
  <2> DEFINE open == Newest(In(Live \cup {"PAUSED_FOR_HUMAN"}))
  <2>1. UNCHANGED <<mode, agent, engine>> /\ history'.raced = history.raced
    BY <1>1 DEF Decide, Overtakes, IInv, Typed, Histories
  <2>2. mode = "HUMAN_ACTIVE" => UNCHANGED session
    BY <1>1 DEF Decide
  <2> QED BY <2>1, <2>2 DEF IInv, HumanIsUndisturbed, In
<1>2. ASSUME NEW m \in Messages, Push(m) PROVE HumanIsUndisturbed'
  BY <1>2 DEF Push, Empties, Misses, Typed, Histories, IInv, HumanIsUndisturbed, In
<1>3. ASSUME NEW m \in Messages, RemoveEarlier(m) PROVE HumanIsUndisturbed'
  BY <1>3, LapseIsTyped DEF RemoveEarlier, IInv, Typed, HumanIsUndisturbed, In
<1>4. ASSUME NEW m \in Messages, Add(m) PROVE HumanIsUndisturbed'
  BY <1>4, LapseIsTyped DEF Add, IInv, Typed, HumanIsUndisturbed, In
<1>5. ASSUME NEW m \in Messages, EnqueueFails(m) PROVE HumanIsUndisturbed'
  BY <1>5, LapseIsTyped DEF EnqueueFails, IInv, Typed, HumanIsUndisturbed, In
<1>6. CASE TakeJob
  BY <1>6 DEF TakeJob, IdleEngine, IInv, Typed, HumanIsUndisturbed, In
<1>7. CASE Drain
  <2>1. history'.raced = history.raced
    BY <1>7, LapseIsTyped DEF Drain, Empties, IInv, Typed, Histories
  <2>2. engine.pc = "taken" /\ engine'.pc = "drained" /\ UNCHANGED <<mode, session, agent>>
    BY <1>7 DEF Drain, IInv, Typed, Engines
  <2> QED BY <2>1, <2>2 DEF IInv, HumanIsUndisturbed, In
<1>8. CASE Resolve
  <2>1. engine.pc = "drained" /\ UNCHANGED <<mode, agent, history>>
    BY <1>8 DEF Resolve
  <2>2. ASSUME NEW i \in Sessions, NEW status \in Statuses, ResolvesTo(i, status)
        PROVE  HumanIsUndisturbed'
    <3>1. engine'.pc = "resolved" /\ engine'.i = i /\ engine'.seen = status
      BY <2>2 DEF ResolvesTo, IInv, Typed, Engines
    <3>2. \A j \in Sessions : session'[j] = session[j] \/ (j = i /\ status = "ACTIVE")
      BY <2>2, StatusIsSet DEF ResolvesTo, IInv
    <3> QED BY <2>1, <3>1, <3>2 DEF IInv, HumanIsUndisturbed, In
  <2>3. CASE Returns /\ UNCHANGED session
    BY <2>1, <2>3, ReturnsReleases DEF IInv, HumanIsUndisturbed, In
  <2> QED BY <1>8, <2>2, <2>3, ResolvesASession
<1>9. CASE Hear
  <2>1. UNCHANGED <<mode, agent>> /\ engine.pc = "resolved" /\ history'.raced = history.raced
    BY <1>9 DEF Hear, Overtakes, IInv, Typed, Histories
  <2> SUFFICES ASSUME mode = "HUMAN_ACTIVE", agent.pc # "pausing", ~history.raced
               PROVE  /\ engine'.pc \notin {"heard", "looping", "pausing"}
                      /\ In(Live)' = {}
    BY <2>1 DEF HumanIsUndisturbed
  <2>2. \A i \in In(Live) : engine.i = i /\ engine.seen # "PAUSED_FOR_HUMAN"
    BY <2>1 DEF IInv, HumanIsUndisturbed
  <2>3. CASE engine.seen = "PAUSED_FOR_HUMAN"
    BY <1>9, <2>2, <2>3, ReturnsReleases DEF Hear, In
  <2>4. CASE engine.seen # "PAUSED_FOR_HUMAN"
    <3>1. Returns /\ session' = [j \in Sessions |-> IF j \in In(Live)
            THEN [session[j] EXCEPT !.status = "PAUSED_FOR_HUMAN"] ELSE session[j]]
      BY <1>9, <2>4 DEF Hear
    <3> QED BY <3>1, ReturnsReleases, LiveIsPaused DEF IInv, In
  <2> QED BY <2>3, <2>4
<1>10. CASE Advance
  BY <1>10 DEF Advance, Outcome, Overtakes, Typed, Histories, IInv, HumanIsUndisturbed, In
<1>11. CASE PauseForHuman
  BY <1>11 DEF PauseForHuman, IInv, HumanIsUndisturbed, In
<1>12. CASE JobEnds
  <2>1. engine'.pc = "idle" /\ UNCHANGED <<mode, session, agent>>
        /\ history'.raced = (history.raced \/ engine.pc = "resolved")
    BY <1>12 DEF JobEnds, IdleEngine, IInv, Typed, Histories
  <2> QED BY <2>1 DEF IInv, HumanIsUndisturbed, In
<1>13. CASE Forgotten
  BY <1>13 DEF Forgotten, IInv, HumanIsUndisturbed, In
<1>14. CASE WorkerDies
  <2>1. engine'.pc = "idle" /\ UNCHANGED <<mode, session, agent>>
        /\ history'.raced = (history.raced \/ engine.pc = "resolved")
    BY <1>14 DEF WorkerDies, IdleEngine, IInv, Typed, Histories
  <2> QED BY <2>1 DEF IInv, HumanIsUndisturbed, In
<1>15. CASE JobStalls
  BY <1>15, LapseIsTyped DEF JobStalls, IInv, Typed, HumanIsUndisturbed, In
<1>16. CASE AgentActs
  BY <1>16 DEF AgentActs, IInv, HumanIsUndisturbed, In
<1>17. CASE Move("claiming", "HUMAN_ACTIVE", "pausing")
  BY <1>17 DEF Move, IInv, HumanIsUndisturbed, In
<1>18. CASE Move("releasing", "AI_AUTO", "terminating")
  BY <1>18 DEF Move, IInv, HumanIsUndisturbed, In
<1>19. CASE PauseLive
  <2>1. UNCHANGED <<mode, engine>>
        /\ history'.raced = (history.raced \/ engine.pc \in {"heard", "looping", "pausing"})
    BY <1>19 DEF PauseLive, IInv, Typed, Histories
  <2>2. In(Live)' = {}
    BY <1>19, LiveIsPaused DEF PauseLive, IInv, In
  <2> QED BY <2>1, <2>2 DEF HumanIsUndisturbed
<1>20. CASE Cancel
  BY <1>20 DEF Cancel, Empties, Misses, Typed, Histories, IInv, HumanIsUndisturbed, In
<1>21. CASE Remove
  BY <1>21 DEF Remove, IInv, HumanIsUndisturbed, In
<1>22. CASE TerminatePaused
  BY <1>22 DEF TerminatePaused, Overtakes, Live, IInv, HumanIsUndisturbed, In
<1>23. CASE Clear
  BY <1>23 DEF Clear, Empties, Typed, Histories, IInv, HumanIsUndisturbed, In
<1>24. ASSUME NEW i \in Sessions, TimePasses(i) PROVE HumanIsUndisturbed'
  BY <1>24 DEF TimePasses, IInv, HumanIsUndisturbed, In
<1>25. ASSUME NEW i \in Sessions, CronLists(i) PROVE HumanIsUndisturbed'
  BY <1>25 DEF CronLists, IInv, HumanIsUndisturbed, In
<1>26. CASE CronChecks
  BY <1>26 DEF CronChecks, IInv, HumanIsUndisturbed, In
<1>27. CASE CronUpdates
  <2>1. cron.i \in Sessions
    BY <1>27 DEF CronUpdates, IInv, HoldersAreReal
  <2>2. \A i \in Sessions : session'[i].status \in Live => session[i].status \in Live
    BY <1>27, <2>1, StatusIsSet, ExpiryIsSet DEF CronUpdates, IInv, Statuses, Live, Ended
  <2>3. UNCHANGED <<mode, agent, engine>> /\ history'.raced = history.raced
    BY <1>27 DEF CronUpdates, Overtakes, IInv, Typed, Histories
  <2> QED BY <2>2, <2>3 DEF IInv, HumanIsUndisturbed, In
<1>28. CASE UNCHANGED vars
  BY <1>28 DEF vars, IInv, HumanIsUndisturbed, In
<1> QED
  BY <1>1, <1>2, <1>3, <1>4, <1>5, <1>6, <1>7, <1>8, <1>9, <1>10, <1>11, <1>12, <1>13,
     <1>14, <1>15, <1>16, <1>17, <1>18, <1>19, <1>20, <1>21, <1>22, <1>23, <1>24, <1>25,
     <1>26, <1>27, <1>28
     DEF Next, Agent

(* Every step keeps EndedIsReleased.                                       *)
LEMMA EndedIsReleasedStep ==
  ASSUME IInv, [Next]_vars
  PROVE  EndedIsReleased'
<1>1. ASSUME NEW m \in Messages, Decide(m) PROVE EndedIsReleased'
  <2> DEFINE open == Newest(In(Live \cup {"PAUSED_FOR_HUMAN"}))
             Intend(intent) == inbound' = [inbound EXCEPT ![m] =
                                            [pc |-> "decided", intent |-> intent]]
             DoNothing == inbound' = [inbound EXCEPT ![m].pc = "done"]
  <2>1. UNCHANGED <<job, engine>>
    BY <1>1 DEF Decide
  <2>2. ASSUME NEW i \in Sessions, NEW intent, Intend(intent), intent # i
        PROVE  Intended(i)' => Intended(i)
    BY <2>2 DEF Intended, IInv, Typed
  <2>3. ASSUME NEW i \in Sessions, DoNothing
        PROVE  Intended(i)' => Intended(i)
    BY <2>3 DEF Intended, IInv, Typed, Inbounds
  <2>4. CASE UNCHANGED <<session, history>> /\ (DoNothing \/ Intend(0))
    <3> HIDE DEF DoNothing, Intend
    <3> QED BY <2>1, <2>2, <2>3, <2>4, NoneIsNoSession, ReleasedIsKept DEF Advanced
  <2>5. CASE open \in In(Live) /\ Intend(open) /\ UNCHANGED <<session, history>>
    <3>1. open \in Sessions /\ session[open].status \notin Ended
      BY <2>5 DEF In, Live, Ended
    <3> HIDE DEF open, Intend
    <3> QED BY <2>1, <2>2, <2>5, <3>1, ReleasedIsKept DEF Advanced, IInv
  <2>6. CASE /\ open \in In(Live) /\ SetStatus(open, "TERMINATED")
             /\ Overtakes("router", {open}) /\ (DoNothing \/ Intend(0))
    <3>1. open \in Sessions
      BY <2>6 DEF In
    <3>2. \A i \in Sessions : Intended(i)' => Intended(i)
      <4> HIDE DEF DoNothing, Intend, open
      <4> QED BY <2>2, <2>3, <2>6, NoneIsNoSession
    <3>3. /\ history.overtaken \subseteq history'.overtaken
          /\ \A i \in Sessions \ history'.overtaken : i = open => ~HeldBesides("router", i)
      <4>1. Overtakes("router", {open}) /\ Typed
        BY <2>6 DEF IInv
      <4> HIDE DEF open, Intend, DoNothing
      <4> QED BY <3>1, <4>1, OvertakesGrows
    <3>4. \A i \in Sessions : i # open => session'[i] = session[i]
      BY <2>6, <3>1, StatusIsSet DEF IInv, Statuses, Ended
    <3> HIDE DEF open, Intend, DoNothing
    <3> QED BY <2>1, <3>2, <3>3, <3>4, ReleasedIsKept DEF Advanced, HeldBesides
  <2> QED BY <1>1, <2>4, <2>5, <2>6 DEF Decide
<1>2. ASSUME NEW m \in Messages, Push(m) PROVE EndedIsReleased'
  BY <1>2, NoneIsNoSession
     DEF Push, Empties, Misses, IInv, Typed, EndedIsReleased, Intended, Advanced, Histories
<1>3. ASSUME NEW m \in Messages, RemoveEarlier(m) PROVE EndedIsReleased'
  <2>1. history'.overtaken = history.overtaken
    BY <1>3, LapseIsTyped DEF RemoveEarlier, IInv, Typed
  <2>2. \A i \in Sessions : Intended(i)' => Intended(i)
    BY <1>3 DEF RemoveEarlier, Intended, IInv, Typed, Inbounds
  <2>3. \A i \in Sessions : Advanced(i)' => Advanced(i)
    BY <1>3, RemovedJob, NoneIsNoSession DEF RemoveEarlier, Advanced, NoJob, NoPayload, IInv
  <2> QED BY <1>3, <2>1, <2>2, <2>3, ReleasedIsKept DEF RemoveEarlier
<1>4. ASSUME NEW m \in Messages, Add(m) PROVE EndedIsReleased'
  <2>1. history'.overtaken = history.overtaken
    BY <1>4, LapseIsTyped DEF Add, IInv, Typed
  <2>2. \A i \in Sessions : Intended(i)' => Intended(i)
    BY <1>4, NoneIsNoSession DEF Add, Enqueued, Intended, IInv, Typed
  <2>3. ASSUME NEW i \in Sessions, Advanced(i)' PROVE Advanced(i) \/ Intended(i)
    <3>1. job' = job \/ job'.payload.intent = inbound[m].intent
      BY <1>4 DEF Add
    <3> QED BY <1>4, <2>3, <3>1 DEF Add, Advanced, Intended
  <2> QED BY <1>4, <2>1, <2>2, <2>3, ReleasedIsKept DEF Add
<1>5. ASSUME NEW m \in Messages, EnqueueFails(m) PROVE EndedIsReleased'
  <2>1. history'.overtaken = history.overtaken
    BY <1>5, LapseIsTyped DEF EnqueueFails, IInv, Typed
  <2>2. \A i \in Sessions : Intended(i)' => Intended(i)
    BY <1>5, NoneIsNoSession DEF EnqueueFails, Enqueued, Intended, IInv, Typed
  <2>3. \A i \in Sessions : Advanced(i)' => Advanced(i)
    BY <1>5 DEF EnqueueFails, Advanced
  <2> QED BY <1>5, <2>1, <2>2, <2>3, ReleasedIsKept DEF EnqueueFails
<1>6. CASE TakeJob
  <2>1. \A i \in Sessions : Advanced(i)' => Advanced(i)
    <3>1. engine.pc # "done" /\ job'.payload = job.payload /\ engine'.i = None
      BY <1>6 DEF TakeJob, IdleEngine, IInv, Typed, Jobs
    <3> QED BY <3>1, NoneIsNoSession DEF Advanced
  <2> QED BY <1>6, <2>1, ReleasedIsKept DEF TakeJob, Intended
<1>7. CASE Drain
  <2>1. history'.overtaken = history.overtaken
    BY <1>7, LapseIsTyped DEF Drain, Empties, IInv, Typed, Histories
  <2>2. \A i \in Sessions : Advanced(i)' => Advanced(i)
    BY <1>7 DEF Drain, Advanced, IInv, Typed, Engines
  <2> QED BY <1>7, <2>1, <2>2, ReleasedIsKept DEF Drain, Intended
<1>8. CASE Resolve
  <2>1. UNCHANGED <<inbound, job, history>> /\ engine.pc = "drained"
    BY <1>8 DEF Resolve
  <2>2. \A j \in Sessions : Intended(j)' => Intended(j)
    BY <2>1 DEF Intended
  <2>3. ASSUME NEW i \in Sessions, NEW status \in Statuses, ResolvesTo(i, status),
               NEW j \in Sessions, session'[j].status \in Ended
        PROVE  session[j].status \in Ended /\ (Advanced(j)' => Advanced(j))
    <3>1. session'[j] = session[j] /\ (j = i => status \notin Live)
      BY <2>3, StatusIsSet DEF ResolvesTo, IInv, Live, Ended
    <3>2. j = i => job.payload.intent = j
      BY <2>3, <3>1, StatusIsSet DEF ResolvesTo, IInv, Live, Ended
    <3>3. engine'.i = i
      BY <2>3 DEF ResolvesTo, IInv, Typed, Engines
    <3> QED BY <2>1, <2>3, <3>1, <3>2, <3>3 DEF Advanced
  <2>4. CASE Returns /\ UNCHANGED session
    BY <2>1, <2>2, <2>4, ReturnsReleases, ReleasedIsKept
  <2>5. ASSUME NEW i \in Sessions, NEW status \in Statuses, ResolvesTo(i, status)
        PROVE  EndedIsReleased'
    BY <2>1, <2>2, <2>3, <2>5, ReleasedIsKept
  <2> QED BY <1>8, <2>4, <2>5, ResolvesASession
<1>9. CASE Hear
  <2>1. engine.i \in Sessions
    BY <1>9 DEF Hear, IInv, HoldersAreReal, Acting
  <2>2. UNCHANGED <<inbound, job>> /\ engine.pc # "done" /\ (Returns \/ engine'.i = engine.i)
    <3>1. CASE engine' = [engine EXCEPT !.pc = "heard"]
      BY <1>9, <3>1 DEF Hear, IInv, Typed, Engines
    <3>2. CASE engine' = [engine EXCEPT !.pc = "heard", !.seen = session[engine.i].status]
      BY <1>9, <3>2 DEF Hear, IInv, Typed, Engines
    <3> QED BY <1>9, <3>1, <3>2 DEF Hear
  <2>3. \A i \in Sessions : (Intended(i)' => Intended(i)) /\ (Advanced(i)' => Advanced(i))
    BY <2>2, ReturnsReleases DEF Intended, Advanced
  <2>4. CASE UNCHANGED <<session, history>>
    BY <2>3, <2>4, ReleasedIsKept
  <2>5. CASE /\ session' = [j \in Sessions |-> IF j \in In(Live)
                  THEN [session[j] EXCEPT !.status = "PAUSED_FOR_HUMAN"] ELSE session[j]]
             /\ UNCHANGED history
    <3>1. \A i \in Sessions : session'[i].status \in Ended => session[i].status \in Ended
      BY <2>5, LiveIsPaused DEF IInv
    <3> QED BY <2>3, <2>5, <3>1, ReleasedIsKept
  <2>6. CASE session' = [session EXCEPT ![engine.i].expired = FALSE] /\ UNCHANGED history
    BY <2>1, <2>3, <2>6, ExpiryIsSet, ReleasedIsKept DEF IInv
  <2>7. CASE SetStatus(engine.i, "TERMINATED") /\ Overtakes("engine", {engine.i}) /\ Returns
    BY <2>1, <2>2, <2>7, EngineEnds DEF Statuses, Ended
  <2> QED BY <1>9, <2>4, <2>5, <2>6, <2>7 DEF Hear
<1>10. CASE Advance
  <2>1. engine.i \in Sessions
    BY <1>10 DEF Advance, IInv, HoldersAreReal, Acting
  <2>2. UNCHANGED <<inbound, job>> /\ engine.pc # "done" /\ (Returns \/ engine'.i = engine.i)
    <3>1. ASSUME NEW pc, engine' = [IdleEngine EXCEPT !.pc = pc, !.i = engine.i]
          PROVE  engine'.i = engine.i
      BY <3>1 DEF IdleEngine
    <3> QED BY <1>10, <3>1 DEF Advance, Outcome
  <2>3. \A i \in Sessions : (Intended(i)' => Intended(i)) /\ (Advanced(i)' => Advanced(i))
    BY <2>2, ReturnsReleases DEF Intended, Advanced
  <2>4. CASE UNCHANGED <<session, history>>
    BY <2>3, <2>4, ReleasedIsKept
  <2>5. ASSUME NEW status \in Live, SetStatus(engine.i, status), UNCHANGED history
        PROVE  EndedIsReleased'
    <3>1. \A i \in Sessions : session'[i].status \in Ended => session[i].status \in Ended
      BY <2>1, <2>5, StatusIsSet DEF IInv, Statuses, Live, Ended
    <3> QED BY <2>3, <2>5, <3>1, ReleasedIsKept
  <2>6. ASSUME NEW status \in Ended, SetStatus(engine.i, status),
               Overtakes("engine", {engine.i}), Returns
        PROVE  EndedIsReleased'
    BY <2>1, <2>2, <2>6, EngineEnds
  <2> QED BY <1>10, <2>4, <2>5, <2>6 DEF Advance, Outcome, Live
<1>11. CASE PauseForHuman
  <2>1. engine.i \in Sessions /\ UNCHANGED <<inbound, history>> /\ Returns
    BY <1>11 DEF PauseForHuman, IInv, HoldersAreReal, Acting
  <2>2. \A i \in Sessions : session'[i].status \in Ended => session[i].status \in Ended
    BY <1>11, <2>1, StatusIsSet DEF PauseForHuman, IInv, Statuses, Ended
  <2> QED BY <2>1, <2>2, ReturnsReleases, ReleasedIsKept DEF Intended
<1>12. CASE JobEnds
  <2>1. \A i \in Sessions : ~Advanced(i)'
    BY <1>12, NoneIsNoSession DEF JobEnds, Finished, NoPayload, IdleEngine, Advanced
  <2>2. history'.overtaken = history.overtaken
    BY <1>12 DEF JobEnds, IInv, Typed, Histories
  <2> QED BY <1>12, <2>1, <2>2, ReleasedIsKept DEF JobEnds, Intended
<1>13. CASE Forgotten
  <2>1. \A i \in Sessions : Advanced(i)' => Advanced(i)
    BY <1>13, NoneIsNoSession DEF Forgotten, NoJob, NoPayload, Advanced
  <2> QED BY <1>13, <2>1, ReleasedIsKept DEF Forgotten, Intended
<1>14. CASE WorkerDies
  <2>1. UNCHANGED <<session, inbound, job>> /\ engine'.pc = "idle" /\ engine'.i = None
    BY <1>14 DEF WorkerDies, IdleEngine
  <2>2. history'.overtaken = history.overtaken \cup {i \in In(Ended) : job.payload.intent = i}
    BY <1>14 DEF WorkerDies, IInv, Typed, Histories
  <2>3. \A i \in Sessions \ history'.overtaken : session[i].status \in Ended => ~Advanced(i)'
    BY <2>1, <2>2, NoneIsNoSession DEF Advanced, In
  <2> QED BY <2>1, <2>2, <2>3, ReleasedIsKept DEF Intended
<1>15. CASE JobStalls
  <2>1. history'.overtaken = history.overtaken
    BY <1>15, LapseIsTyped DEF JobStalls, IInv, Typed
  <2>2. \A i \in Sessions : Advanced(i)' => Advanced(i)
    BY <1>15, NoneIsNoSession
       DEF JobStalls, Finished, NoPayload, Advanced, IInv, Typed, Jobs
  <2> QED BY <1>15, <2>1, <2>2, ReleasedIsKept DEF JobStalls, Intended
<1>16. CASE AgentActs
  BY <1>16, NoneIsNoSession DEF AgentActs, IInv, EndedIsReleased, Intended, Advanced
<1>17. CASE Move("claiming", "HUMAN_ACTIVE", "pausing")
  BY <1>17, NoneIsNoSession DEF Move, IInv, EndedIsReleased, Intended, Advanced
<1>18. CASE Move("releasing", "AI_AUTO", "terminating")
  BY <1>18, NoneIsNoSession DEF Move, IInv, EndedIsReleased, Intended, Advanced
<1>19. CASE PauseLive
  <2>1. \A i \in Sessions : session'[i].status \in Ended => session[i].status \in Ended
    BY <1>19, LiveIsPaused DEF PauseLive, IInv
  <2>2. history'.overtaken = history.overtaken
    BY <1>19 DEF PauseLive, IInv, Typed, Histories
  <2> QED BY <1>19, <2>1, <2>2, ReleasedIsKept DEF PauseLive, Intended, Advanced
<1>20. CASE Cancel
  BY <1>20, NoneIsNoSession
     DEF Cancel, Empties, Misses, IInv, Typed, EndedIsReleased, Intended, Advanced, Histories
<1>21. CASE Remove
  <2>1. \A i \in Sessions : Advanced(i)' => Advanced(i)
    BY <1>21, RemovedJob, NoneIsNoSession DEF Remove, Advanced, NoJob, NoPayload, IInv
  <2> QED BY <1>21, <2>1, ReleasedIsKept DEF Remove, Intended
<1>22. CASE TerminatePaused
  <2>1. history'.overtaken = history.overtaken \cup
          {i \in In({"PAUSED_FOR_HUMAN"}) : HeldBesides("agent", i)}
    <3>1. Overtakes("agent", In({"PAUSED_FOR_HUMAN"})) /\ In({"PAUSED_FOR_HUMAN"}) \subseteq Sessions
      BY <1>22 DEF TerminatePaused, In
    <3> QED BY <3>1, OvertakesGrows DEF IInv
  <2>2. UNCHANGED <<inbound, job, engine>>
    BY <1>22 DEF TerminatePaused
  <2>3. \A i \in Sessions : i \notin In({"PAUSED_FOR_HUMAN"}) => session'[i] = session[i]
    BY <1>22 DEF TerminatePaused, In
  <2> QED BY <2>1, <2>2, <2>3, ReleasedIsKept DEF HeldBesides, Intended, Advanced
<1>23. CASE Clear
  BY <1>23, NoneIsNoSession
     DEF Clear, Empties, IInv, Typed, EndedIsReleased, Intended, Advanced, Histories
<1>24. ASSUME NEW i \in Sessions, TimePasses(i) PROVE EndedIsReleased'
  <2>1. \A j \in Sessions : session'[j].status = session[j].status
    BY <1>24, ExpiryIsSet DEF TimePasses, IInv
  <2> QED BY <1>24, <2>1, ReleasedIsKept DEF TimePasses, Intended, Advanced
<1>25. ASSUME NEW i \in Sessions, CronLists(i) PROVE EndedIsReleased'
  BY <1>25 DEF CronLists, IInv, EndedIsReleased, Intended, Advanced
<1>26. CASE CronChecks
  BY <1>26 DEF CronChecks, IInv, EndedIsReleased, Intended, Advanced
<1>27. CASE CronUpdates
  <2>1. cron.i \in Sessions /\ UNCHANGED <<inbound, job, engine>>
    BY <1>27 DEF CronUpdates, IInv, HoldersAreReal
  <2>2. \A i \in Sessions : (Intended(i)' => Intended(i)) /\ (Advanced(i)' => Advanced(i))
    BY <2>1 DEF Intended, Advanced
  <2>3. CASE SetStatus(cron.i, "TERMINATED") /\ Overtakes("cron", {cron.i})
    <3>1. /\ history.overtaken \subseteq history'.overtaken
          /\ cron.i \notin history'.overtaken => ~HeldBesides("cron", cron.i)
      BY <2>1, <2>3, OvertakesGrows DEF IInv
    <3>2. \A i \in Sessions : i # cron.i => session'[i] = session[i]
      BY <2>1, <2>3, StatusIsSet DEF IInv, Statuses, Ended
    <3> QED BY <2>1, <2>2, <3>1, <3>2, ReleasedIsKept DEF HeldBesides
  <2>4. CASE session' = [session EXCEPT ![cron.i].expired = FALSE] /\ UNCHANGED history
    BY <2>1, <2>2, <2>4, ExpiryIsSet, ReleasedIsKept DEF IInv
  <2> QED BY <1>27, <2>3, <2>4 DEF CronUpdates
<1>28. CASE UNCHANGED vars
  BY <1>28 DEF vars, IInv, EndedIsReleased, Intended, Advanced
<1> QED
  BY <1>1, <1>2, <1>3, <1>4, <1>5, <1>6, <1>7, <1>8, <1>9, <1>10, <1>11, <1>12, <1>13,
     <1>14, <1>15, <1>16, <1>17, <1>18, <1>19, <1>20, <1>21, <1>22, <1>23, <1>24, <1>25,
     <1>26, <1>27, <1>28
     DEF Next, Agent

-----------------------------------------------------------------------------
(* The inductive invariant holds at first.                                 *)
LEMMA InitInv == Init => IInv
<1> SUFFICES ASSUME Init PROVE IInv
  OBVIOUS
<1>1. Typed
  BY DEF Init, Typed, Modes, Rows, Statuses, Inbounds, Jobs, KeyStates, JobStates, Payloads,
         NoPayload, Engines, IdleEngine, Agents, Crons, IdleCron, Histories
<1>2. HoldersAreReal /\ NoStrandedText /\ RemovalMisses
  BY DEF Init, HoldersAreReal, NoStrandedText, Unserved, RemovalMisses, IdleEngine, IdleCron,
         Acting
<1>3. HumanIsUndisturbed /\ EndedIsReleased
  BY DEF Init, HumanIsUndisturbed, EndedIsReleased, Ended
<1> QED
  BY <1>1, <1>2, <1>3 DEF IInv

(* Every step keeps it.                                                    *)
LEMMA StepInv == IInv /\ [Next]_vars => IInv'
  BY TypedStep, HoldersAreRealStep, NoStrandedTextStep, RemovalMissesStep,
     HumanIsUndisturbedStep, EndedIsReleasedStep DEF IInv

(* The inductive invariant holds always.                                   *)
LEMMA InvHolds == Spec => []IInv
  BY InitInv, StepInv, PTL DEF Spec

(* Every reachable state has the types declared: in particular an advance  *)
(* runs only while the queue has the job active, and a tap never lies in   *)
(* the buffer.                                                             *)
THEOREM TypeCorrect == Spec => []TypeOK
<1>1. IInv => TypeOK
  BY DEF IInv, Typed, TypeOK, Rows, Inbounds, Jobs, Engines, Agents, Crons,
         Histories
<1> QED
  BY <1>1, InvHolds, PTL

(* A text in the buffer has a listener or a job to come that will merge it *)
(* (the push, the removal and addition of Driver.enqueue, the drain of the *)
(* advance, redelivery of a stalled job; the cancellation by an agent drops*)
(* the buffer before the job), outside the lapses of the code that the     *)
(* property names.                                                         *)
THEOREM TextsAreNeverStranded == Spec => []NoStrandedText
<1>1. IInv => NoStrandedText
  BY DEF IInv
<1> QED
  BY <1>1, InvHolds, PTL

(* A human who has taken over (takeover, onAgentReply) finds no session    *)
(* live, however the routers, the advances and the cron interleave, unless *)
(* an advance had already passed #silenceIfHumanActive or died before it.  *)
THEOREM HumanAlwaysKeeps == Spec => []HumanKeepsTheConversation
<1>1. IInv => HumanKeepsTheConversation
  BY DEF IInv, HumanIsUndisturbed, HumanKeepsTheConversation
<1> QED
  BY <1>1, InvHolds, PTL

(* No step brings a session back that ended while no listener, job or      *)
(* advance of another was about to advance it, although every update is by *)
(* its id alone and the job of a dead worker runs again.                   *)
THEOREM EndedIsFinal == Spec => EndedStaysEnded
<1> DEFINE Stays == \A i \in Sessions \ history.overtaken :
                      session[i].status \in Ended => session'[i].status \in Ended
<1>1. ASSUME IInv, [Next]_vars, NEW i \in Sessions \ history.overtaken,
             session[i].status \in Ended
      PROVE  session'[i].status \in Ended
  <2>1. /\ engine.i # i /\ session[i].status \notin Live
        /\ session[i].status # "none" /\ session[i].status # "PAUSED_FOR_HUMAN"
    BY <1>1 DEF IInv, EndedIsReleased, Advanced, Ended, Live
  <2>2. ASSUME NEW j \in Sessions, NEW status \in Statuses, SetStatus(j, status), j # i
        PROVE  session'[i] = session[i]
    BY <1>1, <2>2, StatusIsSet DEF IInv
  <2>3. ASSUME NEW j \in Sessions, NEW b \in BOOLEAN, session' = [session EXCEPT ![j].expired = b]
        PROVE  session'[i].status = session[i].status
    BY <1>1, <2>3, ExpiryIsSet DEF IInv
  <2>4. Ended \subseteq Statuses /\ Live \subseteq Statuses /\ "PAUSED_FOR_HUMAN" \in Statuses
        /\ "ACTIVE" \in Live /\ "WAITING_FOR_INPUT" \in Live /\ "TERMINATED" \in Ended
    BY DEF Statuses, Live, Ended
  <2>5. ASSUME NEW m \in Messages, Decide(m) PROVE session'[i].status \in Ended
    <3> DEFINE open == Newest(In(Live \cup {"PAUSED_FOR_HUMAN"}))
    <3>1. open \in In(Live) => open \in Sessions /\ open # i
      BY <2>1 DEF In
    <3>2. CASE UNCHANGED session
      BY <1>1, <3>2
    <3>3. CASE open \in In(Live) /\ SetStatus(open, "TERMINATED")
      <4> HIDE DEF open
      <4> QED BY <1>1, <2>2, <2>4, <3>1, <3>3
    <3> QED BY <2>5, <3>2, <3>3 DEF Decide
  <2>6. CASE Resolve
    <3>1. ASSUME NEW j \in Sessions, NEW status \in Statuses, ResolvesTo(j, status)
          PROVE  session'[i] = session[i]
      BY <1>1, <2>1, <2>2, <3>1 DEF ResolvesTo
    <3> QED BY <1>1, <2>6, <3>1, ResolvesASession
  <2>7. CASE Hear
    <3>1. engine.i \in Sessions
      BY <1>1, <2>7 DEF Hear, IInv, HoldersAreReal, Acting
    <3>2. CASE UNCHANGED session
      BY <1>1, <3>2
    <3>3. CASE session' = [j \in Sessions |-> IF j \in In(Live)
                  THEN [session[j] EXCEPT !.status = "PAUSED_FOR_HUMAN"] ELSE session[j]]
      BY <1>1, <2>1, <3>3 DEF In
    <3>4. CASE session' = [session EXCEPT ![engine.i].expired = FALSE]
      BY <1>1, <2>3, <3>1, <3>4
    <3>5. CASE SetStatus(engine.i, "TERMINATED")
      BY <1>1, <2>1, <2>2, <2>4, <3>1, <3>5
    <3> QED BY <2>7, <3>2, <3>3, <3>4, <3>5 DEF Hear
  <2>8. CASE Advance
    <3>1. engine.i \in Sessions
      BY <1>1, <2>8 DEF Advance, IInv, HoldersAreReal, Acting
    <3>2. UNCHANGED session \/ \E status \in Statuses : SetStatus(engine.i, status)
      BY <2>4, <2>8 DEF Advance, Outcome
    <3> QED BY <1>1, <2>1, <2>2, <3>1, <3>2
  <2>9. CASE PauseForHuman
    <3>1. engine.i \in Sessions
      BY <1>1, <2>9 DEF PauseForHuman, IInv, HoldersAreReal, Acting
    <3> QED BY <1>1, <2>1, <2>2, <2>4, <2>9, <3>1 DEF PauseForHuman
  <2>10. CASE PauseLive
    BY <1>1, <2>1, <2>10 DEF PauseLive, In
  <2>11. CASE TerminatePaused
    BY <1>1, <2>1, <2>11 DEF TerminatePaused
  <2>12. ASSUME NEW j \in Sessions, TimePasses(j) PROVE session'[i].status \in Ended
    BY <1>1, <2>3, <2>12 DEF TimePasses
  <2>13. CASE CronUpdates
    <3>1. cron.i \in Sessions
      BY <1>1, <2>13 DEF CronUpdates, IInv, HoldersAreReal
    <3>2. CASE SetStatus(cron.i, "TERMINATED")
      BY <1>1, <2>2, <2>4, <3>1, <3>2, StatusIsSet DEF IInv
    <3>3. CASE session' = [session EXCEPT ![cron.i].expired = FALSE]
      BY <1>1, <2>3, <3>1, <3>3
    <3> QED BY <2>13, <3>2, <3>3 DEF CronUpdates
  <2>14. CASE UNCHANGED session
    BY <1>1, <2>14
  <2> QED
    BY <1>1, <2>5, <2>6, <2>7, <2>8, <2>9, <2>10, <2>11, <2>12, <2>13, <2>14
       DEF Next, Agent, Push, RemoveEarlier, Add, EnqueueFails, TakeJob, Drain, JobEnds,
           Forgotten, WorkerDies, JobStalls, AgentActs, Move, Cancel, Remove, Clear,
           CronLists, CronChecks, vars
<1>2. IInv /\ [Next]_vars => [Stays]_vars
  BY <1>1 DEF vars
<1> QED
  BY <1>2, InvHolds, PTL DEF Spec, EndedStaysEnded
=============================================================================
