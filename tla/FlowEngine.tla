------------------------------ MODULE FlowEngine ------------------------------
(***************************************************************************)
(* How one session walks through published flows: the run-until-wait loop  *)
(* of services/flow/flow_execution_engine.ts, the call stack of menus and  *)
(* subflows (flow_stack_manager.ts) and the questions the nodes send       *)
(* (flow_outbound_adapter.ts).                                             *)
(*                                                                         *)
(* A flow stands for its published version.  The jobs of a conversation    *)
(* run one at a time, and the job of a worker that died is delivered again *)
(* (bullmq_driver.ts); who starts them, and what else changes the session  *)
(* meanwhile, is in FlowSessions.                                          *)
(***************************************************************************)
EXTENDS Integers, SequencesExt

CONSTANTS
  Flows, Nodes, Handles, \* a handle is the id of a button, row or branch
  StartFlow,   \* the flow that a trigger starts
  Trigger,     \* the TRIGGER node of each flow
  Type,        \* the type of each node
  FlowOf,      \* the flow of each node
  Unlabeled,   \* the target of a node's edge without a handle, or None
  Labeled,     \* for a node, the targets of its handles that have an edge
  Navigation,  \* for a menu, the handles that are not DEFAULT
  Subflow,     \* the flow that a SUBFLOW node calls
  Waits,       \* the MESSAGE nodes that wait for a response and store it
  PassThrough, \* the SUBFLOW nodes that pass their variables on
  None, Text,  \* no node; a reply in words
  MaxDepth,    \* MAX_FLOW_STACK_DEPTH
  MaxSteps,    \* MAX_STEPS_PER_ADVANCE
  MaxFaults    \* bound on crashes and failed sends, for TLC

NodeTypes == {"TRIGGER", "MESSAGE", "TEMPLATE", "MENU", "CONDITION", "SUBFLOW", "AI_RAG",
              "HUMAN_HANDOVER", "EXIT"}
Menus == {n \in Nodes : Type[n] = "MENU"}
Calls == {n \in Nodes : Type[n] = "SUBFLOW"}

-----------------------------------------------------------------------------
(* What validateFlowGraph accepts when a flow is published.                *)
HasEdge(n) == Unlabeled[n] # None                \* validateUnlabeledOutgoing
Declared(n) == DOMAIN Labeled[n]                 \* validateDeclaredHandles
Targets(n) == {Labeled[n][h] : h \in Declared(n)} \cup ({Unlabeled[n]} \ {None})

ValidMenu(n) == /\ ~HasEdge(n) /\ Declared(n) \cup DOMAIN Navigation[n] # {}
                /\ Range(Navigation[n]) \subseteq {"BACK", "MAIN_MENU", "STOP"}
ValidCondition(n) == ~HasEdge(n) /\ Cardinality(Declared(n)) >= 2
ValidSubflow(n) == Declared(n) = {} /\ Subflow[n] \in Flows \ {FlowOf[n]}
ValidAiRag(n) == Cardinality(Declared(n)) <= 1 /\ (Declared(n) # {} => ~HasEdge(n))

ValidNode(n) ==
  CASE Type[n] \in {"TRIGGER", "TEMPLATE"}    -> HasEdge(n) /\ Declared(n) = {}
    [] Type[n] = "MESSAGE"   -> (HasEdge(n) \/ n \in Waits) /\ Declared(n) = {}
    [] Type[n] = "MENU"                       -> ValidMenu(n)
    [] Type[n] = "CONDITION"                  -> ValidCondition(n)
    [] Type[n] = "SUBFLOW"                    -> ValidSubflow(n)
    [] Type[n] = "AI_RAG"                     -> ValidAiRag(n)
    [] Type[n] \in {"HUMAN_HANDOVER", "EXIT"} -> Targets(n) = {}

(* walkReachable: no proper part of the nodes holds the trigger and is     *)
(* closed under the edges.                                                 *)
Reachable(start, nodes) ==
  \A part \in SUBSET nodes :
    start \in part /\ (\A n \in part : Targets(n) \subseteq part) => part = nodes

ValidFlow(f) ==
  LET nodes == {n \in Nodes : FlowOf[n] = f} IN
  /\ {n \in nodes : Type[n] = "TRIGGER"} = {Trigger[f]}
  /\ \A n \in nodes : Targets(n) \subseteq nodes /\ ValidNode(n)
  /\ Reachable(Trigger[f], nodes)

ASSUME GraphAssumption ==
  /\ StartFlow \in Flows /\ {None, Text} \cap (Nodes \cup Handles) = {}
  /\ Trigger \in [Flows -> Nodes] /\ FlowOf \in [Nodes -> Flows]
  /\ Type \in [Nodes -> NodeTypes]
  /\ Unlabeled \in [Nodes -> Nodes \cup {None}]
  /\ DOMAIN Subflow = Calls /\ PassThrough \subseteq Calls
  /\ Waits \subseteq {n \in Nodes : Type[n] = "MESSAGE"}
  /\ \A f \in Flows : ValidFlow(f)

ASSUME BoundsAssumption == {MaxDepth, MaxSteps, MaxFaults} \subseteq Nat \ {0}

VARIABLES
  session,  \* the row of flow_sessions
  phase,    \* of the job: running the loop, at rest after it, or its worker dead
  job,      \* its payload, and what happened under it
  steps,    \* the steps of the loop
  unwound,  \* history: MAIN_MENU left a return frame at the root
  faults

vars == <<session, phase, job, steps, unwound, faults>>

-----------------------------------------------------------------------------
Live == {"ACTIVE", "WAITING_FOR_INPUT"}
Ended == {"COMPLETED", "TERMINATED"}
Held == {"WAITING_FOR_INPUT", "PAUSED_FOR_HUMAN"}
Replies == Handles \cup {Text}
NoSession == [status |-> "none", node |-> None, stack |-> <<>>, variables |-> {}]
NewJob(reply) == [reply |-> reply, asked |-> 0, taken |-> 0, cuts |-> 0, rests |-> 0]

Frames == [kind: {"menu", "subflow"}, node: Nodes, variables: SUBSET Waits]

TypeOK ==
  /\ session \in [status: {"none", "ACTIVE"} \cup Held \cup Ended,
                  node: Nodes \cup {None},
                  stack: Seq(Frames),
                  variables: SUBSET Waits] \* the nodes whose answers it holds
  /\ Len(session.stack) <= MaxDepth
  /\ phase \in {"idle", "running", "resting", "dead"}
  /\ job \in [reply: Replies \cup {None}, \* None: it starts a flow
              asked: Nat,  \* the questions that were sent
              taken: Nat,  \* the times a waiting node took the reply
              cuts: Nat,   \* deaths between a question and the session's update
              rests: Nat]  \* deaths between the last update and the job's end
  /\ steps \in 0..MaxSteps
  /\ unwound \in BOOLEAN
  /\ faults \in Nat

Init ==
  /\ session = NoSession
  /\ phase = "idle"
  /\ job = NewJob(None)
  /\ steps = 0
  /\ unwound = FALSE
  /\ faults = 0

-----------------------------------------------------------------------------
Fault == faults < MaxFaults /\ faults' = faults + 1
Flow == FlowOf[session.node]
Goto(n) == session' = [session EXCEPT !.node = n, !.status = "ACTIVE"]
End(status) == session' = [session EXCEPT !.status = status]

Frame(kind) == [kind |-> kind, node |-> session.node, variables |-> session.variables]

(* ensureMenuFrame; frames of menus name their node, hence flow and version*)
OnTop == /\ session.stack # <<>>
         /\ Last(session.stack).kind = "menu"
         /\ Last(session.stack).node = session.node
StackWithMenu == IF OnTop THEN session.stack ELSE Append(session.stack, Frame("menu"))

(* Mutant: the frame of the subflow stays on the stack.                    *)
ReturnToKeepsFrame(frame, stack) ==
  LET next == Unlabeled[frame.node] IN
  session' = [session EXCEPT !.stack = Append(stack, frame),
                             !.variables = frame.variables,
                             !.node = IF next = None THEN frame.node ELSE next,
                             !.status = IF next = None THEN "COMPLETED" ELSE "ACTIVE"]

(* #returnToParentAfterSubflow                                             *)
ReturnTo(frame, stack) ==
  LET next == Unlabeled[frame.node] IN
  session' = [session EXCEPT !.stack = stack,
                             !.variables = frame.variables,
                             !.node = IF next = None THEN frame.node ELSE next,
                             !.status = IF next = None THEN "COMPLETED" ELSE "ACTIVE"]

-----------------------------------------------------------------------------
(* #handleBackNavigation                                                   *)
Back ==
  LET stack == session.stack
      rest == Front(stack) IN
  IF Len(stack) <= 1 THEN Goto(session.node)
  ELSE IF Last(rest).kind = "subflow" THEN ReturnTo(Last(rest), Front(rest))
  ELSE session' = [session EXCEPT !.node = Last(rest).node, !.stack = rest,
                                  !.status = "ACTIVE"]

(* Mutant: the variables of the root come back also within its flow.       *)
MainMenuForgets ==
  LET root == Head(session.stack) IN
  session' = [session EXCEPT !.node = root.node, !.stack = <<root>>,
                             !.status = "ACTIVE", !.variables = root.variables]

(* #handleMainMenuNavigation, unwindToRoot: to the root frame, whatever its*)
(* kind; a menu that is waiting has pushed a frame.                        *)
MainMenu ==
  LET root == Head(session.stack) IN
  session' = [session EXCEPT !.node = root.node, !.stack = <<root>>,
                             !.status = "ACTIVE",
                             !.variables = IF FlowOf[root.node] = Flow THEN @
                                           ELSE root.variables]

PauseForHuman == End("PAUSED_FOR_HUMAN")

(* #tryTangent: the AI answers beside the flow or hands over, or neither.  *)
Tangent == UNCHANGED session \/ PauseForHuman

(* #consumeWaitingInput of a menu.                                         *)
ConsumeChoice(reply) ==
  LET n == session.node IN
  \/ /\ reply \in DOMAIN Navigation[n]
     /\ \/ Navigation[n][reply] = "BACK" /\ Back
        \/ Navigation[n][reply] = "MAIN_MENU" /\ MainMenu
        \/ Navigation[n][reply] = "STOP" /\ End("TERMINATED")
  \/ /\ reply \in DOMAIN Labeled[n] \ DOMAIN Navigation[n]
     /\ Goto(Labeled[n][reply])
  \/ /\ reply \notin DOMAIN Labeled[n] \cup DOMAIN Navigation[n]
     /\ Tangent

(* ... of a message: a tangent, or the reply is stored.                    *)
ConsumeAnswer(reply) ==
  LET n == session.node IN
  \/ Tangent
  \/ session' = [session EXCEPT
                   !.variables = @ \cup {n},
                   !.node = IF Unlabeled[n] = None THEN @ ELSE Unlabeled[n],
                   !.status = IF Unlabeled[n] = None THEN "COMPLETED" ELSE "ACTIVE"]

Consume(reply) ==
  \/ Type[session.node] = "MENU" /\ ConsumeChoice(reply)
  \/ Type[session.node] = "MESSAGE" /\ ConsumeAnswer(reply)

(* History: MAIN_MENU takes a return frame for the root menu.              *)
LeavesFrame(reply) ==
  /\ Type[session.node] = "MENU" /\ reply \in DOMAIN Navigation[session.node]
  /\ Navigation[session.node][reply] = "MAIN_MENU"
  /\ Head(session.stack).kind = "subflow"

(* Mutant: a question takes a reply whether it has been asked or not.      *)
AwaitsUnasked ==
  \/ session.status = "WAITING_FOR_INPUT"
  \/ session.status = "ACTIVE" /\ session.node \in Waits

Awaits == session.status = "WAITING_FOR_INPUT"

(* A hold or an end stops the loop.                                        *)
AfterUpdate == IF session'.status = "ACTIVE" THEN "running" ELSE "resting"

(* advance, up to its loop.  A start finds the live session, whose node    *)
(* runs again, or opens one at the trigger of its flow (#resolveSession).  *)
Opens(j) ==
  /\ j.reply = None /\ session.status \notin Live
  /\ session' = [NoSession EXCEPT !.status = "ACTIVE", !.node = Trigger[StartFlow]]
  /\ unwound' = FALSE
  /\ job' = j
  /\ phase' = "running"

(* A waiting node takes the reply ...                                      *)
Takes(j) ==
  /\ j.reply # None /\ Awaits
  /\ Consume(j.reply)
  /\ unwound' = (unwound \/ LeavesFrame(j.reply))
  /\ job' = [j EXCEPT !.taken = @ + 1]
  /\ phase' = AfterUpdate

(* ... a paused session is left alone, any other goes on at its node: one  *)
(* that was cut off, and one that has ended.                               *)
GoesOn(j) ==
  /\ IF j.reply = None THEN session.status \in Live ELSE ~Awaits
  /\ phase' = IF session.status = "PAUSED_FOR_HUMAN" THEN "resting" ELSE "running"
  /\ job' = j
  /\ UNCHANGED <<session, unwound>>

Advance(j) ==
  /\ Opens(j) \/ Takes(j) \/ GoesOn(j)
  /\ steps' = 0
  /\ UNCHANGED faults

(* A job for a new message.                                                *)
Begin(reply) ==
  /\ phase = "idle"
  /\ reply # None => session.status # "none"
  /\ Advance(NewJob(reply))

-----------------------------------------------------------------------------
(* The nodes, as executeNode runs them.                                    *)
Follow == IF Unlabeled[session.node] = None THEN End("COMPLETED")
          ELSE Goto(Unlabeled[session.node])
FollowOneOf(handles) == \E h \in handles : Goto(Labeled[session.node][h])

(* Mutant: the loop goes on after a question.                              *)
MessageGoesOn == Follow

Message == IF session.node \in Waits THEN End("WAITING_FOR_INPUT") ELSE Follow

(* #presentInteractiveMenu                                                 *)
Menu ==
  IF OnTop \/ Len(session.stack) < MaxDepth
    THEN session' = [session EXCEPT !.stack = StackWithMenu,
                                    !.status = "WAITING_FOR_INPUT"]
    ELSE End("TERMINATED")

(* #executeSubflow                                                         *)
Call ==
  IF Len(session.stack) < MaxDepth
    THEN session' = [session EXCEPT
                       !.node = Trigger[Subflow[session.node]],
                       !.stack = Append(@, Frame("subflow")),
                       !.status = "ACTIVE",
                       !.variables = IF session.node \in PassThrough THEN @ ELSE {}]
    ELSE End("TERMINATED")

(* #executeAiRag: an answer, the edge for its lack, or a handover.         *)
AiRag(answered) ==
  \/ answered /\ Follow
  \/ ~answered /\ FollowOneOf(DOMAIN Labeled[session.node])
  \/ ~answered /\ DOMAIN Labeled[session.node] = {} /\ PauseForHuman

(* #tryExitSubflow: to the caller of the innermost subflow frame.          *)
Callers == {i \in DOMAIN session.stack : session.stack[i].kind = "subflow"}
Exit ==
  IF Callers = {} THEN End("COMPLETED")
  ELSE LET i == Max(Callers) IN
       ReturnTo(session.stack[i], SubSeq(session.stack, 1, i - 1))

(* Every branch of a published CONDITION has an edge.                      *)
Execute(answered) ==
  LET type == Type[session.node] IN
  \/ type = "TRIGGER" /\ Follow
  \/ type \in {"MESSAGE", "TEMPLATE"} /\ Message
  \/ type = "MENU" /\ Menu
  \/ type = "CONDITION" /\ FollowOneOf(DOMAIN Labeled[session.node])
  \/ type = "SUBFLOW" /\ Call
  \/ type = "AI_RAG" /\ AiRag(answered)
  \/ type = "HUMAN_HANDOVER" /\ PauseForHuman
  \/ type = "EXIT" /\ Exit

(* Mutant: the loop has no limit.                                          *)
OutOfStepsNever == FALSE

OutOfSteps == steps = MaxSteps

(* The node asks the contact something - if the adapter finds something to *)
(* send in it; the session waits either way.  The idempotency keys of a    *)
(* flow's messages keep nothing back: they count only with a sender.       *)
Asking ==
  \/ session.node \in Waits
  \/ session.node \in Menus /\ (OnTop \/ Len(session.stack) < MaxDepth)
Sent == IF Asking THEN {0, 1} ELSE {0}

Step ==
  /\ phase = "running" /\ ~OutOfSteps
  /\ \E answered \in BOOLEAN : Execute(answered)
  /\ \E sent \in Sent : job' = [job EXCEPT !.asked = @ + sent]
  /\ steps' = IF steps < MaxSteps THEN steps + 1 ELSE steps
  /\ phase' = AfterUpdate
  /\ UNCHANGED <<unwound, faults>>

(* An error in a node, perhaps after it sent, ends the session.            *)
NodeFails ==
  /\ phase = "running" /\ ~OutOfSteps
  /\ Fault
  /\ End("TERMINATED")
  /\ \E sent \in Sent : job' = [job EXCEPT !.asked = @ + sent]
  /\ phase' = "resting"
  /\ UNCHANGED <<steps, unwound>>

StepsRunOut ==
  /\ phase = "running" /\ OutOfSteps
  /\ phase' = "resting"
  /\ UNCHANGED <<session, job, steps, unwound, faults>>

JobEnds ==
  /\ phase' = "idle"
  /\ job' = NewJob(None)
  /\ steps' = 0
  /\ UNCHANGED <<session, unwound>>

Finish == phase = "resting" /\ JobEnds /\ UNCHANGED faults

(* The handler throws outside of a node: the job has failed.               *)
Throw == phase = "running" /\ Fault /\ JobEnds

(* The worker dies, perhaps between sending and updating the session.      *)
Die ==
  /\ Fault
  /\ \/ phase = "running" /\ \E sent \in Sent :
          job' = [job EXCEPT !.asked = @ + sent, !.cuts = @ + sent]
     \/ phase = "resting" /\ job' = [job EXCEPT !.rests = @ + 1]
  /\ phase' = "dead"
  /\ UNCHANGED <<session, steps, unwound>>

(* BullMQ finds the job stalled and delivers it again, or gives it up.     *)
Stalls == phase = "dead" /\ (Advance(job) \/ (JobEnds /\ UNCHANGED faults))

Next ==
  \/ \E reply \in Replies \cup {None} : Begin(reply)
  \/ Step \/ NodeFails \/ StepsRunOut \/ Finish \/ Throw \/ Die \/ Stalls

Spec == Init /\ [][Next]_vars

(* Workers run, and look for stalled jobs.                                 *)
FairSpec == Spec /\ WF_vars(Step \/ StepsRunOut \/ Finish \/ Stalls)

-----------------------------------------------------------------------------
(* The return frames on the stack are the calls the session is in: what    *)
(* lies above one, up to the next, was pushed in the flow that it calls,   *)
(* and the session is in the flow that the innermost one calls - unless    *)
(* MAIN_MENU, in a subflow entered before any menu, went to the node of    *)
(* the return frame and left the frame.                                    *)
Depths == 1..(Len(session.stack) + 1)
FlowAt(depth) ==
  IF depth \in DOMAIN session.stack THEN FlowOf[session.stack[depth].node] ELSE Flow
IsCaller(i, depth) == \* frame i is the innermost call at a depth; 0: none
  /\ i < depth
  /\ i # 0 => session.stack[i].kind = "subflow"
  /\ \A k \in (i + 1)..(depth - 1) : session.stack[k].kind # "subflow"
Called(i) == IF i = 0 THEN StartFlow ELSE Subflow[session.stack[i].node]
FramesAreCallers ==
  session.status # "none" /\ ~unwound =>
    \A i \in 0..Len(session.stack), depth \in Depths :
      IsCaller(i, depth) => FlowAt(depth) = Called(i)

(* A message of the contact makes the flow ask at most one question: it    *)
(* waits for the answer - but for a question whose worker died before the  *)
(* session was updated, or that a redelivered job sent from where the      *)
(* session had come to rest.                                               *)
AskedOncePerMessage == job.asked <= 1 + job.cuts + job.rests

(* A reply answers one question: a redelivered job does not give it to the *)
(* next node that waits, unless the session had come to rest there.        *)
ReplyIsTakenOnce == job.taken <= 1 + job.rests

(* No answer is lost while the session stays in the flow that asked for it,*)
(* wherever BACK and MAIN_MENU lead, also when a redelivered job revives it*)
AnswersAreKept ==
  [][/\ session.status \in Live \/ phase = "running"
     /\ Flow' = Flow /\ ~unwound'
     => session.variables \subseteq session'.variables]_vars

(* A job comes to an end, also in a flow that goes round in circles.       *)
EngineYields == phase # "idle" ~> phase = "idle"

(* The session and its call stack are sound (flow_stack_manager).          *)
StackIsSound == TypeOK /\ FramesAreCallers

=============================================================================
