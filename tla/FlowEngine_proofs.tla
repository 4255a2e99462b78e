--------------------------- MODULE FlowEngine_proofs ---------------------------
(***************************************************************************)
(* Proofs about FlowEngine, for any published flows, whatever their graphs *)
(* and however they call each other, and any limits.                       *)
(***************************************************************************)
EXTENDS FlowEngine, SequenceTheorems, FiniteSetTheorems, TLAPS

-----------------------------------------------------------------------------
Sessions == [status: {"none", "ACTIVE"} \cup Held \cup Ended,
             node: Nodes \cup {None},
             stack: Seq(Frames),
             variables: SUBSET Waits]
Jobs == [reply: Replies \cup {None}, asked: Nat, taken: Nat, cuts: Nat, rests: Nat]

(* TypeOK with its records named.                                          *)
Typed ==
  /\ session \in Sessions
  /\ Len(session.stack) <= MaxDepth
  /\ phase \in {"idle", "running", "resting", "dead"}
  /\ job \in Jobs
  /\ steps \in 0..MaxSteps
  /\ unwound \in BOOLEAN
  /\ faults \in Nat

(* A session is at a node; it waits at one that asks, a menu with its frame*)
(* on top of the stack; and a job has a session.                           *)
PlaceIsReal ==
  /\ session.status # "none" => session.node \in Nodes
  /\ session.status = "WAITING_FOR_INPUT" =>
       session.node \in Waits \/ (session.node \in Menus /\ OnTop)
  /\ phase # "idle" => session.status # "none"
  /\ \A i \in DOMAIN session.stack :
       session.stack[i].kind = "subflow" => session.stack[i].node \in Calls

(* A job whose session is on its way owes its questions to deaths; one that*)
(* resumes runs its loop only on a session that does not wait; and the     *)
(* reply of a dead worker's job is taken again only at rest.               *)
JobIsSound ==
  /\ phase \in {"running", "dead"} => job.asked <= job.cuts + job.rests
  /\ phase = "running" /\ job.reply # None => ~Awaits
  /\ phase = "dead" /\ job.reply # None /\ Awaits => job.taken <= job.rests

(* The inductive invariant.                                                *)
IInv ==
  Typed /\ PlaceIsReal /\ FramesAreCallers /\ JobIsSound /\ AskedOncePerMessage /\ ReplyIsTakenOnce

-----------------------------------------------------------------------------
(* Graphs and stacks.                                                      *)
LEMMA GraphFacts ==
  /\ None \notin Nodes
  /\ \A n \in Nodes : FlowOf[n] \in Flows /\ Type[n] \in NodeTypes
  /\ \A n \in Nodes : Unlabeled[n] # None =>
       Unlabeled[n] \in Nodes /\ FlowOf[Unlabeled[n]] = FlowOf[n]
  /\ \A n \in Nodes : \A h \in DOMAIN Labeled[n] :
       Labeled[n][h] \in Nodes /\ FlowOf[Labeled[n][h]] = FlowOf[n]
  /\ \A f \in Flows : Trigger[f] \in Nodes /\ FlowOf[Trigger[f]] = f
  /\ \A n \in Calls : n \in Nodes /\ Subflow[n] \in Flows /\ Subflow[n] # FlowOf[n]
  /\ StartFlow \in Flows
<1>1. /\ None \notin Nodes /\ StartFlow \in Flows
      /\ \A n \in Nodes : FlowOf[n] \in Flows /\ Type[n] \in NodeTypes
      /\ \A f \in Flows : ValidFlow(f)
  BY GraphAssumption
<1>2. ASSUME NEW n \in Nodes
      PROVE  Targets(n) \subseteq {k \in Nodes : FlowOf[k] = FlowOf[n]} /\ ValidNode(n)
  BY <1>1 DEF ValidFlow
<1>3. ASSUME NEW n \in Nodes, Unlabeled[n] # None PROVE Unlabeled[n] \in Targets(n)
  BY <1>3 DEF Targets
<1>4. ASSUME NEW n \in Nodes, NEW h \in DOMAIN Labeled[n] PROVE Labeled[n][h] \in Targets(n)
  BY DEF Targets, Declared
<1>5. ASSUME NEW f \in Flows PROVE Trigger[f] \in Nodes /\ FlowOf[Trigger[f]] = f
  <2>1. {n \in {k \in Nodes : FlowOf[k] = f} : Type[n] = "TRIGGER"} = {Trigger[f]}
    BY <1>1 DEF ValidFlow
  <2> QED BY <2>1
<1>6. ASSUME NEW n \in Calls
      PROVE  n \in Nodes /\ Subflow[n] \in Flows /\ Subflow[n] # FlowOf[n]
  <2>1. n \in Nodes /\ Type[n] = "SUBFLOW"
    BY DEF Calls
  <2>2. ValidSubflow(n)
    BY <1>2, <2>1 DEF ValidNode
  <2> QED BY <2>1, <2>2 DEF ValidSubflow
<1> QED
  BY <1>1, <1>2, <1>3, <1>4, <1>5, <1>6

(* The lower part of a stack is a stack of the same frames.                *)
LEMMA Prefix ==
  ASSUME NEW stack \in Seq(Frames), NEW n \in 0..Len(stack)
  PROVE  /\ SubSeq(stack, 1, n) \in Seq(Frames) /\ Len(SubSeq(stack, 1, n)) = n
         /\ \A i \in 1..n : SubSeq(stack, 1, n)[i] = stack[i]
<1>1. \A i \in 1..n : stack[i] \in Frames
  BY ElementOfSeq
<1> QED
  BY <1>1, SubSeqProperties

(* A nonempty set of depths has a greatest one, which Max finds.           *)
LEMMA MaxIsReal ==
  ASSUME NEW n \in Nat, NEW set \in SUBSET (1..n), set # {}
  PROVE  Max(set) \in set /\ \A i \in set : i <= Max(set)
<1> DEFINE Above(i) == {j \in 1..n : j > i}
<1> DEFINE ups == {Above(i) : i \in set}
<1>1. IsFiniteSet(1..n) /\ ups \subseteq SUBSET (1..n) /\ ups # {}
  <2>1. IsFiniteSet(1..n)
    BY FS_Interval
  <2>2. ups \subseteq SUBSET (1..n) /\ ups # {}
    OBVIOUS
  <2> QED BY <2>1, <2>2
<1>2. IsWellFoundedOn(StrictSubsetOrdering(1..n), SUBSET (1..n))
  <2>1. FiniteSubsetsOf(1..n) = SUBSET (1..n)
    BY <1>1, FS_FiniteSubsetsOfFinite
  <2> QED BY <2>1, FS_StrictSubsetOrderingWellFounded
<1>3. PICK least \in ups :
        \A other \in ups : ~(<<other, least>> \in StrictSubsetOrdering(1..n))
  <2> HIDE DEF ups
  <2>1. \E x \in ups : \A y \in ups : ~(<<y, x>> \in StrictSubsetOrdering(1..n))
    BY <1>1, <1>2, WFMin
  <2> QED BY <2>1
<1>4. PICK m \in set : least = Above(m)
  BY <1>3
<1>5. ASSUME NEW i \in set PROVE m >= i
  <2>1. ~(<<Above(i), Above(m)>> \in StrictSubsetOrdering(1..n))
    BY <1>3, <1>4
  <2>2. ~(Above(i) \subseteq Above(m) /\ Above(i) # Above(m))
    BY <2>1 DEF StrictSubsetOrdering
  <2>3. i > m => Above(i) \subseteq Above(m) /\ i \in Above(m) /\ i \notin Above(i)
    OBVIOUS
  <2> HIDE DEF Above
  <2>4. ~(i > m)
    BY <2>2, <2>3
  <2> QED BY <2>4
<1>6. \A i \in set : i \in Int
  OBVIOUS
<1> QED
  BY <1>5, <1>6 DEF Max

-----------------------------------------------------------------------------
(* What a step does to the session.                                        *)
Stays ==
  /\ session'.node = session.node /\ session'.stack = session.stack
  /\ session'.variables = session.variables /\ session'.status # "none"
Walks ==
  /\ session'.node \in Nodes /\ Flow' = Flow /\ session'.stack = session.stack
  /\ session.variables \subseteq session'.variables
  /\ session'.status \in {"ACTIVE", "COMPLETED"}
Asks ==
  /\ session'.node = session.node /\ session'.variables = session.variables
  /\ session.node \in Menus /\ session'.status = "WAITING_FOR_INPUT"
  /\ OnTop' /\ session'.stack = StackWithMenu
Enters ==
  /\ session.node \in Calls /\ session'.node = Trigger[Subflow[session.node]]
  /\ session'.stack = Append(session.stack, Frame("subflow"))
  /\ session'.status = "ACTIVE"
Innermost(i) ==
  /\ i \in DOMAIN session.stack /\ session.stack[i].kind = "subflow"
  /\ \A k \in (i + 1)..Len(session.stack) : session.stack[k].kind # "subflow"
CutTo(n) ==
  /\ Len(session'.stack) = n
  /\ \A k \in 1..n : session'.stack[k] = session.stack[k]
Returns ==
  \E i \in 1..Len(session.stack) :
    /\ Innermost(i) /\ CutTo(i - 1)
    /\ session'.node \in Nodes /\ Flow' = FlowOf[session.stack[i].node]
    /\ session'.status \in {"ACTIVE", "COMPLETED"}
Unwinds ==
  \E i \in 1..Len(session.stack) :
    /\ CutTo(i) /\ session'.node = session.stack[i].node
    /\ session.stack[i].kind = "subflow" => unwound'
    /\ session.variables \subseteq session'.variables \/ Flow' # Flow
    /\ session'.status = "ACTIVE"

Effect ==
  /\ session' \in Sessions /\ Len(session'.stack) <= MaxDepth
  /\ Stays \/ Walks \/ Asks \/ Enters \/ Returns \/ Unwinds

(* Going to a node of the same flow.                                       *)
LEMMA Moves ==
  ASSUME Typed, NEW n \in Nodes, Goto(n), session.node \in Nodes,
         FlowOf[n] = FlowOf[session.node]
  PROVE  Effect /\ session'.status = "ACTIVE" /\ session'.node = n
<1>1. session' \in Sessions /\ session'.status = "ACTIVE" /\ session'.node = n
      /\ session'.stack = session.stack /\ session'.variables = session.variables
  BY DEF Typed, Goto, Sessions
<1> QED
  BY <1>1 DEF Effect, Walks, Flow, Typed

(* Ending or holding the session.                                          *)
LEMMA Ends ==
  ASSUME Typed, NEW status \in Held \cup Ended, End(status)
  PROVE  Effect /\ session'.status = status /\ session'.node = session.node
<1>1. session' \in Sessions /\ session'.status = status /\ session'.node = session.node
      /\ session'.stack = session.stack /\ session'.variables = session.variables
  BY DEF Typed, End, Sessions
<1> QED
  BY <1>1 DEF Effect, Stays, Typed, Held, Ended

(* Following an edge stays in the flow.                                    *)
LEMMA FollowEffect ==
  ASSUME Typed, session.node \in Nodes, Follow
  PROVE  Effect /\ session'.status \in {"ACTIVE", "COMPLETED"}
<1>1. CASE Unlabeled[session.node] = None
  BY <1>1, Ends DEF Follow, Ended
<1>2. CASE Unlabeled[session.node] # None
  BY <1>2, GraphFacts, Moves DEF Follow
<1> QED
  BY <1>1, <1>2

(* Returning from a call cuts the stack below its frame.                   *)
LEMMA ReturnEffect ==
  ASSUME Typed, PlaceIsReal, NEW i \in 1..Len(session.stack), Innermost(i),
         NEW rest \in Seq(Frames), Len(rest) = i - 1,
         \A k \in 1..(i - 1) : rest[k] = session.stack[k],
         ReturnTo(session.stack[i], rest)
  PROVE  Effect /\ session'.status \in {"ACTIVE", "COMPLETED"}
<1> DEFINE frame == session.stack[i]
           next == Unlabeled[frame.node]
           node == IF next = None THEN frame.node ELSE next
           status == IF next = None THEN "COMPLETED" ELSE "ACTIVE"
<1>1. session.stack \in Seq(Frames) /\ Len(session.stack) \in Nat
  BY DEF Typed, Sessions
<1>2. frame \in Frames /\ frame.kind = "subflow" /\ frame.node \in Calls
  BY <1>1 DEF Innermost, PlaceIsReal
<1>4. node \in Nodes /\ FlowOf[node] = FlowOf[frame.node]
  BY <1>2, GraphFacts
<1>5. status \in {"ACTIVE", "COMPLETED"} /\ frame.variables \in SUBSET Waits
  BY <1>2 DEF Frames
<1>6. session' = [session EXCEPT !.stack = rest, !.variables = frame.variables,
                                 !.node = node, !.status = status]
  BY DEF ReturnTo
<1> HIDE DEF frame, next, node, status
<1>7. session' = [status |-> status, node |-> node, stack |-> rest,
                  variables |-> frame.variables]
  BY <1>6 DEF Typed, Sessions
<1>8. session' \in Sessions
  BY <1>4, <1>5, <1>7 DEF Sessions, Ended
<1>9. Len(session'.stack) <= MaxDepth
  BY <1>1, <1>7, BoundsAssumption DEF Typed
<1>10. Returns
  BY <1>4, <1>5, <1>7 DEF Returns, CutTo, Flow, frame
<1> QED
  BY <1>5, <1>7, <1>8, <1>9, <1>10 DEF Effect

(* A menu asks with its frame on top, or the stack is full.                *)
LEMMA MenuEffect ==
  ASSUME Typed, session.node \in Menus, Menu
  PROVE  Effect /\ (Asks \/ session'.status \in Ended)
<1>1. CASE End("TERMINATED")
  BY <1>1, Ends DEF Ended
<1>2. CASE /\ OnTop \/ Len(session.stack) < MaxDepth
           /\ session' = [session EXCEPT !.stack = StackWithMenu,
                                         !.status = "WAITING_FOR_INPUT"]
  <2>1. session.stack \in Seq(Frames) /\ Len(session.stack) \in Nat
    BY DEF Typed, Sessions
  <2>2. Frame("menu") \in Frames /\ Frame("menu").kind = "menu" /\ Frame("menu").node = session.node
    BY DEF Frame, Frames, Typed, Sessions, Menus
  <2> DEFINE stack == StackWithMenu
  <2>3. /\ stack \in Seq(Frames) /\ Len(stack) <= MaxDepth /\ stack # <<>>
        /\ Last(stack).kind = "menu" /\ Last(stack).node = session.node
    <3>1. CASE OnTop
      BY <3>1, <2>1 DEF OnTop, StackWithMenu, Typed
    <3>2. CASE ~OnTop
      <4>1. stack = Append(session.stack, Frame("menu"))
        BY <3>2 DEF StackWithMenu
      <4>2. /\ stack \in Seq(Frames) /\ Len(stack) = Len(session.stack) + 1
            /\ stack[Len(stack)] = Frame("menu")
        BY <2>1, <2>2, <4>1
      <4> HIDE DEF stack
      <4>3. Len(stack) <= MaxDepth
        BY <1>2, <3>2, <4>2, <2>1, BoundsAssumption
      <4> QED BY <2>2, <2>1, <4>2, <4>3 DEF Last
    <3> QED BY <3>1, <3>2
  <2> HIDE DEF stack
  <2>4. session' = [status |-> "WAITING_FOR_INPUT", node |-> session.node, stack |-> stack,
                    variables |-> session.variables]
    BY <1>2 DEF Typed, Sessions, stack
  <2>5. session' \in Sessions
    BY <2>3, <2>4 DEF Sessions, Held, Typed
  <2>6. Asks
    BY <2>3, <2>4 DEF Asks, OnTop, stack
  <2> QED BY <2>3, <2>4, <2>5, <2>6 DEF Effect
<1> QED
  BY <1>1, <1>2 DEF Menu

(* A call enters the flow that its frame names, or the stack is full.      *)
LEMMA CallEffect ==
  ASSUME Typed, session.node \in Calls, Call
  PROVE  Effect
<1>1. CASE End("TERMINATED")
  BY <1>1, Ends DEF Ended
<1>2. CASE /\ Len(session.stack) < MaxDepth
           /\ session' = [session EXCEPT
                            !.node = Trigger[Subflow[session.node]],
                            !.stack = Append(@, Frame("subflow")),
                            !.status = "ACTIVE",
                            !.variables = IF session.node \in PassThrough THEN @ ELSE {}]
  <2> DEFINE node == Trigger[Subflow[session.node]]
             stack == Append(session.stack, Frame("subflow"))
             variables == IF session.node \in PassThrough THEN session.variables ELSE {}
  <2>1. session.stack \in Seq(Frames) /\ Len(session.stack) \in Nat
    BY DEF Typed, Sessions
  <2>2. Frame("subflow") \in Frames
    BY GraphFacts DEF Frame, Frames, Typed, Sessions
  <2>3. stack \in Seq(Frames) /\ Len(stack) = Len(session.stack) + 1
    BY <2>1, <2>2
  <2>4. node \in Nodes /\ variables \in SUBSET Waits
    BY GraphFacts DEF Typed, Sessions
  <2>5. session' = [status |-> "ACTIVE", node |-> node, stack |-> stack,
                    variables |-> variables]
    BY <1>2 DEF Typed, Sessions
  <2> HIDE DEF node, stack, variables
  <2>6. session' \in Sessions
    BY <2>3, <2>4, <2>5 DEF Sessions, Typed
  <2>7. Len(session'.stack) <= MaxDepth
    BY <1>2, <2>1, <2>3, <2>5, BoundsAssumption
  <2>8. Enters
    BY <2>5 DEF Enters, node, stack
  <2> QED BY <2>5, <2>6, <2>7, <2>8 DEF Effect
<1> QED
  BY <1>1, <1>2 DEF Call

(* EXIT returns to the innermost caller, or completes.                     *)
LEMMA ExitEffect ==
  ASSUME Typed, PlaceIsReal, Exit
  PROVE  Effect /\ session'.status \in {"ACTIVE", "COMPLETED"}
<1>1. CASE Callers = {}
  BY <1>1, Ends DEF Exit, Ended
<1>2. CASE Callers # {}
  <2> DEFINE i == Max(Callers)
  <2>1. session.stack \in Seq(Frames) /\ Len(session.stack) \in Nat
        /\ DOMAIN session.stack = 1..Len(session.stack)
    BY DEF Typed, Sessions
  <2>2. Callers \in SUBSET (1..Len(session.stack))
    BY <2>1 DEF Callers
  <2>3. i \in Callers /\ \A k \in Callers : k <= i
    BY <1>2, <2>1, <2>2, MaxIsReal
  <2>4. ReturnTo(session.stack[i], SubSeq(session.stack, 1, i - 1))
    BY <1>2 DEF Exit
  <2> HIDE DEF i
  <2>5. i \in 1..Len(session.stack) /\ Innermost(i)
    BY <2>1, <2>2, <2>3 DEF Innermost, Callers
  <2>6. /\ SubSeq(session.stack, 1, i - 1) \in Seq(Frames)
        /\ Len(SubSeq(session.stack, 1, i - 1)) = i - 1
        /\ \A k \in 1..(i - 1) : SubSeq(session.stack, 1, i - 1)[k] = session.stack[k]
    BY <2>1, <2>5, Prefix
  <2> QED BY <2>4, <2>5, <2>6, ReturnEffect
<1> QED
  BY <1>1, <1>2

(* Whatever the node, its execution has one of the effects, and waits only *)
(* at a node that asks.                                                    *)
LEMMA ExecuteEffect ==
  ASSUME Typed, PlaceIsReal, session.status # "none",
         NEW answered, Execute(answered)
  PROVE  /\ Effect
         /\ session'.status = "WAITING_FOR_INPUT" =>
              session'.node = session.node /\ (session.node \in Waits \/ Asks)
         /\ Asking => session'.status = "WAITING_FOR_INPUT"
<1>1. session.node \in Nodes
  BY DEF PlaceIsReal
<1> DEFINE Done ==
      /\ Effect
      /\ session'.status = "WAITING_FOR_INPUT" =>
           session'.node = session.node /\ (session.node \in Waits \/ Asks)
<1>2. ASSUME Follow PROVE Done
  BY <1>1, <1>2, FollowEffect
<1>3. ASSUME Message PROVE Done
  BY <1>1, <1>3, FollowEffect, Ends DEF Message, Held
<1>4. ASSUME Type[session.node] = "MENU" /\ Menu PROVE Done
  BY <1>1, <1>4, MenuEffect DEF Menus, Asks, Ended
<1>5. ASSUME FollowOneOf(DOMAIN Labeled[session.node]) PROVE Done
  BY <1>1, <1>5, GraphFacts, Moves DEF FollowOneOf
<1>6. ASSUME Type[session.node] = "SUBFLOW" /\ Call PROVE Done
  <2>1. session.node \in Calls
    BY <1>1, <1>6 DEF Calls
  <2>2. CASE session'.status = "WAITING_FOR_INPUT"
    BY <1>6, <2>2 DEF Call, End, Typed, Sessions
  <2> QED BY <1>6, <2>1, <2>2, CallEffect
<1>7. ASSUME PauseForHuman PROVE Done
  BY <1>7, Ends DEF PauseForHuman, Held
<1>8. ASSUME Exit PROVE Done
  BY <1>8, ExitEffect
<1>9. Done
  BY <1>2, <1>3, <1>4, <1>5, <1>6, <1>7, <1>8 DEF Execute, AiRag
<1>10. ASSUME Asking PROVE session'.status = "WAITING_FOR_INPUT"
  <2>1. CASE session.node \in Waits
    <3>1. Type[session.node] = "MESSAGE"
      BY <2>1, GraphAssumption
    <3>2. Message
      BY <3>1 DEF Execute
    <3> QED BY <2>1, <3>2, Ends DEF Message, Held
  <2>2. CASE session.node \in Menus /\ (OnTop \/ Len(session.stack) < MaxDepth)
    <3>1. Menu
      BY <2>2 DEF Execute, Menus
    <3> QED BY <2>2, <3>1 DEF Menu, Typed, Sessions
  <2> QED BY <1>10, <2>1, <2>2 DEF Asking
<1> QED
  BY <1>9, <1>10

(* Going back to the node of a frame, which stays on the stack.            *)
LEMMA UnwindEffect ==
  ASSUME Typed, NEW i \in 1..Len(session.stack),
         NEW rest \in Seq(Frames), Len(rest) = i,
         \A k \in 1..i : rest[k] = session.stack[k],
         NEW variables \in SUBSET Waits,
         variables = session.variables \/ FlowOf[session.stack[i].node] # Flow,
         session.stack[i].kind = "subflow" => unwound',
         session' = [session EXCEPT !.node = session.stack[i].node, !.stack = rest,
                                    !.status = "ACTIVE", !.variables = variables]
  PROVE  Effect /\ session'.status = "ACTIVE"
<1>1. session.stack \in Seq(Frames) /\ Len(session.stack) \in Nat
  BY DEF Typed, Sessions
<1> DEFINE node == session.stack[i].node
<1>2. node \in Nodes
  <2>1. session.stack[i] \in Frames
    BY <1>1, ElementOfSeq
  <2> QED BY <2>1 DEF Frames
<1>3. session' = [status |-> "ACTIVE", node |-> node, stack |-> rest, variables |-> variables]
  BY DEF Typed, Sessions
<1> HIDE DEF node
<1>4. session' \in Sessions /\ Len(session'.stack) <= MaxDepth
  BY <1>1, <1>2, <1>3, BoundsAssumption DEF Sessions, Typed
<1>5. Unwinds
  BY <1>3 DEF Unwinds, CutTo, Flow, node
<1> QED
  BY <1>3, <1>4, <1>5 DEF Effect

(* BACK returns from a call or goes to the menu before.                    *)
LEMMA BackEffect ==
  ASSUME Typed, PlaceIsReal, session.node \in Nodes, OnTop, Back
  PROVE  Effect /\ session'.status \in {"ACTIVE", "COMPLETED"}
<1> DEFINE stack == session.stack
           rest == Front(stack)
<1>1. /\ stack \in Seq(Frames) /\ Len(stack) \in Nat /\ stack # <<>>
      /\ DOMAIN stack = 1..Len(stack) /\ stack[Len(stack)].kind = "menu"
  BY DEF Typed, Sessions, OnTop, Last
<1>2. CASE Len(stack) <= 1
  BY <1>2, Moves DEF Back
<1>3. CASE Len(stack) > 1
  <2> DEFINE i == Len(stack) - 1
  <2>1. /\ i \in 1..Len(stack) /\ rest \in Seq(Frames) /\ Len(rest) = i
        /\ \A k \in 1..i : rest[k] = stack[k]
    BY <1>1, <1>3, Prefix DEF Front
  <2>2. Last(rest) = stack[i]
    BY <2>1 DEF Last
  <2>3. CASE stack[i].kind = "subflow"
    <3>1. /\ Front(rest) \in Seq(Frames) /\ Len(Front(rest)) = i - 1
          /\ \A k \in 1..(i - 1) : Front(rest)[k] = stack[k]
      <4> HIDE DEF rest
      <4> QED BY <2>1, Prefix DEF Front
    <3>2. Innermost(i)
      BY <1>1, <2>1, <2>3 DEF Innermost
    <3>3. ReturnTo(stack[i], Front(rest))
      BY <1>3, <2>2, <2>3 DEF Back
    <3> HIDE DEF rest
    <3> QED BY <2>1, <3>1, <3>2, <3>3, ReturnEffect
  <2>4. CASE stack[i].kind # "subflow"
    <3>1. session' = [session EXCEPT !.node = stack[i].node, !.stack = rest,
                                     !.status = "ACTIVE"]
      BY <1>3, <2>2, <2>4 DEF Back
    <3>2. session' = [session EXCEPT !.node = stack[i].node, !.stack = rest,
                                     !.status = "ACTIVE", !.variables = session.variables]
      BY <3>1 DEF Typed, Sessions
    <3>3. session.variables \in SUBSET Waits
      BY DEF Typed, Sessions
    <3> HIDE DEF rest, i
    <3> QED BY <2>1, <2>4, <3>2, <3>3, UnwindEffect
  <2> QED BY <2>3, <2>4
<1> QED
  BY <1>1, <1>2, <1>3

(* MAIN_MENU goes back to the lowest frame.                                *)
LEMMA MainMenuEffect ==
  ASSUME Typed, OnTop, MainMenu, Head(session.stack).kind = "subflow" => unwound'
  PROVE  Effect /\ session'.status = "ACTIVE"
<1> DEFINE root == Head(session.stack)
           variables == IF FlowOf[root.node] = Flow THEN session.variables ELSE root.variables
<1>1. /\ session.stack \in Seq(Frames) /\ Len(session.stack) \in Nat
      /\ session.stack # <<>> /\ session.variables \in SUBSET Waits
  BY DEF Typed, Sessions, OnTop
<1>2. 1 \in 1..Len(session.stack) /\ root = session.stack[1] /\ root \in Frames
  BY <1>1
<1>3. variables \in SUBSET Waits /\ (variables = session.variables \/ FlowOf[root.node] # Flow)
  BY <1>1, <1>2 DEF Frames
<1>4. session' = [session EXCEPT !.node = root.node, !.stack = <<root>>,
                                 !.status = "ACTIVE", !.variables = variables]
  BY DEF MainMenu
<1>5. <<root>> \in Seq(Frames) /\ Len(<<root>>) = 1 /\ <<root>>[1] = root
  BY <1>2
<1>6. /\ \A k \in 1..1 : <<root>>[k] = session.stack[k]
      /\ variables = session.variables \/ FlowOf[session.stack[1].node] # Flow
      /\ session.stack[1].kind = "subflow" => unwound'
  BY <1>2, <1>3, <1>5
<1>7. session' = [session EXCEPT !.node = session.stack[1].node, !.stack = <<root>>,
                                 !.status = "ACTIVE", !.variables = variables]
  BY <1>2, <1>4
<1> HIDE DEF root, variables
<1> QED
  BY <1>2, <1>3, <1>5, <1>6, <1>7, UnwindEffect

(* A reply has one of the effects.                                         *)
LEMMA TakesEffect ==
  ASSUME IInv, NEW j, Takes(j)
  PROVE  Effect /\ (session' = session \/ session'.status # "WAITING_FOR_INPUT")
<1> DEFINE reply == j.reply
<1>1. CASE UNCHANGED session
  BY <1>1 DEF Effect, Stays, IInv, Typed, Takes, Awaits
<1>2. session.status = "WAITING_FOR_INPUT" /\ Consume(reply) /\ unwound' = (unwound \/ LeavesFrame(reply))
  BY DEF Takes, Awaits
<1> HIDE DEF reply
<1>3. Effect /\ (session' = session \/ session'.status # "WAITING_FOR_INPUT")
  <2>1. /\ Typed /\ PlaceIsReal /\ session.node \in Nodes
        /\ session.node \in Menus => OnTop
    BY <1>2, GraphAssumption DEF IInv, PlaceIsReal, Menus
  <2>2. CASE PauseForHuman
    BY <2>1, <2>2, Ends DEF PauseForHuman, Held
  <2>3. CASE Type[session.node] = "MENU" /\ ConsumeChoice(reply)
    <3>1. session.node \in Menus /\ OnTop
      BY <2>1, <2>3 DEF Menus
    <3>2. CASE Back
      BY <2>1, <3>1, <3>2, BackEffect
    <3>3. CASE /\ reply \in DOMAIN Navigation[session.node]
               /\ Navigation[session.node][reply] = "MAIN_MENU" /\ MainMenu
      <4>1. Head(session.stack).kind = "subflow" => unwound'
        BY <1>2, <2>3, <3>3 DEF LeavesFrame
      <4> QED BY <2>1, <3>1, <3>3, <4>1, MainMenuEffect
    <3>4. CASE End("TERMINATED")
      BY <2>1, <3>4, Ends DEF Ended
    <3>5. CASE reply \in DOMAIN Labeled[session.node] /\ Goto(Labeled[session.node][reply])
      BY <2>1, <3>5, GraphFacts, Moves
    <3> QED BY <1>1, <2>2, <2>3, <3>2, <3>3, <3>4, <3>5 DEF ConsumeChoice, Tangent
  <2>4. CASE ConsumeAnswer(reply) /\ Type[session.node] = "MESSAGE"
    <3> DEFINE n == session.node
               next == Unlabeled[n]
               node == IF next = None THEN n ELSE next
               status == IF next = None THEN "COMPLETED" ELSE "ACTIVE"
    <3>1. CASE session' = [session EXCEPT !.variables = @ \cup {n}, !.node = node,
                                          !.status = status]
      <4>1. /\ n \in Waits /\ node \in Nodes /\ FlowOf[node] = FlowOf[n]
            /\ status \in {"ACTIVE", "COMPLETED"}
        BY <1>2, <2>1, <2>4, GraphFacts DEF PlaceIsReal, Menus
      <4> HIDE DEF node, status
      <4>2. session' = [status |-> status, node |-> node, stack |-> session.stack,
                        variables |-> session.variables \cup {n}]
        BY <2>1, <3>1 DEF Typed, Sessions
      <4>3. session' \in Sessions /\ Len(session'.stack) <= MaxDepth
        BY <2>1, <4>1, <4>2 DEF Typed, Sessions, Ended
      <4>4. Walks
        BY <4>1, <4>2 DEF Walks, Flow
      <4> QED BY <4>1, <4>2, <4>3, <4>4 DEF Effect
    <3>2. UNCHANGED session \/ PauseForHuman
          \/ session' = [session EXCEPT !.variables = @ \cup {n}, !.node = node,
                                        !.status = status]
      <4>1. CASE next = None
        BY <2>1, <2>4, <4>1 DEF ConsumeAnswer, Tangent, Typed, Sessions
      <4>2. CASE next # None
        BY <2>1, <2>4, <4>2 DEF ConsumeAnswer, Tangent, Typed, Sessions
      <4> QED BY <4>1, <4>2
    <3> QED BY <1>1, <2>2, <3>1, <3>2
  <2> QED BY <1>2, <2>3, <2>4 DEF Consume
<1> QED
  BY <1>3

(* A start of a new session.                                               *)
Opening ==
  /\ session' = [status |-> "ACTIVE", node |-> Trigger[StartFlow], stack |-> <<>>,
                variables |-> {}]
  /\ session.status \notin Live /\ phase # "running"

(* Anything else has one of the effects.                                   *)
Moving == session.status # "none" /\ Effect /\ (unwound => unwound')

(* The jobs that Next advances.                                            *)
Advances(j) ==
  /\ Advance(j)
  /\ \/ phase = "idle" /\ j.asked = 0 /\ j.taken = 0 /\ j.cuts = 0 /\ j.rests = 0
     \/ phase = "dead" /\ j = job
  /\ j.reply # None => session.status # "none"
LEMMA NextAdvances ==
  ASSUME IInv, Next
  PROVE  \/ \E j \in Jobs : Advances(j)
         \/ Step \/ NodeFails \/ StepsRunOut \/ Finish \/ Throw \/ Die
         \/ (phase = "dead" /\ JobEnds /\ UNCHANGED faults)
<1>1. ASSUME NEW reply \in Replies \cup {None}, Begin(reply)
      PROVE  \E j \in Jobs : Advances(j)
  <2>1. NewJob(reply) \in Jobs
    BY DEF NewJob, Jobs
  <2>2. Advances(NewJob(reply))
    BY <1>1 DEF Begin, Advances, NewJob
  <2> QED BY <2>1, <2>2
<1>2. CASE phase = "dead" /\ Advance(job)
  <2>1. job \in Jobs /\ Advances(job)
    BY <1>2 DEF Advances, IInv, Typed, PlaceIsReal
  <2> QED BY <2>1
<1> QED
  BY <1>1, <1>2 DEF Next, Stalls

LEMMA AdvanceEffect ==
  ASSUME IInv, NEW j \in Jobs, Advances(j)
  PROVE  Opening \/ Moving
<1>1. phase # "running"
  BY DEF Advances
<1>2. CASE Opens(j)
  BY <1>1, <1>2 DEF Opens, NoSession, Opening
<1>3. CASE Takes(j)
  <2>1. session.status # "none" /\ (unwound => unwound')
    BY <1>3 DEF Takes, Awaits
  <2> QED BY <1>3, <2>1, TakesEffect DEF Moving
<1>4. CASE GoesOn(j)
  <2>1. session.status # "none" /\ UNCHANGED <<session, unwound>>
    BY <1>4 DEF GoesOn, Advances, Live
  <2> QED BY <2>1 DEF Effect, Stays, IInv, Typed, Moving
<1> QED
  BY <1>2, <1>3, <1>4 DEF Advances, Advance

LEMMA NextEffect ==
  ASSUME IInv, Next
  PROVE  Opening \/ Moving
<1>1. ASSUME NEW j \in Jobs, Advances(j) PROVE Opening \/ Moving
  BY <1>1, AdvanceEffect
<1>2. CASE Step
  <2>1. /\ session.status # "none" /\ unwound' = unwound
        /\ \E answered \in BOOLEAN : Execute(answered)
    BY <1>2 DEF Step, IInv, PlaceIsReal
  <2> QED BY <2>1, ExecuteEffect DEF IInv, Moving
<1>3. CASE NodeFails
  <2>1. session.status # "none" /\ End("TERMINATED") /\ unwound' = unwound
    BY <1>3 DEF NodeFails, IInv, PlaceIsReal
  <2> QED BY <2>1, Ends DEF IInv, Ended, Moving
<1>4. CASE UNCHANGED <<session, unwound>> /\ session.status # "none"
  BY <1>4 DEF Effect, Stays, IInv, Typed, Moving
<1>5. CASE StepsRunOut \/ Finish \/ Throw \/ Die \/ (phase = "dead" /\ JobEnds)
  BY <1>4, <1>5 DEF StepsRunOut, Finish, Throw, Die, JobEnds, IInv, PlaceIsReal
<1> QED
  BY <1>1, <1>2, <1>3, <1>5, NextAdvances

-----------------------------------------------------------------------------
(* The parts of the invariant.                                             *)
LEMMA TypedStep == IInv /\ [Next]_vars => Typed'
<1> SUFFICES ASSUME IInv, [Next]_vars PROVE Typed'
  OBVIOUS
<1>1. CASE UNCHANGED vars
  BY <1>1 DEF vars, IInv, Typed
<1>2. ASSUME Next PROVE session' \in Sessions /\ Len(session'.stack) <= MaxDepth
  <2>1. CASE Opening
    <3>1. session' \in Sessions /\ Len(session'.stack) = 0
      BY <2>1, GraphFacts DEF Sessions, Opening
    <3> QED BY <3>1, BoundsAssumption
  <2> QED BY <1>2, <2>1, NextEffect DEF Effect, Moving
<1>3. ASSUME Next
      PROVE  /\ phase' \in {"idle", "running", "resting", "dead"} /\ job' \in Jobs
             /\ steps' \in 0..MaxSteps /\ unwound' \in BOOLEAN /\ faults' \in Nat
  <2>1. ASSUME NEW j \in Jobs, Advances(j)
        PROVE  /\ phase' \in {"running", "resting"} /\ job' \in Jobs
               /\ steps' = 0 /\ unwound' \in BOOLEAN /\ faults' = faults
    <3>1. CASE Opens(j)
      BY <2>1, <3>1 DEF Opens, Advances, Advance
    <3>2. CASE Takes(j)
      <4>1. unwound' \in BOOLEAN
        BY <3>2 DEF Takes
      <4>2. job' \in Jobs
        BY <3>2 DEF Takes, Jobs
      <4> QED BY <2>1, <3>2, <4>1, <4>2 DEF Takes, AfterUpdate, Advances, Advance
    <3>3. CASE GoesOn(j)
      BY <2>1, <3>3 DEF GoesOn, Advances, Advance, IInv, Typed
    <3> QED BY <2>1, <3>1, <3>2, <3>3 DEF Advances, Advance
  <2>2. ASSUME NEW sent \in Sent, job' = [job EXCEPT !.asked = @ + sent] PROVE job' \in Jobs
    BY <2>2 DEF Sent, IInv, Typed, Jobs
  <2>3. CASE Step
    <3>1. PICK sent \in Sent : job' = [job EXCEPT !.asked = @ + sent]
      BY <2>3 DEF Step
    <3>2. steps' \in 0..MaxSteps
      BY <2>3, BoundsAssumption DEF Step, IInv, Typed
    <3> QED BY <2>2, <2>3, <3>1, <3>2 DEF Step, AfterUpdate, IInv, Typed
  <2>4. CASE NodeFails
    <3>1. PICK sent \in Sent : job' = [job EXCEPT !.asked = @ + sent]
      BY <2>4 DEF NodeFails
    <3>2. faults' \in Nat
      BY <2>4 DEF NodeFails, Fault, IInv, Typed
    <3> QED BY <2>2, <2>4, <3>1, <3>2 DEF NodeFails, IInv, Typed
  <2>5. CASE StepsRunOut
    BY <2>5 DEF StepsRunOut, IInv, Typed
  <2>6. ASSUME JobEnds
        PROVE  phase' = "idle" /\ job' \in Jobs /\ steps' = 0 /\ unwound' = unwound
    BY <2>6 DEF JobEnds, NewJob, Jobs
  <2>7. CASE Finish \/ Throw \/ (phase = "dead" /\ JobEnds /\ UNCHANGED faults)
    <3>1. JobEnds
      BY <2>7 DEF Finish, Throw
    <3>2. faults' \in Nat
      BY <2>7 DEF Finish, Throw, Fault, IInv, Typed
    <3> QED BY <2>6, <3>1, <3>2, BoundsAssumption DEF IInv, Typed
  <2>8. CASE Die
    <3>1. job' \in Jobs
      <4>1. CASE job' = [job EXCEPT !.rests = @ + 1]
        BY <4>1 DEF IInv, Typed, Jobs
      <4>2. ASSUME NEW sent \in Sent, job' = [job EXCEPT !.asked = @ + sent, !.cuts = @ + sent]
            PROVE  job' \in Jobs
        <5>1. sent \in Nat /\ job \in Jobs
          BY DEF Sent, IInv, Typed
        <5>2. job' = [reply |-> job.reply, asked |-> job.asked + sent, taken |-> job.taken,
                      cuts |-> job.cuts + sent, rests |-> job.rests]
          BY <4>2, <5>1 DEF Jobs
        <5>3. job.asked + sent \in Nat /\ job.cuts + sent \in Nat
          BY <5>1 DEF Jobs
        <5> QED BY <5>1, <5>2, <5>3 DEF Jobs
      <4> QED BY <2>8, <4>1, <4>2 DEF Die
    <3>2. faults' \in Nat
      <4>1. Fault
        BY <2>8 DEF Die
      <4> QED BY <4>1 DEF Fault, IInv, Typed
    <3>3. phase' = "dead" /\ UNCHANGED <<steps, unwound>>
      BY <2>8 DEF Die
    <3> QED BY <3>1, <3>2, <3>3 DEF IInv, Typed
  <2>9. ASSUME NEW j \in Jobs, Advances(j)
        PROVE  /\ phase' \in {"idle", "running", "resting", "dead"} /\ job' \in Jobs
               /\ steps' \in 0..MaxSteps /\ unwound' \in BOOLEAN /\ faults' \in Nat
    BY <2>1, <2>9, BoundsAssumption DEF IInv, Typed
  <2> QED
    BY <1>3, <2>3, <2>4, <2>5, <2>7, <2>8, <2>9, NextAdvances
<1> QED
  BY <1>1, <1>2, <1>3 DEF Typed

(* Every step keeps PlaceIsReal.                                           *)
LEMMA PlaceIsRealStep == IInv /\ [Next]_vars => PlaceIsReal'
<1> SUFFICES ASSUME IInv, [Next]_vars PROVE PlaceIsReal'
  OBVIOUS
<1>1. CASE UNCHANGED vars
  BY <1>1 DEF vars, IInv, PlaceIsReal, OnTop
<1>2. CASE Opening
  BY <1>2, GraphFacts DEF Opening, PlaceIsReal
<1>3. ASSUME Next, ~Opening PROVE PlaceIsReal'
  <2>1. session.status # "none" /\ session.node \in Nodes /\ Effect
    BY <1>3, NextEffect DEF IInv, PlaceIsReal, Moving
  <2>2. session.stack \in Seq(Frames) /\ Len(session.stack) \in Nat
    BY DEF IInv, Typed, Sessions
  <2>3. session'.node \in Nodes
    <3>1. CASE Enters
      BY <3>1, GraphFacts DEF Enters
    <3>2. CASE Unwinds
      <4>1. PICK i \in 1..Len(session.stack) : session'.node = session.stack[i].node
        BY <3>2 DEF Unwinds
      <4>2. session.stack[i] \in Frames
        BY <2>2, ElementOfSeq
      <4> QED BY <4>1, <4>2 DEF Frames
    <3> QED BY <2>1, <3>1, <3>2 DEF Effect, Stays, Walks, Asks, Returns
  <2>4. ASSUME session'.status = "WAITING_FOR_INPUT"
        PROVE  session'.node \in Waits \/ (session'.node \in Menus /\ OnTop')
    <3>1. CASE Step
      <4>2. session'.node = session.node /\ (session.node \in Waits \/ Asks)
        BY <2>1, <2>4, <3>1, ExecuteEffect DEF Step, IInv
      <4> QED BY <4>2 DEF Asks
    <3>2. CASE UNCHANGED session
      BY <2>4, <3>2 DEF IInv, PlaceIsReal, OnTop
    <3>3. CASE NodeFails
      BY <2>4, <3>3, Ends DEF NodeFails, IInv, Ended
    <3>4. ASSUME NEW j \in Jobs, Advances(j) PROVE UNCHANGED session
      <4>1. ~Opens(j)
        BY <2>4 DEF Opens, NoSession
      <4> QED BY <2>4, <3>4, <4>1, TakesEffect DEF Advances, Advance, GoesOn
    <3>5. CASE StepsRunOut \/ Finish \/ Throw \/ Die \/ (phase = "dead" /\ JobEnds)
      BY <3>2, <3>5 DEF StepsRunOut, Finish, Throw, Die, JobEnds
    <3> QED BY <1>3, <3>1, <3>2, <3>3, <3>4, <3>5, NextAdvances
  <2>5. session'.status # "none"
    BY <2>1 DEF Effect, Stays, Walks, Asks, Enters, Returns, Unwinds
  <2>6. ASSUME NEW i \in DOMAIN session'.stack, session'.stack[i].kind = "subflow"
        PROVE  session'.stack[i].node \in Calls
    <3>1. ASSUME i \in DOMAIN session.stack, session'.stack[i] = session.stack[i]
          PROVE  session'.stack[i].node \in Calls
      BY <2>6, <3>1 DEF IInv, PlaceIsReal
    <3>2. CASE session'.stack = session.stack
      BY <3>1, <3>2
    <3>3. DOMAIN session'.stack = 1..Len(session'.stack)
      BY <2>1 DEF Effect, Sessions
    <3>4. ASSUME NEW n \in 0..Len(session.stack), CutTo(n)
          PROVE session'.stack[i].node \in Calls
      BY <2>2, <3>1, <3>3, <3>4 DEF CutTo
    <3>5. ASSUME NEW frame \in Frames, session'.stack = Append(session.stack, frame),
                 frame.kind = "subflow" => frame.node \in Calls
          PROVE  session'.stack[i].node \in Calls
      BY <2>2, <2>6, <3>1, <3>3, <3>5
    <3>6. CASE Asks
      <4>1. Frame("menu") \in Frames /\ Frame("menu").kind = "menu"
        BY <2>1 DEF Frame, Frames, IInv, Typed, Sessions
      <4> QED BY <3>2, <3>5, <3>6, <4>1 DEF Asks, StackWithMenu
    <3>7. CASE Enters
      <4>1. Frame("subflow") \in Frames /\ Frame("subflow").node = session.node
        BY <2>1 DEF Frame, Frames, IInv, Typed, Sessions
      <4> QED BY <3>5, <3>7, <4>1 DEF Enters
    <3>8. CASE Returns
      <4>1. PICK n \in 1..Len(session.stack) : CutTo(n - 1)
        BY <3>8 DEF Returns
      <4> QED BY <2>2, <3>4, <4>1
    <3>9. CASE Unwinds
      BY <2>2, <3>4, <3>9 DEF Unwinds
    <3> QED BY <2>1, <3>2, <3>6, <3>7, <3>8, <3>9 DEF Effect, Stays, Walks
  <2> QED BY <2>3, <2>4, <2>5, <2>6 DEF PlaceIsReal
<1> QED
  BY <1>1, <1>2, <1>3

(* Up to where the stack was left alone, the calls are what they were.     *)
LEMMA CallersBelow ==
  ASSUME FramesAreCallers, session.status # "none", ~unwound, Typed, Typed',
         NEW n \in Nat, n <= Len(session.stack), n <= Len(session'.stack),
         \A k \in 1..n : session'.stack[k] = session.stack[k],
         NEW i \in 0..n, NEW depth \in 1..(n + 1), IsCaller(i, depth)',
         FlowAt(depth)' = FlowAt(depth)
  PROVE  FlowAt(depth)' = Called(i)'
<1>1. /\ DOMAIN session.stack = 1..Len(session.stack) /\ Len(session.stack) \in Nat
      /\ DOMAIN session'.stack = 1..Len(session'.stack) /\ Len(session'.stack) \in Nat
  BY DEF Typed, Sessions
<1>2. i \in 0..Len(session.stack) /\ depth \in Depths
  BY <1>1 DEF Depths
<1>3. IsCaller(i, depth)
  <2>1. \A k \in (i + 1)..(depth - 1) : k \in 1..n
    OBVIOUS
  <2>2. i # 0 => i \in 1..n
    OBVIOUS
  <2> QED BY <2>1, <2>2 DEF IsCaller
<1>4. Called(i)' = Called(i)
  BY <1>1 DEF Called
<1> QED
  BY <1>2, <1>3, <1>4 DEF FramesAreCallers

(* Every step keeps FramesAreCallers.                                      *)
LEMMA FramesAreCallersStep == IInv /\ [Next]_vars => FramesAreCallers'
<1> SUFFICES ASSUME IInv, [Next]_vars, session'.status # "none", ~unwound',
                    NEW i \in 0..Len(session'.stack), NEW depth \in Depths',
                    IsCaller(i, depth)'
             PROVE  FlowAt(depth)' = Called(i)'
  BY DEF FramesAreCallers
<1>1. CASE UNCHANGED vars
  BY <1>1 DEF vars, IInv, FramesAreCallers, Depths, IsCaller, FlowAt, Called, Flow
<1>2. CASE Opening
  <2>1. session'.stack = <<>> /\ session'.node = Trigger[StartFlow]
    BY <1>2 DEF Opening
  <2>2. i = 0 /\ depth = 1
    BY <2>1 DEF Depths
  <2> QED BY <2>1, <2>2, GraphFacts DEF FlowAt, Called, Flow
<1>3. ASSUME Next, ~Opening PROVE FlowAt(depth)' = Called(i)'
  <2> DEFINE L == Len(session.stack)
             M == Len(session'.stack)
  <2>1. session.status # "none" /\ session.node \in Nodes /\ Effect /\ (unwound => unwound')
    BY <1>3, NextEffect DEF IInv, PlaceIsReal, Moving
  <2>2. ~unwound
    BY <2>1
  <2>3. Typed /\ Typed' /\ FramesAreCallers
    BY TypedStep DEF IInv
  <2>4. /\ DOMAIN session.stack = 1..L /\ L \in Nat /\ session.stack \in Seq(Frames)
        /\ DOMAIN session'.stack = 1..M /\ M \in Nat
    BY <2>3 DEF Typed, Sessions
  <2>5. i \in 0..M /\ depth \in 1..(M + 1) /\ i < depth
    BY DEF Depths, IsCaller
  <2>6. ASSUME NEW n \in Nat, n <= L, n <= M, \A k \in 1..n : session'.stack[k] = session.stack[k],
               depth <= n
        PROVE  FlowAt(depth)' = Called(i)'
    <3>2. i \in 0..n /\ depth \in 1..(n + 1) /\ depth \in 1..n
      BY <2>4, <2>5, <2>6
    <3>3. /\ depth \in DOMAIN session.stack /\ depth \in DOMAIN session'.stack
          /\ session'.stack[depth] = session.stack[depth]
      BY <2>4, <2>6, <3>2
    <3>1. FlowAt(depth)' = FlowAt(depth)
      BY <3>3 DEF FlowAt
    <3> HIDE DEF L, M
    <3> QED BY <2>1, <2>2, <2>3, <2>6, <3>1, <3>2, CallersBelow DEF L, M
  <2>7. ASSUME NEW n \in Nat, n <= L, n <= M, \A k \in 1..n : session'.stack[k] = session.stack[k],
               depth = n + 1, FlowAt(depth)' = FlowAt(depth)
        PROVE  FlowAt(depth)' = Called(i)'
    <3>1. i \in 0..n /\ depth \in 1..(n + 1)
      BY <2>4, <2>5, <2>7
    <3> HIDE DEF L, M
    <3> QED BY <2>1, <2>2, <2>3, <2>7, <3>1, CallersBelow DEF L, M
  <2>8. ASSUME session'.stack = session.stack, Flow' = Flow
        PROVE FlowAt(depth)' = Called(i)'
    <3>1. FlowAt(depth)' = FlowAt(depth)
      BY <2>8 DEF FlowAt
    <3> QED BY <2>4, <2>5, <2>6, <2>7, <2>8, <3>1
  <2>9. ASSUME NEW frame \in Frames, session'.stack = Append(session.stack, frame),
               frame.node = session.node,
               depth = L + 2 => FlowAt(depth)' = Called(i)'
        PROVE  FlowAt(depth)' = Called(i)'
    <3>1. /\ M = L + 1 /\ session'.stack[L + 1] = frame
          /\ \A k \in 1..L : session'.stack[k] = session.stack[k]
      BY <2>4, <2>9
    <3>2. depth = L + 1 => FlowAt(depth)' = FlowAt(depth)
      BY <2>4, <2>9, <3>1 DEF FlowAt, Flow
    <3>3. L \in Nat /\ L <= L /\ L <= M
      BY <2>4, <3>1
    <3> HIDE DEF L, M
    <3>4. depth <= L \/ depth = L + 1 \/ depth = L + 2
      BY <2>5, <3>1, <3>3
    <3> QED BY <2>6, <2>7, <2>9, <3>1, <3>2, <3>3, <3>4
  <2>10. CASE Asks
    <3>1. Frame("menu") \in Frames /\ Frame("menu").kind = "menu" /\ Frame("menu").node = session.node
      BY <2>1, <2>3 DEF Frame, Frames, Typed, Sessions
    <3>2. ASSUME session'.stack = Append(session.stack, Frame("menu")), depth = L + 2
          PROVE  FlowAt(depth)' = Called(i)'
      <4>1. /\ M = L + 1 /\ session'.stack[L + 1] = Frame("menu")
            /\ \A k \in 1..L : session'.stack[k] = session.stack[k]
        BY <2>4, <3>1, <3>2
      <4>2. i # L + 1
        BY <2>4, <3>1, <4>1 DEF IsCaller
      <4>3. i \in 0..L /\ L + 1 \in Depths /\ IsCaller(i, L + 1)
        BY <2>4, <2>5, <3>2, <4>1, <4>2 DEF IsCaller, Depths
      <4>4. FlowAt(L + 1) = Called(i)
        BY <2>1, <2>2, <2>3, <4>3 DEF FramesAreCallers
      <4>5. FlowAt(depth)' = Flow' /\ FlowAt(L + 1) = Flow /\ Flow' = Flow
        BY <2>4, <2>10, <3>2, <4>1 DEF FlowAt, Asks, Flow
      <4>6. Called(i)' = Called(i)
        BY <4>1, <4>3 DEF Called
      <4> QED BY <4>4, <4>5, <4>6
    <3>3. Flow' = Flow
      BY <2>10 DEF Asks, Flow
    <3> QED BY <2>8, <2>9, <2>10, <3>1, <3>2, <3>3 DEF Asks, StackWithMenu
  <2>11. CASE Enters
    <3>1. /\ Frame("subflow") \in Frames /\ Frame("subflow").kind = "subflow"
          /\ Frame("subflow").node = session.node
      BY <2>1, <2>3 DEF Frame, Frames, Typed, Sessions
    <3>2. ASSUME depth = L + 2 PROVE FlowAt(depth)' = Called(i)'
      <4>1. M = L + 1 /\ session'.stack[L + 1] = Frame("subflow")
        BY <2>4, <2>11, <3>1 DEF Enters
      <4>2. i = L + 1
        BY <2>4, <2>5, <3>1, <3>2, <4>1 DEF IsCaller
      <4>3. FlowAt(depth)' = FlowOf[Trigger[Subflow[session.node]]]
        BY <2>4, <2>11, <3>2, <4>1 DEF FlowAt, Enters, Flow
      <4>4. Called(i)' = Subflow[session.node]
        BY <2>4, <3>1, <4>1, <4>2 DEF Called
      <4> QED BY <2>11, <4>3, <4>4, GraphFacts DEF Enters
    <3> QED BY <2>9, <2>11, <3>1, <3>2 DEF Enters
  <2>12. CASE Returns
    <3>1. PICK k \in 1..L : CutTo(k - 1) /\ Flow' = FlowOf[session.stack[k].node]
      BY <2>12 DEF Returns
    <3>2. k - 1 \in Nat /\ k - 1 <= L /\ M = k - 1
      BY <2>4, <3>1 DEF CutTo
    <3>3. depth = k => FlowAt(depth)' = FlowAt(depth)
      BY <2>4, <3>1, <3>2 DEF FlowAt
    <3>4. depth <= k - 1 \/ depth = (k - 1) + 1
      BY <2>4, <2>5, <3>2
    <3>5. \A j \in 1..(k - 1) : session'.stack[j] = session.stack[j]
      BY <3>1 DEF CutTo
    <3>6. (k - 1) + 1 = k /\ k - 1 <= k - 1
      BY <2>4
    <3> HIDE DEF L, M
    <3> QED BY <2>6, <2>7, <3>2, <3>3, <3>4, <3>5, <3>6
  <2>13. CASE Unwinds
    <3>1. PICK k \in 1..L : /\ CutTo(k) /\ session'.node = session.stack[k].node
                            /\ session.stack[k].kind # "subflow"
      BY <2>13 DEF Unwinds
    <3>2. k \in Nat /\ k <= L /\ M = k /\ \A j \in 1..k : session'.stack[j] = session.stack[j]
      BY <2>4, <3>1 DEF CutTo
    <3>3. ASSUME depth = k + 1 PROVE FlowAt(depth)' = Called(i)'
      <4>1. i # k
        BY <2>4, <3>1, <3>2 DEF IsCaller
      <4>2. i \in 0..L /\ k \in Depths /\ IsCaller(i, k)
        BY <2>4, <2>5, <3>2, <3>3, <4>1 DEF IsCaller, Depths
      <4>3. FlowAt(k) = Called(i)
        BY <2>1, <2>2, <2>3, <4>2 DEF FramesAreCallers
      <4>4. FlowAt(depth)' = FlowOf[session.stack[k].node] /\ FlowAt(k) = FlowOf[session.stack[k].node]
        BY <2>4, <3>1, <3>2, <3>3 DEF FlowAt, Flow
      <4>5. Called(i)' = Called(i)
        BY <2>5, <3>2, <3>3, <4>1 DEF Called
      <4> QED BY <4>3, <4>4, <4>5
    <3>4. depth <= k \/ depth = k + 1
      BY <2>5, <3>2
    <3> HIDE DEF L, M
    <3> QED BY <2>6, <3>2, <3>3, <3>4
  <2>14. Stays => Flow' = Flow
    BY DEF Stays, Flow
  <2> QED
    BY <2>1, <2>8, <2>10, <2>11, <2>12, <2>13, <2>14 DEF Effect, Stays, Walks
<1> QED
  BY <1>1, <1>2, <1>3

(* Every step keeps the counts of the job in their bounds.                 *)
LEMMA JobStep == IInv /\ [Next]_vars => JobIsSound' /\ AskedOncePerMessage' /\ ReplyIsTakenOnce'
<1> SUFFICES ASSUME IInv, [Next]_vars
             PROVE  JobIsSound' /\ AskedOncePerMessage' /\ ReplyIsTakenOnce'
  OBVIOUS
<1> DEFINE Sound == JobIsSound' /\ AskedOncePerMessage' /\ ReplyIsTakenOnce'
<1>1. /\ job \in Jobs /\ job.asked \in Nat /\ job.taken \in Nat
      /\ job.cuts \in Nat /\ job.rests \in Nat
      /\ job.asked <= 1 + job.cuts + job.rests /\ job.taken <= 1 + job.rests
  BY DEF IInv, Typed, Jobs, AskedOncePerMessage, ReplyIsTakenOnce
<1>2. CASE UNCHANGED vars
  BY <1>2 DEF vars, IInv, JobIsSound, AskedOncePerMessage, ReplyIsTakenOnce, Awaits
<1>3. ASSUME NEW j \in Jobs, Advances(j) PROVE Sound
  <2>1. /\ j.asked \in Nat /\ j.taken \in Nat /\ j.cuts \in Nat /\ j.rests \in Nat
        /\ j.asked <= j.cuts + j.rests /\ j.taken <= 1 + j.rests
        /\ j.reply # None /\ Awaits => j.taken <= j.rests
    BY <1>1, <1>3 DEF Advances, IInv, JobIsSound, Jobs
  <2>2. CASE Opens(j)
    BY <2>1, <2>2
       DEF Opens, NoSession, JobIsSound, AskedOncePerMessage, ReplyIsTakenOnce, Awaits
  <2>3. CASE Takes(j)
    <3>1. /\ job'.asked = j.asked /\ job'.cuts = j.cuts /\ job'.rests = j.rests
          /\ job'.taken = j.taken + 1 /\ j.taken <= j.rests
      BY <2>1, <2>3 DEF Takes, Jobs
    <3>2. phase' \in {"running", "resting"} /\ (phase' = "running" => ~Awaits')
      BY <2>3 DEF Takes, AfterUpdate, Awaits
    <3> QED BY <2>1, <3>1, <3>2 DEF JobIsSound, AskedOncePerMessage, ReplyIsTakenOnce
  <2>4. CASE GoesOn(j)
    BY <2>1, <2>4 DEF GoesOn, JobIsSound, AskedOncePerMessage, ReplyIsTakenOnce, Awaits
  <2> QED BY <1>3, <2>2, <2>3, <2>4 DEF Advances, Advance
<1>4. ASSUME NEW sent \in Sent, job' = [job EXCEPT !.asked = @ + sent], phase = "running",
             phase' = "resting" \/ (phase' = "running" /\ sent = 0 /\ ~Awaits')
      PROVE  Sound
  <2>1. /\ sent \in {0, 1} /\ job'.asked = job.asked + sent /\ job'.cuts = job.cuts
        /\ job'.rests = job.rests /\ job'.taken = job.taken /\ job.asked <= job.cuts + job.rests
    BY <1>1, <1>4 DEF Sent, Jobs, IInv, JobIsSound
  <2> QED BY <1>1, <1>4, <2>1 DEF JobIsSound, AskedOncePerMessage, ReplyIsTakenOnce
<1>5. CASE Step
  <2>1. PICK sent \in Sent : job' = [job EXCEPT !.asked = @ + sent]
    BY <1>5 DEF Step
  <2>2. PICK answered \in BOOLEAN : Execute(answered)
    BY <1>5 DEF Step
  <2>3. session'.status = "ACTIVE" => sent = 0 /\ ~Awaits'
    <3>1. Asking => session'.status = "WAITING_FOR_INPUT"
      BY <1>5, <2>2, ExecuteEffect DEF Step, IInv, PlaceIsReal
    <3> QED BY <3>1 DEF Sent, Awaits
  <2> QED BY <1>4, <1>5, <2>1, <2>3 DEF Step, AfterUpdate
<1>6. CASE NodeFails
  BY <1>4, <1>6 DEF NodeFails
<1>7. CASE StepsRunOut
  BY <1>1, <1>7 DEF StepsRunOut, JobIsSound, AskedOncePerMessage, ReplyIsTakenOnce
<1>8. ASSUME JobEnds PROVE Sound
  BY <1>8 DEF JobEnds, NewJob, JobIsSound, AskedOncePerMessage, ReplyIsTakenOnce
<1>9. CASE Die
  <2>1. ASSUME phase = "resting", job' = [job EXCEPT !.rests = @ + 1] PROVE Sound
    <3>1. /\ job'.asked = job.asked /\ job'.cuts = job.cuts
          /\ job'.rests = job.rests + 1 /\ job'.taken = job.taken
      BY <2>1, <1>1 DEF Jobs
    <3>2. phase' = "dead"
      BY <1>9 DEF Die
    <3> QED BY <1>1, <3>1, <3>2 DEF JobIsSound, AskedOncePerMessage, ReplyIsTakenOnce
  <2>2. ASSUME phase = "running", NEW sent \in Sent,
               job' = [job EXCEPT !.asked = @ + sent, !.cuts = @ + sent]
        PROVE  Sound
    <3>1. /\ sent \in {0, 1} /\ job'.asked = job.asked + sent
          /\ job'.cuts = job.cuts + sent /\ job'.reply = job.reply
          /\ job'.rests = job.rests /\ job'.taken = job.taken
      BY <2>2, <1>1 DEF Jobs, Sent
    <3>2. /\ job.asked <= job.cuts + job.rests /\ (job.reply # None => ~Awaits)
          /\ phase' = "dead" /\ Awaits' = Awaits
      BY <1>9, <2>2 DEF Die, IInv, JobIsSound, Awaits
    <3> QED BY <1>1, <3>1, <3>2 DEF JobIsSound, AskedOncePerMessage, ReplyIsTakenOnce
  <2> QED BY <1>9, <2>1, <2>2 DEF Die
<1>10. CASE Finish \/ Throw \/ (phase = "dead" /\ JobEnds /\ UNCHANGED faults)
  BY <1>8, <1>10 DEF Finish, Throw
<1> HIDE DEF Sound
<1>11. Sound
  BY <1>3, <1>5, <1>6, <1>7, <1>9, <1>10, <1>2, NextAdvances DEF Sound
<1> QED
  BY <1>11 DEF Sound

(* The inductive invariant holds at first.                                 *)
LEMMA InitInv == Init => IInv
<1> SUFFICES ASSUME Init PROVE IInv
  OBVIOUS
<1>1. /\ session = [status |-> "none", node |-> None, stack |-> <<>>, variables |-> {}]
      /\ Len(session.stack) = 0
  BY DEF Init, NoSession
<1>2. session \in Sessions /\ job \in Jobs /\ job.asked = 0 /\ job.taken = 0
      /\ job.cuts = 0 /\ job.rests = 0
  BY <1>1 DEF Init, Sessions, NewJob, Jobs
<1>3. 0 <= MaxDepth /\ 0 \in 0..MaxSteps
  BY BoundsAssumption
<1>4. phase = "idle" /\ steps = 0 /\ unwound = FALSE /\ faults = 0
  BY DEF Init
<1>5. Typed
  BY <1>1, <1>2, <1>3, <1>4 DEF Typed
<1>6. JobIsSound /\ AskedOncePerMessage /\ ReplyIsTakenOnce
  BY <1>2, <1>4 DEF JobIsSound, AskedOncePerMessage, ReplyIsTakenOnce
<1> QED
  BY <1>1, <1>4, <1>5, <1>6 DEF IInv, PlaceIsReal, FramesAreCallers

(* The inductive invariant holds always.                                   *)
LEMMA InvHolds == Spec => []IInv
<1>1. IInv /\ [Next]_vars => IInv'
  BY TypedStep, PlaceIsRealStep, FramesAreCallersStep, JobStep DEF IInv
<1> QED
  BY <1>1, InitInv, PTL DEF Spec

(* Whatever flows are published and however they call each other, the      *)
(* return frames on the stack are the calls the session is in, and the     *)
(* stack stays within its depth (flow_stack_manager.ts).                   *)
THEOREM StackIsAlwaysSound == Spec => []StackIsSound
<1>1. IInv => TypeOK
  BY DEF IInv, Typed, TypeOK, Sessions, Jobs
<1>2. IInv => StackIsSound
  BY <1>1 DEF IInv, StackIsSound
<1> QED
  BY <1>2, InvHolds, PTL

(* Whatever the flows, the faults and the redeliveries, a message of the   *)
(* contact is answered with one question, but for what deaths of the worker*)
(* repeat (flow_execution_engine.ts, the loop that stops at a hold).       *)
THEOREM QuestionsAreAskedOnce == Spec => []AskedOncePerMessage
<1>1. IInv => AskedOncePerMessage
  BY DEF IInv
<1> QED
  BY <1>1, InvHolds, PTL

(* A redelivered job gives its reply to a second question only where the   *)
(* first run had come to rest (flow_execution_engine.ts, the first turn).  *)
THEOREM RepliesAreTakenOnce == Spec => []ReplyIsTakenOnce
<1>1. IInv => ReplyIsTakenOnce
  BY DEF IInv
<1> QED
  BY <1>1, InvHolds, PTL

(* No step within a flow drops an answer: BACK and MAIN_MENU restore the   *)
(* variables of another flow only (flow_stack_manager.ts).                 *)
THEOREM AnswersAreAlwaysKept == Spec => AnswersAreKept
<1>1. ASSUME IInv, [Next]_vars, session.status \in Live \/ phase = "running",
             Flow' = Flow, ~unwound'
      PROVE  session.variables \subseteq session'.variables
  <2>1. CASE UNCHANGED vars
    BY <2>1 DEF vars
  <2>2. ASSUME Next PROVE session.variables \subseteq session'.variables
    <3>1. ~Opening
      BY <1>1 DEF Opening
    <3>2. Effect /\ session.status # "none" /\ ~unwound
      BY <1>1, <2>2, <3>1, NextEffect DEF Moving
    <3>3. ~unwound
      BY <3>2
    <3>4. ~Enters
      BY <1>1, GraphFacts DEF Enters, Flow
    <3>5. ASSUME NEW i \in 1..Len(session.stack), Innermost(i)
          PROVE  Flow # FlowOf[session.stack[i].node]
      <4>1. /\ Len(session.stack) \in Nat /\ DOMAIN session.stack = 1..Len(session.stack)
            /\ session.status # "none"
        BY <1>1, <3>2 DEF IInv, Typed, Sessions
      <4>2. /\ i \in 0..Len(session.stack) /\ Len(session.stack) + 1 \in Depths
            /\ IsCaller(i, Len(session.stack) + 1)
        BY <3>5, <4>1 DEF Innermost, IsCaller, Depths
      <4>3. FlowAt(Len(session.stack) + 1) = Called(i)
        BY <1>1, <3>3, <4>1, <4>2 DEF IInv, FramesAreCallers
      <4>4. Flow = Subflow[session.stack[i].node]
        BY <4>1, <4>3 DEF FlowAt, Called
      <4>5. session.stack[i].node \in Calls
        BY <1>1, <3>5, <4>1 DEF Innermost, IInv, PlaceIsReal
      <4> QED BY <4>4, <4>5, GraphFacts
    <3>6. ~Returns
      BY <1>1, <3>5 DEF Returns
    <3> QED
      BY <1>1, <3>2, <3>4, <3>6 DEF Effect, Stays, Walks, Asks, Unwinds
  <2> QED BY <1>1, <2>1, <2>2
<1> QED
  BY <1>1, InvHolds, PTL DEF Spec, AnswersAreKept
=============================================================================
