SPECIFICATION FairSpec
CONSTANTS
  Flows = {"main", "sub"}
  Nodes <- MCNodes
  Handles = {"h1", "h2", "h3", "back", "home", "stop"}
  StartFlow = "main"
  Trigger <- MCTrigger
  Type <- MCType
  FlowOf <- MCFlowOf
  Unlabeled <- MCUnlabeled
  Labeled <- MCLabeled
  Navigation <- MCNavigation
  Subflow <- MCSubflow
  Waits = {"question", "subquestion"}
  PassThrough = {}
  None = "none"
  Text = "text"
  MaxDepth = 4
  MaxSteps = 5
  MaxFaults = 2
INVARIANTS
  StackIsSound
  AskedOncePerMessage
  ReplyIsTakenOnce
PROPERTIES
  AnswersAreKept
  EngineYields
CHECK_DEADLOCK FALSE
