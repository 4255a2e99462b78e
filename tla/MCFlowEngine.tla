---------------------------- MODULE MCFlowEngine ----------------------------
(***************************************************************************)
(* FlowEngine on two flows.  The main flow may call the subflow before its *)
(* menu, and again from it; the menu has a second page, and a question that*)
(* leads through a knowledge base back to it; the fallback of another      *)
(* knowledge base goes round in a circle.  The subflow asks, shows a menu, *)
(* and exits or hands over.                                                *)
(***************************************************************************)
EXTENDS FlowEngine

MainNodes == {"start", "branch", "call", "menu", "question", "faq",
              "notice", "rag", "more", "exit"}
SubNodes == {"substart", "subquestion", "submenu", "handover", "subexit"}
MCNodes == MainNodes \cup SubNodes
MCFlowOf == [n \in MCNodes |-> IF n \in MainNodes THEN "main" ELSE "sub"]
MCTrigger == [f \in {"main", "sub"} |-> IF f = "main" THEN "start" ELSE "substart"]
MCType == [n \in MCNodes |->
  CASE n \in {"start", "substart"}       -> "TRIGGER"
    [] n = "branch"                      -> "CONDITION"
    [] n = "call"                        -> "SUBFLOW"
    [] n \in {"menu", "more", "submenu"} -> "MENU"
    [] n \in {"question", "subquestion"} -> "MESSAGE"
    [] n = "notice"                      -> "TEMPLATE"
    [] n \in {"faq", "rag"}              -> "AI_RAG"
    [] n = "handover"                    -> "HUMAN_HANDOVER"
    [] n \in {"exit", "subexit"}         -> "EXIT"]
MCUnlabeled == [n \in MCNodes |->
  CASE n = "start"       -> "branch"
    [] n = "call"        -> "menu"
    [] n = "question"    -> "faq"
    [] n = "faq"         -> "menu"
    [] n = "notice"      -> "rag"
    [] n = "substart"    -> "subquestion"
    [] n = "subquestion" -> "submenu"
    [] OTHER             -> None]
NoHandle == [h \in {} |-> None]
MCLabeled == [n \in MCNodes |->
  CASE n = "branch"  -> [h1 |-> "call", h2 |-> "notice", h3 |-> "menu"]
    [] n = "menu"    -> [h1 |-> "call", h2 |-> "question", h3 |-> "more"]
    [] n = "more"    -> [h1 |-> "exit", h2 |-> "menu"]
    [] n = "rag"     -> [h1 |-> "branch"]
    [] n = "submenu" -> [h1 |-> "subexit", h2 |-> "subquestion", h3 |-> "handover"]
    [] OTHER         -> NoHandle]
MCNavigation == [n \in {"menu", "more", "submenu"} |->
  [back |-> "BACK", home |-> "MAIN_MENU", stop |-> "STOP"]]
MCSubflow == [n \in {"call"} |-> "sub"]

=============================================================================
