--------------------------- MODULE MessageTimeline ---------------------------
(***************************************************************************)
(* What the product promises of the status of one outbound message, without*)
(* webhooks, buffers or clocks: it is what Meta has reported of the wamid  *)
(* that is stored (or the "sent" of the worker that stored it), it moves   *)
(* forward only, and each wamid is stored once.  DeliveryReceipts          *)
(* implements it (message_status.ts; message_receipt_repository.ts;        *)
(* whatsapp_outbound_repository.ts, markSentAndReconcile).                 *)
(***************************************************************************)
EXTENDS Naturals, MessageStatus

CONSTANTS Wamids, NoWamid, Times

VARIABLES
  reported, \* per wamid: the receipts Meta has issued
  stored,   \* per wamid: it has been stored on the message
  shown     \* the message: status, wamid and provider time

vars == <<reported, stored, shown>>

Init ==
  /\ reported = [w \in Wamids |-> {}]
  /\ stored = [w \in Wamids |-> FALSE]
  /\ shown = [status |-> "queued", wamid |-> NoWamid, at |-> Never]

(* Meta reports; it takes nothing back.                                    *)
Report ==
  /\ UNCHANGED <<stored, shown>>
  /\ reported' \in [Wamids -> SUBSET [status: ProviderStatus, at: Times]]
  /\ \A w \in Wamids : reported[w] \subseteq reported'[w]

(* The worker's own "sent", or a receipt that came before it.              *)
Store(w) ==
  /\ ~stored[w]
  /\ stored' = [stored EXCEPT ![w] = TRUE]
  /\ \E first \in reported[w] \cup [status: {"sent"}, at: Times] :
       shown' = [status |-> first.status, wamid |-> w, at |-> first.at]
  /\ UNCHANGED reported

Show ==
  /\ shown.wamid # NoWamid
  /\ \E receipt \in reported[shown.wamid] :
       /\ StatusRank[receipt.status] >= StatusRank[shown.status]
       /\ receipt.at >= shown.at
       /\ shown' = [shown EXCEPT !.status = receipt.status, !.at = receipt.at]
  /\ UNCHANGED <<reported, stored>>

Next ==
  \/ Report
  \/ \E w \in Wamids : Store(w)
  \/ Show

Spec == Init /\ [][Next]_vars

=============================================================================
