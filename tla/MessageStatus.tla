---------------------------- MODULE MessageStatus ----------------------------
(***************************************************************************)
(* The ordering of delivery statuses (lib/meta_whatsapp/message_status.ts) *)
(* shared by messages, buffered receipts and campaign recipients.  A       *)
(* provider timestamp is a natural number and Never stands for null.       *)
(***************************************************************************)
EXTENDS Naturals

Never == 0

ProviderStatus == {"sent", "delivered", "read", "failed"}
RankedStatus == {"queued"} \cup ProviderStatus

(* MESSAGE_STATUS_RANK *)
StatusRank == [queued |-> 0, sent |-> 1, delivered |-> 2, read |-> 3, failed |-> 4]

(* Mutant: only the provider time is compared.                             *)
ShouldApplyByTime(current, currentAt, incoming, incomingAt) ==
  currentAt = Never \/ incomingAt >= currentAt

(* shouldApplyProviderStatus, for an incoming status of ProviderStatus     *)
(* with a timestamp other than Never.                                      *)
ShouldApply(current, currentAt, incoming, incomingAt) ==
  /\ currentAt = Never \/ incomingAt >= currentAt
  /\ \/ incoming = "failed"
     \/ current \notin RankedStatus
     \/ StatusRank[incoming] > StatusRank[current]
     \/ /\ StatusRank[incoming] = StatusRank[current]
        /\ currentAt = Never \/ incomingAt > currentAt

=============================================================================
