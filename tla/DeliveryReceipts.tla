--------------------------- MODULE DeliveryReceipts ---------------------------
(***************************************************************************)
(* Delivery receipts of one outbound message: what Meta reports about each *)
(* wamid, the webhook transaction that applies or buffers a receipt        *)
(* (whatsapp_webhook_ingestion_service.ts, message_receipt_repository.ts), *)
(* and the outbound worker's transaction that stores the wamid and         *)
(* reconciles the buffer (markSentAndReconcile).                           *)
(*                                                                         *)
(* The transactions run at READ COMMITTED, so a webhook's steps interleave *)
(* with the worker's; the two lock a row only when it already exists.      *)
(* Meta delivers each receipt at least once, in any order, to any number   *)
(* of concurrent webhook requests.  Meta stamps receipts in whole seconds  *)
(* and the worker in milliseconds: a second is TicksPerSecond ticks.       *)
(***************************************************************************)
EXTENDS Naturals, MessageStatus

CONSTANTS
  Wamids,          \* ids Meta returns for the sends of this message
  Hooks,           \* concurrent webhook requests
  NoWamid,         \* messages.providerMessageId is null
  Reported,        \* what Meta may report, to restrict an instance
  TicksPerSecond,
  StartTime,       \* the clock when the message is queued
  MaxTime          \* bound on the clock, for TLC

ASSUME ReceiptConstants ==
  /\ NoWamid \notin Wamids
  /\ Reported \subseteq ProviderStatus
  /\ TicksPerSecond \in Nat \ {0}
  /\ {StartTime, MaxTime} \subseteq Nat
  /\ TicksPerSecond <= StartTime /\ StartTime <= MaxTime

VARIABLES
  now,      \* the clock, in ticks
  meta,     \* per wamid: what Meta did with the message
  reported, \* per wamid: the receipts Meta has issued
  handled,  \* per wamid: those that a webhook request has processed
  message,  \* the row: status, wamid, at (providerStatusAt)
  stored,   \* per wamid: the worker has committed it
  buffer,   \* unmatched_provider_receipts, per wamid
  hook,     \* what each webhook request is doing
  excuse    \* history, per wamid: how a receipt may have been lost

vars == <<now, meta, reported, handled, message, stored, buffer, hook, excuse>>

-----------------------------------------------------------------------------
Times == 1..MaxTime
NoReceipt == [status |-> "none", at |-> Never]
Receipts == [status: ProviderStatus, at: Times]
IdleHook == [pc |-> "idle", w |-> NoWamid, receipt |-> NoReceipt]

TypeOK ==
  /\ now \in Times
  /\ meta \in [Wamids -> {"unsent", "accepted"} \cup ProviderStatus]
  /\ reported \in [Wamids -> SUBSET Receipts]
  /\ handled \in [Wamids -> SUBSET Receipts]
  /\ message \in [status: RankedStatus, wamid: Wamids \cup {NoWamid},
                  at: Times \cup {Never}]
  /\ stored \in [Wamids -> BOOLEAN]
  /\ buffer \in [Wamids -> Receipts \cup {NoReceipt}]
  /\ hook \in [Hooks -> [pc: {"idle", "unmatched", "conflict"},
                         w: Wamids \cup {NoWamid},
                         receipt: Receipts \cup {NoReceipt}]]
  /\ excuse \in [Wamids -> SUBSET {"predates", "raced"}]

Init ==
  /\ now = StartTime
  /\ meta = [w \in Wamids |-> "unsent"]
  /\ reported = [w \in Wamids |-> {}]
  /\ handled = [w \in Wamids |-> {}]
  /\ message = [status |-> "queued", wamid |-> NoWamid, at |-> Never]
  /\ stored = [w \in Wamids |-> FALSE]
  /\ buffer = [w \in Wamids |-> NoReceipt]
  /\ hook = [h \in Hooks |-> IdleHook]
  /\ excuse = [w \in Wamids |-> {}]

-----------------------------------------------------------------------------
Tick ==
  /\ now < MaxTime
  /\ now' = now + 1
  /\ UNCHANGED <<meta, reported, handled, message, stored, buffer, hook, excuse>>

(* A run of executeDispatch hands the message to Meta, which returns a new *)
(* wamid (a second one when a run that lost its lease sends again).        *)
MetaAccepts(w) ==
  /\ meta[w] = "unsent"
  /\ meta' = [meta EXCEPT ![w] = "accepted"]
  /\ UNCHANGED <<now, reported, handled, message, stored, buffer, hook, excuse>>

(* Meta's side: sent, then delivered, then read; or failed after sent.     *)
(* Each change is reported once with the second in which it happened.      *)
MetaReports(w, status) ==
  /\ <<meta[w], status>> \in {<<"accepted", "sent">>, <<"sent", "delivered">>,
                              <<"delivered", "read">>, <<"accepted", "failed">>,
                              <<"sent", "failed">>}
  /\ meta' = [meta EXCEPT ![w] = status]
  /\ reported' = [reported EXCEPT ![w] = @ \cup
       {[status |-> status, at |-> now - (now % TicksPerSecond)]}]
  /\ UNCHANGED <<now, handled, message, stored, buffer, hook, excuse>>

-----------------------------------------------------------------------------
Handled(w, receipt) == handled' = [handled EXCEPT ![w] = @ \cup {receipt}]

(* messages after an update by applyDeliveryReceipt, which finds the row   *)
(* by its wamid.                                                           *)
Matches(w) == message.wamid = w
Stale(receipt) ==
  ~ShouldApply(message.status, message.at, receipt.status, receipt.at)
Patched(row, receipt) == [row EXCEPT !.status = receipt.status, !.at = receipt.at]

(* The webhook's applyDeliveryReceipt on a message it finds and locks.     *)
ApplyDeliveryReceipt(h, w, receipt) ==
  /\ hook[h].pc = "idle"
  /\ receipt \in reported[w]
  /\ Matches(w)
  /\ message' = IF Stale(receipt) THEN message ELSE Patched(message, receipt)
  /\ excuse' = [excuse EXCEPT ![w] =
       @ \cup IF /\ receipt.at < message.at
                 /\ StatusRank[receipt.status] > StatusRank[message.status]
                THEN {"predates"} ELSE {}]
  /\ Handled(w, receipt)
  /\ UNCHANGED <<now, meta, reported, stored, buffer, hook>>

(* ... and on one it does not find: reason not_found, nothing is locked.   *)
ReceiptNotFound(h, w, receipt) ==
  /\ hook[h].pc = "idle"
  /\ receipt \in reported[w]
  /\ ~Matches(w)
  /\ hook' = [hook EXCEPT ![h] = [pc |-> "unmatched", w |-> w, receipt |-> receipt]]
  /\ UNCHANGED <<now, meta, reported, handled, message, stored, buffer, excuse>>

(* upsertUnmatchedProviderReceipt: INSERT ... ON CONFLICT DO NOTHING       *)
InsertUnmatched(h) ==
  LET w == hook[h].w IN
  /\ hook[h].pc = "unmatched"
  /\ IF buffer[w] = NoReceipt
       THEN /\ buffer' = [buffer EXCEPT ![w] = hook[h].receipt]
            /\ hook' = [hook EXCEPT ![h] = IdleHook]
            /\ Handled(w, hook[h].receipt)
            /\ excuse' = [excuse EXCEPT ![w] =
                            @ \cup IF stored[w] THEN {"raced"} ELSE {}]
       ELSE /\ hook' = [hook EXCEPT ![h].pc = "conflict"]
            /\ UNCHANGED <<buffer, handled, excuse>>
  /\ UNCHANGED <<now, meta, reported, message, stored>>

(* Mutant: the receipt that comes later replaces the buffered one.         *)
ReplacesAlways(receipt, old) == receipt # old

(* ... then the existing row is locked, or it vanished in between.         *)
Replaces(receipt, old) ==
  ShouldApply(old.status, old.at, receipt.status, receipt.at)
UpdateUnmatched(h) ==
  LET w == hook[h].w
      receipt == hook[h].receipt
      old == buffer[w]
  IN
  /\ hook[h].pc = "conflict"
  /\ buffer' = [buffer EXCEPT ![w] =
       IF old # NoReceipt /\ Replaces(receipt, old) THEN receipt ELSE old]
  /\ hook' = [hook EXCEPT ![h] = IdleHook]
  /\ Handled(w, receipt)
  /\ excuse' = [excuse EXCEPT ![w] = @ \cup IF stored[w] THEN {"raced"} ELSE {}]
  /\ UNCHANGED <<now, meta, reported, message, stored>>

(* The request dies, or its transaction rolls back: Meta delivers again.   *)
HookAborts(h) ==
  /\ hook[h].pc # "idle"
  /\ hook' = [hook EXCEPT ![h] = IdleHook]
  /\ UNCHANGED <<now, meta, reported, handled, message, stored, buffer, excuse>>

(* Mutant: the provider time is stamped before the early receipt applies.  *)
ReconciledStampsFirst(w, early) ==
  LET row == [status |-> "sent", wamid |-> w, at |-> now]
  IN IF early # NoReceipt /\ ShouldApply(row.status, row.at, early.status, early.at)
       THEN Patched(row, early) ELSE row

(* Mutant: a buffered receipt is taken for granted.                        *)
ReconciledUnchecked(w, early) ==
  Patched([status |-> "sent", wamid |-> w, at |-> Never], early)

(* The message that markSentAndReconcile leaves.  The provider stamp stays *)
(* null while an early receipt is applied, and is the local time when      *)
(* there is none or when it does not apply.                                *)
Reconciled(w, early) ==
  LET row == [status |-> "sent", wamid |-> w,
              at |-> IF early = NoReceipt THEN now ELSE Never]
  IN IF early = NoReceipt THEN row
     ELSE IF ShouldApply(row.status, row.at, early.status, early.at)
       THEN Patched(row, early) ELSE [row EXCEPT !.at = now]

DeleteUnmatched(w) == buffer' = [buffer EXCEPT ![w] = NoReceipt]

(* markSentAndReconcile: one transaction, under the lock of the buffer row *)
(* when there is one.                                                      *)
MarkSentAndReconcile(w) ==
  /\ meta[w] # "unsent"
  /\ ~stored[w]
  /\ stored' = [stored EXCEPT ![w] = TRUE]
  /\ message' = Reconciled(w, buffer[w])
  /\ DeleteUnmatched(w)
  /\ UNCHANGED <<now, meta, reported, handled, hook, excuse>>

Webhook(h) ==
  \/ \E w \in Wamids : \E receipt \in reported[w] :
       ApplyDeliveryReceipt(h, w, receipt) \/ ReceiptNotFound(h, w, receipt)
  \/ InsertUnmatched(h) \/ UpdateUnmatched(h) \/ HookAborts(h)

Next ==
  \/ Tick
  \/ \E w \in Wamids :
       \/ MetaAccepts(w) \/ MarkSentAndReconcile(w)
       \/ \E status \in Reported : MetaReports(w, status)
  \/ \E h \in Hooks : Webhook(h)

Spec == Init /\ [][Next]_vars

-----------------------------------------------------------------------------
(* Whatever the order, the number and the concurrency of webhooks, the     *)
(* message shows only what Meta reported of the stored wamid and never goes*)
(* back in rank or in provider time; only another wamid resets it          *)
(* (applyDeliveryReceipt and markSentAndReconcile against shouldApply-     *)
(* ProviderStatus).                                                        *)
Timeline == INSTANCE MessageTimeline WITH shown <- message
ImplementsTimeline == Timeline!Spec

(* While the wamid is unknown, the one buffered row per wamid holds the    *)
(* highest status of all receipts that were acknowledged to Meta, whatever *)
(* the order in which concurrent requests inserted and updated it.         *)
BufferHoldsTheLatest ==
  \A w \in Wamids :
    ~stored[w] => \A receipt \in handled[w] :
      /\ buffer[w] # NoReceipt
      /\ StatusRank[buffer[w].status] >= StatusRank[receipt.status]

(* A buffered receipt outlives the storing of its wamid only when the      *)
(* webhook had looked for the message before, and wrote the buffer after.  *)
BufferIsTransient ==
  \A w \in Wamids :
    stored[w] /\ buffer[w] # NoReceipt => "raced" \in excuse[w]

(* What the buffer holds is what it is for (upsertUnmatchedProviderReceipt *)
(* and its deletion by the worker).                                        *)
BufferIsSound == BufferHoldsTheLatest /\ BufferIsTransient

(* When Meta's receipts have all been acknowledged, the message shows what *)
(* Meta last reported, unless a receipt crossed the storing of the wamid   *)
(* (raced), or bears an earlier second than that moment and comes after it *)
(* (predates): only receipts buffered in time escape the comparison with   *)
(* the local clock ("leave providerStatusAt unset until reconcile").       *)
CaughtUp(w) == message.wamid = w /\ handled[w] = reported[w]
ShownStatus(w) == IF meta[w] = "accepted" THEN "sent" ELSE meta[w]
TruthIsShown ==
  \A w \in Wamids :
    CaughtUp(w) /\ excuse[w] = {} => message.status = ShownStatus(w)

=============================================================================
