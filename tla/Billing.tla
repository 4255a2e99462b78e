------------------------------- MODULE Billing -------------------------------
(***************************************************************************)
(* The subscription of one organization: checkout orders, payments made at *)
(* Razorpay, the two callers of applyPaidOrder (the client's verify and    *)
(* the order.paid event), the payment.failed and payment.captured events,  *)
(* the activation of the free plan and the hourly lifecycle sweep          *)
(* (services/billing).                                                     *)
(*                                                                         *)
(* Handlers are split between statements that commit on their own; the     *)
(* transaction of an activation is split between its read of the current   *)
(* subscription and its commit, with the order row locked in between.      *)
(* PaymentEvents models how often and when an event's handler runs; here a *)
(* handler that did not conclude may run again.                            *)
(***************************************************************************)
EXTENDS Naturals, Sequences, FiniteSets

CONSTANTS
  NumOrders,     \* billing_orders rows of the paid plan, in order of creation
  NumPayments,   \* attempts to pay, each with a gatewayPaymentId, in order
  FreeRequests,  \* requests to activate the free plan
  PeriodLength, GraceLength, OrderTtl,
  MaxTime,       \* bound on the clock, for TLC
  MaxFaults      \* bound on failures of the environment, for TLC

Orders == 1..NumOrders
Payments == 1..NumPayments
FreeOrder == 0    \* the row free_<organization>_<plan>
None == 0         \* no payment, no order at Razorpay
Transactions == Orders \cup FreeRequests  \* what activates a subscription

ASSUME ConstantsAssumption ==
  /\ {NumOrders, NumPayments, MaxTime, MaxFaults} \subseteq Nat
  /\ {PeriodLength, GraceLength, OrderTtl} \subseteq Nat \ {0}
  /\ FreeRequests \cap Nat = {}

VARIABLES
  now,
  order,      \* the rows: status, end of the period, expiry of the checkout
  subs,       \* organization_subscriptions, oldest first
  slot,       \* the payment whose row holds the gatewayOrderId of the order
  gateway,    \* what happened to an attempt at Razorpay, and for which order
  handled,    \* payment.failed events concluded
  apply,      \* the activations under way
  failing,    \* the handler of a payment.failed event
  sweep,      \* the lifecycle sweep
  history,    \* invoices and overwritten payments per order; lost paid time
  faults

vars == <<now, order, subs, slot, gateway, handled, apply, failing,
          sweep, history, faults>>

-----------------------------------------------------------------------------
AllOrders == Orders \cup {FreeOrder}
OrderStatus ==
  {"none", "opening", "created", "paid", "failed", "expired"} \* "opening": no row yet
SubscriptionStatus == {"trialing", "active", "past_due", "expired"}
PlanOf(o) == IF o = FreeOrder THEN "free" ELSE "paid"
NoGrace == 0      \* graceEndsAt is null

NoOrder == [status |-> "none", end |-> 0, expires |-> 0]
IdleApply == [pc |-> "idle", p |-> None, sub |-> 0, end |-> 0]
IdleFailing == [pc |-> "idle", p |-> None, sub |-> 0, created |-> FALSE]
IdleSweep == [pc |-> "idle", at |-> 0, orders |-> {}, subs |-> {}]

TypeOK ==
  /\ now \in Nat
  /\ order \in [AllOrders -> [status: OrderStatus, end: Nat, expires: Nat]]
  /\ subs \in Seq([plan: {"free", "paid"}, status: SubscriptionStatus,
                   end: Nat, grace: Nat])
  /\ slot \in [Orders -> Payments \cup {None}]
  /\ gateway \in [Payments -> [o: Orders \cup {None},
                               outcome: {"none", "failed", "captured"}]]
  /\ handled \subseteq Payments
  /\ apply \in [Transactions -> [pc: {"idle", "applying"}, p: Payments \cup {None},
                                 sub: 0..Len(subs), end: Nat]]
  /\ failing \in [pc: {"idle", "order", "payment"}, p: Payments \cup {None},
                  sub: 0..Len(subs), created: BOOLEAN]
  /\ sweep \in [pc: {"idle", "orders", "past_due", "grace"}, at: Nat,
                orders: SUBSET Orders, subs: SUBSET ((1..Len(subs)) \X Nat)]
  /\ history \in [invoices: [Orders -> Nat], overwritten: [Orders -> Nat],
                  lost: BOOLEAN]
  /\ faults \in Nat

Init ==
  /\ now = 0
  /\ order = [o \in AllOrders |-> NoOrder]
  /\ subs = <<>>
  /\ slot = [o \in Orders |-> None]
  /\ gateway = [p \in Payments |-> [o |-> None, outcome |-> "none"]]
  /\ handled = {}
  /\ apply = [a \in Transactions |-> IdleApply]
  /\ failing = IdleFailing
  /\ sweep = IdleSweep
  /\ history = [invoices |-> [o \in Orders |-> 0],
                overwritten |-> [o \in Orders |-> 0], lost |-> FALSE]
  /\ faults = 0

-----------------------------------------------------------------------------
(* The environment fails at most MaxFaults times in a behaviour.           *)
Fault == faults < MaxFaults /\ faults' = faults + 1

(* findCurrentForEntitlements: the newest row that grants access, or 0.    *)
Entitled(s) ==
  \/ s.status \in {"trialing", "active"}
  \/ s.status = "past_due" /\ (s.grace = NoGrace \/ s.grace > now)
Current ==
  LET rows == {i \in 1..Len(subs) : Entitled(subs[i])} IN
  IF rows = {} THEN 0 ELSE CHOOSE i \in rows : \A j \in rows : j <= i

(* computeOrderPeriod: a renewal starts at the unused end of the period.   *)
PeriodEnd(plan) ==
  LET renewal == Current # 0 /\ subs[Current].plan = plan /\ subs[Current].end > now
  IN  (IF renewal THEN subs[Current].end ELSE now) + PeriodLength

-----------------------------------------------------------------------------
(* findReusableForOrg: an open checkout of the plan is used again.         *)
Reusable(o) == order[o].status = "created" /\ order[o].expires > now

(* createCheckout finds no open checkout and opens an order at Razorpay ...*)
CreateCheckout(o) ==
  /\ order[o].status = "none" /\ (o > 1 => order[o - 1].status # "none")
  /\ ~\E other \in Orders : Reusable(other)
  /\ order' = [order EXCEPT ![o] = [status |-> "opening", end |-> PeriodEnd("paid"),
                                    expires |-> now + OrderTtl]]
  /\ UNCHANGED <<now, subs, slot, gateway, handled, apply, failing, sweep, history,
                 faults>>

(* ... and then inserts its row with what it had computed; another checkout*)
(* may have looked meanwhile.  One that fails or dies leaves no row.       *)
InsertOrder(o) ==
  /\ order[o].status = "opening"
  /\ order' = [order EXCEPT ![o].status = "created"]
  /\ UNCHANGED <<now, subs, slot, gateway, handled, apply, failing, sweep, history,
                 faults>>

(* At Razorpay an order can be paid, after any number of failed attempts,  *)
(* until one attempt is captured, whatever the row says.                   *)
Attempt(p, o) ==
  /\ gateway[p].outcome = "none" /\ (p > 1 => gateway[p - 1].outcome # "none")
  /\ order[o].status \notin {"none", "opening"}
  /\ ~\E q \in Payments : gateway[q] = [o |-> o, outcome |-> "captured"]
  /\ \E outcome \in {"failed", "captured"} :
       gateway' = [gateway EXCEPT ![p] = [o |-> o, outcome |-> outcome]]
  /\ UNCHANGED <<now, order, subs, slot, handled, apply, failing, sweep,
                 history, faults>>

-----------------------------------------------------------------------------
(* claimForUpdate: the row of the order is locked until the commit.        *)
Locked(o) == apply[o].pc = "applying"

(* Mutant: an order that is already paid is not recognized.                *)
AppliesPaidAgain(o) == order[o].status # "none"

(* Mutant: only an order that is still open is applied.                    *)
AppliesOpenOnly(o) == order[o].status = "created"

(* applyPaidOrder goes on unless the order is paid already.                *)
Applies(o) == order[o].status # "paid"

(* applyPaidOrder, called by verify or by an order.paid event: up to the   *)
(* read of the current subscription.                                       *)
PaidReads(p) ==
  LET o == gateway[p].o IN
  /\ gateway[p].outcome = "captured"
  /\ ~Locked(o)
  /\ Applies(o)
  /\ apply' = [apply EXCEPT ![o] = [pc |-> "applying", p |-> p, sub |-> Current,
                                    end |-> order[o].end]]
  /\ UNCHANGED <<now, order, subs, slot, gateway, handled, failing, sweep,
                 history, faults>>

(* activateFreePlan looks for the order before its transaction.            *)
FreeReads(a) ==
  /\ apply[a].pc = "idle"
  /\ order[FreeOrder].status = "none"
  /\ apply' = [apply EXCEPT ![a] = [pc |-> "applying", p |-> None, sub |-> Current,
                                    end |-> PeriodEnd("free")]]
  /\ UNCHANGED <<now, order, subs, slot, gateway, handled, failing, sweep,
                 history, faults>>

(* Mutant: the update of an existing row leaves its status alone.          *)
ExtendedKeepsStatus(s, o, status, end) ==
  [s EXCEPT !.plan = PlanOf(o), !.end = end, !.grace = NoGrace]

(* #extendOrInsertSubscription, the update of the current row.             *)
Extended(s, o, status, end) ==
  [plan |-> PlanOf(o), status |-> status, end |-> end, grace |-> NoGrace]

(* #extendOrInsertSubscription: i is the row it read, or 0.                *)
Activate(i, o, status, end) ==
  subs' = IF i = 0
            THEN Append(subs, [plan |-> PlanOf(o), status |-> status, end |-> end,
                               grace |-> NoGrace])
            ELSE [subs EXCEPT ![i] = Extended(@, o, status, end)]
Shortens(i, end) == i # 0 /\ subs[i].end > end

(* The commit of applyPaidOrder: subscription, payment, invoice, order.    *)
PaidCommits(o) ==
  LET p == apply[o].p  i == apply[o].sub  end == apply[o].end IN
  /\ apply[o].pc = "applying"
  /\ slot[o] \in {None, p}
  /\ Activate(i, o, "active", end)
  /\ slot' = [slot EXCEPT ![o] = p]
  /\ order' = [order EXCEPT ![o].status = "paid"]
  /\ history' = [history EXCEPT !.invoices[o] = @ + 1,
                                !.lost = @ \/ Shortens(i, end)]
  /\ apply' = [apply EXCEPT ![o] = IdleApply]
  /\ UNCHANGED <<now, gateway, handled, failing, sweep, faults>>

(* The commit of activateFreePlan; a free plan may start as a trial.       *)
FreeCommits(a) ==
  LET i == apply[a].sub  end == apply[a].end IN
  /\ apply[a].pc = "applying"
  /\ order[FreeOrder].status = "none"
  /\ \E status \in {"active", "trialing"} : Activate(i, FreeOrder, status, end)
  /\ order' = [order EXCEPT ![FreeOrder] = [status |-> "paid", end |-> end,
                                            expires |-> 0]]
  /\ history' = [history EXCEPT !.lost = @ \/ Shortens(i, end)]
  /\ apply' = [apply EXCEPT ![a] = IdleApply]
  /\ UNCHANGED <<now, slot, gateway, handled, failing, sweep, faults>>

(* The transaction is rolled back: another payment of the order, or another*)
(* activation of the free plan, holds the unique index; or the process     *)
(* dies.                                                                   *)
ActivationAborts(a) ==
  /\ apply[a].pc = "applying"
  /\ \/ a \in Orders /\ slot[a] \notin {None, apply[a].p} /\ UNCHANGED faults
     \/ a \in FreeRequests /\ order[FreeOrder].status # "none" /\ UNCHANGED faults
     \/ Fault
  /\ apply' = [apply EXCEPT ![a] = IdleApply]
  /\ UNCHANGED <<now, order, subs, slot, gateway, handled, failing, sweep,
                 history>>

(* #onPaymentCaptured records the payment, unless the order's slot in the  *)
(* unique index is taken, and changes no status.                           *)
OnPaymentCaptured(p) ==
  LET o == gateway[p].o IN
  /\ gateway[p].outcome = "captured"
  /\ slot[o] = None
  /\ slot' = [slot EXCEPT ![o] = p]
  /\ UNCHANGED <<now, order, subs, gateway, handled, apply, failing, sweep,
                 history, faults>>

-----------------------------------------------------------------------------
(* #onPaymentFailed reads the subscription and the order ...               *)
FailedReads(p) ==
  /\ failing.pc = "idle"
  /\ gateway[p].outcome = "failed"
  /\ p \notin handled
  /\ failing' = [pc |-> "order", p |-> p,
                 sub |-> IF Current # 0 /\ subs[Current].status \in {"active", "trialing"}
                           THEN Current ELSE 0,
                 created |-> order[gateway[p].o].status = "created"]
  /\ UNCHANGED <<now, order, subs, slot, gateway, handled, apply, sweep,
                 history, faults>>

(* An update of an order by its id alone; history keeps what it overwrote. *)
OverwriteOrder(o, status) ==
  /\ ~Locked(o)
  /\ order' = [order EXCEPT ![o].status = status]
  /\ history' = [history EXCEPT !.overwritten[o] =
                   IF order[o].status = "paid" THEN @ + 1 ELSE @]

(* ... fails the order if it was open when it looked ...                   *)
FailedOrder ==
  /\ failing.pc = "order"
  /\ IF failing.created
       THEN OverwriteOrder(gateway[failing.p].o, "failed")
       ELSE UNCHANGED <<order, history>>
  /\ failing' = [failing EXCEPT !.pc = "payment"]
  /\ UNCHANGED <<now, subs, slot, gateway, handled, apply, sweep, faults>>

(* ... records the payment, or violates the unique index and gives up ...  *)
FailedPayment(o, p) ==
  /\ slot[o] \in {None, p}
  /\ slot' = [slot EXCEPT ![o] = p]

(* ... and sets the subscription it read past due, without a grace period. *)
PastDue(i) ==
  subs' = IF i = 0 THEN subs ELSE [subs EXCEPT ![i].status = "past_due"]

(* A worker that dies before the event is marked leaves it to be repeated. *)
FailedEnds ==
  LET o == gateway[failing.p].o IN
  /\ failing.pc = "payment"
  /\ \/ /\ FailedPayment(o, failing.p)
        /\ \/ PastDue(failing.sub) /\ handled' = handled \cup {failing.p}
              /\ UNCHANGED faults
           \/ (PastDue(failing.sub) \/ UNCHANGED subs) /\ UNCHANGED handled /\ Fault
     \/ /\ slot[o] \notin {None, failing.p}
        /\ UNCHANGED <<slot, subs, handled, faults>>
  /\ failing' = IdleFailing
  /\ UNCHANGED <<now, order, gateway, apply, sweep, history>>

-----------------------------------------------------------------------------
(* The sweep lists expired checkouts ...                                   *)
SweepStarts ==
  /\ sweep.pc = "idle"
  /\ sweep' = [pc |-> "orders", at |-> now, subs |-> {},
               orders |-> {o \in Orders : /\ order[o].status = "created"
                                          /\ order[o].expires <= now}]
  /\ UNCHANGED <<now, order, subs, slot, gateway, handled, apply, failing,
                 history, faults>>

(* ... updates them one by one ...                                         *)
ExpireOrder(o) ==
  /\ sweep.pc = "orders"
  /\ o \in sweep.orders
  /\ OverwriteOrder(o, "expired")
  /\ sweep' = [sweep EXCEPT !.orders = @ \ {o}]
  /\ UNCHANGED <<now, subs, slot, gateway, handled, apply, failing, faults>>

(* Mutant: a period that ends now is not over.                             *)
LapsedStrictly(s, at) == s.status = "active" /\ s.end < at

(* listActivePastPeriodEnd                                                 *)
Lapsed(s, at) == s.status = "active" /\ s.end <= at

(* listPastDuePastGrace                                                    *)
PastGrace(s, at) == s.status = "past_due" /\ s.grace # NoGrace /\ s.grace <= at

(* ... lists the subscriptions whose period ended, each with that end, then *)
(* those whose grace period ended.                                         *)
SweepLists ==
  LET Listed(rows) == {<<i, subs[i].end>> : i \in rows} IN
  /\ \/ /\ sweep.pc = "orders" /\ sweep.orders = {}
        /\ sweep' = [sweep EXCEPT !.pc = "past_due", !.subs =
                       Listed({i \in 1..Len(subs) : Lapsed(subs[i], sweep.at)})]
     \/ /\ sweep.pc = "past_due" /\ sweep.subs = {}
        /\ sweep' = [sweep EXCEPT !.pc = "grace", !.subs =
                       Listed({i \in 1..Len(subs) : PastGrace(subs[i], sweep.at)})]
     \/ /\ sweep.pc = "grace" /\ sweep.subs = {}
        /\ sweep' = IdleSweep
  /\ UNCHANGED <<now, order, subs, slot, gateway, handled, apply, failing,
                 history, faults>>

(* #markPastDue and #expireSubscriptions update the listed rows by id; a   *)
(* row that was renewed meanwhile loses its paid time.                     *)
MarkPastDue(row) ==
  LET i == row[1] IN
  /\ sweep.pc = "past_due"
  /\ subs' = [subs EXCEPT ![i].status = "past_due",
                          ![i].grace = row[2] + GraceLength]
  /\ history' = [history EXCEPT !.lost = @ \/ ~Lapsed(subs[i], sweep.at)]
  /\ sweep' = [sweep EXCEPT !.subs = @ \ {row}]
  /\ UNCHANGED <<now, order, slot, gateway, handled, apply, failing, faults>>

ExpireSubscription(row) ==
  LET i == row[1] IN
  /\ sweep.pc = "grace"
  /\ subs' = [subs EXCEPT ![i].status = "expired"]
  /\ history' = [history EXCEPT !.lost = @ \/ ~PastGrace(subs[i], sweep.at)]
  /\ sweep' = [sweep EXCEPT !.subs = @ \ {row}]
  /\ UNCHANGED <<now, order, slot, gateway, handled, apply, failing, faults>>

(* The worker of the sweep dies.                                           *)
SweepDies ==
  /\ sweep.pc # "idle"
  /\ Fault
  /\ sweep' = IdleSweep
  /\ UNCHANGED <<now, order, subs, slot, gateway, handled, apply, failing,
                 history>>

Tick ==
  /\ now < MaxTime
  /\ now' = now + 1
  /\ UNCHANGED <<order, subs, slot, gateway, handled, apply, failing, sweep,
                 history, faults>>

-----------------------------------------------------------------------------
Sweep ==
  \/ SweepStarts \/ SweepLists
  \/ \E o \in Orders : ExpireOrder(o)
  \/ \E row \in sweep.subs : MarkPastDue(row) \/ ExpireSubscription(row)
OnPaymentFailed ==
  FailedOrder \/ FailedEnds \/ \E p \in Payments : FailedReads(p)

Next ==
  \/ \E o \in Orders : CreateCheckout(o) \/ InsertOrder(o)
  \/ \E p \in Payments, o \in Orders : Attempt(p, o)
  \/ \E p \in Payments : PaidReads(p)
  \/ \E o \in Orders : PaidCommits(o)
  \/ \E a \in FreeRequests : FreeReads(a) \/ FreeCommits(a)
  \/ \E a \in Transactions : ActivationAborts(a)
  \/ \E p \in Payments : OnPaymentCaptured(p)
  \/ OnPaymentFailed
  \/ Sweep \/ SweepDies \/ Tick

Spec == Init /\ [][Next]_vars

(* Fairness.  The ledger of PaymentEvents runs the handler of an order.paid*)
(* event until it concludes, transactions end, and the sweep is a cron; it *)
(* may wait for the lock of an order, but the lock is granted in turn.     *)
Fairness ==
  /\ \A p \in Payments : WF_vars(PaidReads(p))
  /\ \A o \in Orders : WF_vars(PaidCommits(o) \/ ActivationAborts(o))
  /\ \A a \in FreeRequests : WF_vars(FreeCommits(a) \/ ActivationAborts(a))
  /\ SF_vars(Sweep)

FairSpec == Spec /\ Fairness

-----------------------------------------------------------------------------
(* applyPaidOrder is idempotent: verify and repeated events together issue *)
(* one invoice for an order, and one more only for each time the sweep or a*)
(* payment.failed handler overwrote the paid order by its id.              *)
InvoicesHaveACause ==
  \A o \in Orders : history.invoices[o] <= 1 + history.overwritten[o]

(* Whoever has paid keeps access to the end of the period bought, whatever *)
(* the sweep, failed payments and further orders do - unless an activation *)
(* replaced a later end by an earlier one, or the sweep wrote to a row that*)
(* was renewed after it was listed.                                        *)
PaidTimeIsKept ==
  \A o \in Orders :
    history.invoices[o] > 0 /\ now < order[o].end /\ ~history.lost => Current # 0

(* A captured payment is applied in the end, unless a failed attempt holds *)
(* the order's slot in the unique index of payment_transactions.           *)
CapturedFor(o) == {p \in Payments : gateway[p] = [o |-> o, outcome |-> "captured"]}
CapturedIsApplied ==
  \A o \in Orders :
    CapturedFor(o) # {} ~>
      history.invoices[o] > 0 \/ slot[o] \notin CapturedFor(o) \cup {None}

(* A period that is over ends: the sweep starts the grace period of an     *)
(* active row, and expires the row when it is over, in spite of crashes.   *)
(* (A row set past due by a failed payment has no grace period to end.)    *)
Overdue ==
  {i \in 1..Len(subs) : \/ subs[i].status = "active" /\ subs[i].end <= now
                        \/ subs[i].status = "past_due" /\ subs[i].grace \in 1..now}
LapsesEnd ==
  \A i \in 1..Cardinality(AllOrders) : i \in Overdue ~> i \notin Overdue

(* The invoices and the rows they extend are sound (applyPaidOrder).       *)
InvoicesAreSound == TypeOK /\ InvoicesHaveACause

=============================================================================
